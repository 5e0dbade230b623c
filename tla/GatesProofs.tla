---- MODULE GatesProofs ----
(***************************************************************************)
(* Theorems about Gates, for every evidence, every requirement and any     *)
(* number of promotions.                                                   *)
(*                                                                         *)
(* The inductive invariant is that the answer on the table belongs to the  *)
(* question on the table and to the release that runs: a promotion, which  *)
(* makes it stale, takes it away.                                          *)
(***************************************************************************)
EXTENDS Gates, CommonLemmas

QuestionOK ==
  /\ asked = [gate |-> asked.gate, evidence |-> asked.evidence, required |-> asked.required]
  /\ asked.gate \in GateNames
  /\ asked.required \in Required[asked.gate]
  /\ asked.evidence = [field \in DOMAIN Evidence[asked.gate] |-> asked.evidence[field]]
  /\ \A field \in DOMAIN asked.evidence : asked.evidence[field] \in Possible(asked.gate, field)

BaselineOK ==
  \A field \in ReleaseFields :
    baseline[field] \in {FirstRelease[field]}
                         \cup (IF asked.gate = "rollout" THEN Possible("rollout", field) ELSE {})

IInv ==
  /\ QuestionOK
  /\ answer \in {Unanswered, Answer(asked)}
  /\ promotions \in Nat
  /\ BaselineOK
  /\ ErosionBounded

-----------------------------------------------------------------------------
(* Powers, as the recursion of their definition. *)

IsPower(p, base, exponent) ==
  p = [n \in 0..exponent |-> IF n = 0 THEN 1 ELSE base * p[n - 1]]

LEMMA PowerExists ==
  ASSUME NEW base, NEW exponent \in Nat
  PROVE  \E p : IsPower(p, base, exponent)
<1> DEFINE good == {e \in Nat : \E p : IsPower(p, base, e)}
<1>1. 0 \in good
  <2> DEFINE one == [n \in 0..0 |-> 1]
  <2>1. one = [n \in 0..0 |-> IF n = 0 THEN 1 ELSE base * one[n - 1]]
    OBVIOUS
  <2> QED
    BY <2>1 DEF IsPower
<1>2. ASSUME NEW e \in good
      PROVE  e + 1 \in good
  <2>1. e \in Nat
    OBVIOUS
  <2>2. PICK p : p = [n \in 0..e |-> IF n = 0 THEN 1 ELSE base * p[n - 1]]
    BY DEF IsPower
  <2> DEFINE r == [n \in 0..(e + 1) |-> IF n <= e THEN p[n] ELSE base * p[e]]
  <2>3. \A n \in 0..(e + 1) : r[n] = IF n = 0 THEN 1 ELSE base * r[n - 1]
    <3>1. \A n \in 0..e : p[n] = IF n = 0 THEN 1 ELSE base * p[n - 1]
      BY <2>2
    <3>2. ASSUME NEW n \in 0..(e + 1), n # 0
          PROVE  r[n] = base * r[n - 1]
      <4>1. n - 1 \in 0..(e + 1) /\ n - 1 <= e /\ r[n - 1] = p[n - 1]
        BY <2>1, <3>2
      <4>2. CASE n <= e
        BY <2>1, <3>1, <3>2, <4>1, <4>2
      <4>3. CASE ~(n <= e)
        <5>1. n - 1 = e
          BY <2>1, <4>3
        <5> QED
          BY <4>1, <4>3, <5>1
      <4> QED
        BY <4>2, <4>3
    <3>3. r[0] = 1
      BY <2>1, <3>1
    <3> HIDE DEF r
    <3> QED
      BY <3>2, <3>3
  <2>4. DOMAIN r = 0..(e + 1) /\ r = [n \in 0..(e + 1) |-> r[n]]
    OBVIOUS
  <2> HIDE DEF r
  <2>5. r = [n \in 0..(e + 1) |-> IF n = 0 THEN 1 ELSE base * r[n - 1]]
    BY <2>3, <2>4
  <2> QED
    BY <2>1, <2>5 DEF IsPower
<1>3. good \in SUBSET Nat
  OBVIOUS
<1> HIDE DEF good
<1>4. good = Nat
  BY <1>1, <1>2, <1>3, Induction
<1> QED
  BY <1>4 DEF good

LEMMA PowerIsPower ==
  ASSUME NEW base, NEW exponent \in Nat
  PROVE  \E p : IsPower(p, base, exponent) /\ Power(base, exponent) = p[exponent]
<1> DEFINE chosen == CHOOSE p : IsPower(p, base, exponent)
<1>1. IsPower(chosen, base, exponent)
  <2>1. \E p : IsPower(p, base, exponent)
    BY PowerExists
  <2> QED
    BY <2>1, Zenon
<1>2. Power(base, exponent) = chosen[exponent]
  BY Zenon DEF Power, IsPower
<1> QED
  BY <1>1, <1>2, Zenon

LEMMA PowerUnfolds ==
  ASSUME NEW base, NEW n \in Nat
  PROVE  /\ Power(base, 0) = 1
         /\ Power(base, n + 1) = base * Power(base, n)
<1>1. Power(base, 0) = 1
  <2>1. PICK p : IsPower(p, base, 0) /\ Power(base, 0) = p[0]
    BY PowerIsPower
  <2> QED
    BY <2>1 DEF IsPower
<1>2. PICK p : IsPower(p, base, n) /\ Power(base, n) = p[n]
  BY PowerIsPower
<1>3. PICK r : IsPower(r, base, n + 1) /\ Power(base, n + 1) = r[n + 1]
  BY PowerIsPower
<1> DEFINE good == {k \in Nat : k <= n => p[k] = r[k]}
<1>4. 0 \in good
  BY <1>2, <1>3 DEF IsPower
<1>5. ASSUME NEW k \in good
      PROVE  k + 1 \in good
  <2> SUFFICES ASSUME k + 1 <= n PROVE p[k + 1] = r[k + 1]
    OBVIOUS
  <2>1. p[k] = r[k] /\ k \in Nat
    OBVIOUS
  <2>2. k + 1 \in 0..n /\ k + 1 \in 0..(n + 1) /\ k + 1 # 0 /\ (k + 1) - 1 = k
    BY <2>1
  <2>3. p[k + 1] = base * p[k]
    BY <1>2, <2>2 DEF IsPower
  <2>4. r[k + 1] = base * r[k]
    BY <1>3, <2>2 DEF IsPower
  <2> QED
    BY <2>1, <2>3, <2>4
<1>6. n \in good
  <2>1. good \in SUBSET Nat
    OBVIOUS
  <2> HIDE DEF good
  <2> QED
    BY <1>4, <1>5, <2>1, Induction
<1>7. r[n + 1] = base * r[n]
  <2>1. n + 1 \in 0..(n + 1) /\ n + 1 # 0 /\ (n + 1) - 1 = n
    OBVIOUS
  <2> QED
    BY <1>3, <2>1 DEF IsPower
<1> QED
  BY <1>1, <1>2, <1>3, <1>6, <1>7

LEMMA PowerType ==
  ASSUME NEW base \in Nat, NEW n \in Nat
  PROVE  Power(base, n) \in Nat
<1> DEFINE good == {k \in Nat : Power(base, k) \in Nat}
<1>1. 0 \in good
  BY PowerUnfolds
<1>2. ASSUME NEW k \in good
      PROVE  k + 1 \in good
  <2>1. Power(base, k + 1) = base * Power(base, k)
    BY PowerUnfolds
  <2> QED
    BY <2>1
<1>3. good \in SUBSET Nat
  OBVIOUS
<1> HIDE DEF good
<1>4. n \in good
  BY <1>1, <1>2, <1>3, Induction
<1> QED
  BY <1>4 DEF good

-----------------------------------------------------------------------------
(* What the fields of a question may be. *)

LEMMA EvidenceTypes ==
  ASSUME QuestionOK, asked.gate # "service", NEW field \in Fields[asked.gate]
  PROVE  /\ field \in DOMAIN asked.evidence
         /\ asked.evidence[field] \in Possible(asked.gate, field)
         /\ asked.evidence[field] \in FieldValues(field)
BY MeasuredAssumption DEF QuestionOK

LEMMA RequiredTypes ==
  ASSUME QuestionOK, NEW field \in RequiredFields[asked.gate]
  PROVE  field \in DOMAIN asked.required /\ asked.required[field] \in Int
BY MeasuredAssumption DEF QuestionOK

LEMMA ReleaseTypes ==
  ASSUME QuestionOK, asked.gate = "rollout"
  PROVE  /\ \A field \in ReleaseFields : /\ field \in DOMAIN asked.evidence
                                       /\ asked.evidence[field] \in Possible("rollout", field)
                                       /\ asked.evidence[field] \in FieldValues(field)
         /\ asked.evidence.quality_score \in Int
         /\ asked.evidence.output_tokens_per_second \in Int
         /\ \A field \in RequiredFields["rollout"] :
              field \in DOMAIN asked.required /\ asked.required[field] \in Int
<1>1. Fields[asked.gate] = ReleaseFields
  BY DEF Fields
<1>2. \A field \in ReleaseFields : /\ field \in DOMAIN asked.evidence
                                 /\ asked.evidence[field] \in Possible("rollout", field)
                                 /\ asked.evidence[field] \in FieldValues(field)
  BY <1>1, EvidenceTypes
<1>3. FieldValues("quality_score") = Int /\ FieldValues("output_tokens_per_second") = Int
  BY DEF FieldValues
<1>4. "quality_score" \in ReleaseFields /\ "output_tokens_per_second" \in ReleaseFields
  BY DEF ReleaseFields
<1> QED
  BY <1>2, <1>3, <1>4, RequiredTypes

-----------------------------------------------------------------------------
(* The erosion of quality and throughput by a chain of promotions. *)

LEMMA FirstReleaseTypes ==
  /\ FirstRelease.quality_score \in Int
  /\ FirstRelease.output_tokens_per_second \in Int
<1>1. FieldValues("quality_score") = Int /\ FieldValues("output_tokens_per_second") = Int
  BY DEF FieldValues
<1>2. "quality_score" \in ReleaseFields /\ "output_tokens_per_second" \in ReleaseFields
  BY DEF ReleaseFields
<1> QED
  BY <1>1, <1>2, MeasuredAssumption

LEMMA BaselineTypes ==
  ASSUME QuestionOK, BaselineOK
  PROVE  /\ \A field \in ReleaseFields : baseline[field] \in FieldValues(field)
         /\ baseline.quality_score \in Int /\ baseline.output_tokens_per_second \in Int
<1>1. ASSUME NEW field \in ReleaseFields
      PROVE  baseline[field] \in FieldValues(field)
  <2>1. CASE asked.gate = "rollout"
    <3>1. Possible("rollout", field) \subseteq FieldValues(field)
      BY <2>1, MeasuredAssumption DEF QuestionOK, Fields
    <3> QED
      BY <2>1, <3>1, MeasuredAssumption DEF BaselineOK
  <2>2. CASE asked.gate # "rollout"
    BY <2>2, MeasuredAssumption DEF BaselineOK
  <2> QED
    BY <2>1, <2>2
<1>2. FieldValues("quality_score") = Int /\ FieldValues("output_tokens_per_second") = Int
  BY DEF FieldValues
<1>3. "quality_score" \in ReleaseFields /\ "output_tokens_per_second" \in ReleaseFields
  BY DEF ReleaseFields
<1> QED
  BY <1>1, <1>2, <1>3

(* One more promotion multiplies the bound by the relative minimum.          *)
LEMMA ErosionStep ==
  ASSUME NEW n \in Nat, NEW m \in Nat, NEW first \in Int, NEW old \in Int, NEW new \in Int,
         Power(100, n) * old >= Power(m, n) * first, 100 * new >= m * old
  PROVE  Power(100, n + 1) * new >= Power(m, n + 1) * first
<1> DEFINE p == Power(100, n)
           r == Power(m, n)
<1>1. p \in Nat /\ r \in Nat
  BY PowerType
<1>2. Power(100, n + 1) = 100 * p /\ Power(m, n + 1) = m * r
  BY PowerUnfolds
<1> HIDE DEF p, r
<1>3. (100 * p) * new = p * (100 * new)
  BY <1>1
<1>4. p * (100 * new) >= p * (m * old)
  <2> DEFINE a == 100 * new
             b == m * old
  <2>1. a \in Int /\ b \in Int /\ a >= b
    OBVIOUS
  <2> HIDE DEF a, b
  <2>2. p * a >= p * b
    BY <1>1, <2>1
  <2> QED
    BY <2>2 DEF a, b
<1>5. p * (m * old) = m * (p * old)
  BY <1>1
<1>6. m * (p * old) >= m * (r * first)
  <2> DEFINE a == p * old
             b == r * first
  <2>1. a \in Int /\ b \in Int /\ a >= b
    BY <1>1 DEF p, r
  <2> HIDE DEF a, b
  <2>2. m * a >= m * b
    BY <2>1
  <2> QED
    BY <2>2 DEF a, b
<1>7. (m * r) * first = m * (r * first)
  BY <1>1
<1>8. /\ (100 * p) * new \in Int /\ p * (m * old) \in Int /\ m * (r * first) \in Int
  BY <1>1
<1> QED
  BY <1>2, <1>3, <1>4, <1>5, <1>6, <1>7, <1>8

LEMMA PromoteKeeps ==
  ASSUME IInv, Promote
  PROVE  IInv'
<1>1. /\ asked.gate = "rollout" /\ asked' = asked /\ answer' = Unanswered
      /\ baseline' = asked.evidence /\ promotions' = promotions + 1
  BY DEF Promote
<1>2. answer = Answer(asked) /\ answer # Raised /\ answer.action = "promote"
  BY DEF Promote, IInv
<1>3. /\ ReleaseValid(baseline, asked.evidence, asked.required)
      /\ EvaluateRollout(baseline, asked.evidence, asked.required).action = "promote"
  BY <1>1, <1>2 DEF Answer, ReleaseGate
<1> DEFINE new   == asked.evidence.quality_score
           run   == baseline.quality_score
           drop  == asked.required.max_quality_drop
           first == FirstRelease.quality_score
<1>4. new \in Int /\ run \in Int /\ drop \in Int /\ first \in Int /\ promotions \in Nat
  <2>1. "max_quality_drop" \in RequiredFields["rollout"]
    BY DEF RequiredFields, ReleaseRequiredFields
  <2> QED
    BY <1>1, <2>1, ReleaseTypes, BaselineTypes, FirstReleaseTypes DEF IInv
<1>5. /\ new >= asked.required.min_quality_score /\ run - new <= drop
      /\ ThroughputKept(baseline, asked.evidence, asked.required)
  BY <1>3, PromotedIff
<1>6. run >= first - promotions * drop
  BY <1>1 DEF IInv, ErosionBounded, QualityErosionBounded
<1>7. new >= first - (promotions + 1) * drop
  <2> HIDE DEF new, run, drop, first
  <2>1. (promotions + 1) * drop = promotions * drop + drop
    BY <1>4
  <2>2. promotions * drop \in Int
    BY <1>4
  <2> QED
    BY <1>4, <1>5, <1>6, <2>1, <2>2
<1> DEFINE m == asked.required.min_relative_throughput
<1>8. /\ m \in Nat /\ asked.evidence.output_tokens_per_second \in Int
      /\ baseline.output_tokens_per_second \in Int
      /\ FirstRelease.output_tokens_per_second \in Int
  <2>1. "min_relative_throughput" \in RequiredFields["rollout"]
    BY DEF RequiredFields, ReleaseRequiredFields
  <2>2. m \in Int /\ "min_relative_throughput" \in DOMAIN asked.required
    BY <1>1, <2>1, ReleaseTypes DEF IInv
  <2>3. m >= 0
    BY <1>3, <2>2 DEF ReleaseValid, ReleaseRequired
  <2> QED
    BY <1>1, <2>2, <2>3, ReleaseTypes, BaselineTypes, FirstReleaseTypes DEF IInv
<1>9. Power(100, promotions + 1) * asked.evidence.output_tokens_per_second
        >= Power(m, promotions + 1) * FirstRelease.output_tokens_per_second
  <2>1. Power(100, promotions) * baseline.output_tokens_per_second
          >= Power(m, promotions) * FirstRelease.output_tokens_per_second
    BY <1>1 DEF IInv, ErosionBounded
  <2>2. 100 * asked.evidence.output_tokens_per_second >= m * baseline.output_tokens_per_second
    BY <1>5 DEF ThroughputKept
  <2> HIDE DEF m
  <2> QED
    BY <1>4, <1>8, <2>1, <2>2, ErosionStep
<1>10. ErosionBounded'
  BY <1>1, <1>5, <1>7, <1>9 DEF ErosionBounded, QualityErosionBounded
<1>11. QuestionOK'
  BY <1>1 DEF IInv, QuestionOK, Possible
<1>12. BaselineOK'
  BY <1>1, ReleaseTypes DEF IInv, BaselineOK, Possible
<1> QED
  BY <1>1, <1>4, <1>10, <1>11, <1>12 DEF IInv

LEMMA RemeasureKeeps ==
  ASSUME IInv, NEW field \in DOMAIN Measurements[asked.gate], Remeasure(field)
  PROVE  /\ IInv' /\ answer' = Answer(asked')
         /\ asked'.gate = asked.gate /\ asked'.required = asked.required
<1>1. PICK value \in Measurements[asked.gate][field] :
        asked' = [asked EXCEPT !.evidence = [@ EXCEPT ![field] = value]]
  BY DEF Remeasure
<1>2. /\ asked'.gate = asked.gate /\ asked'.required = asked.required
      /\ asked'.evidence = [asked.evidence EXCEPT ![field] = value]
      /\ asked' = [gate |-> asked'.gate, evidence |-> asked'.evidence, required |-> asked'.required]
  BY <1>1 DEF IInv, QuestionOK
<1>3. value \in Possible(asked.gate, field)
  BY DEF Possible
<1>4. \A f \in DOMAIN asked.evidence : asked'.evidence[f] \in Possible(asked.gate, f)
  BY <1>2, <1>3 DEF IInv, QuestionOK
<1>5. QuestionOK'
  BY <1>2, <1>4 DEF IInv, QuestionOK, Possible
<1>6. answer' = Answer(asked') /\ baseline' = baseline /\ promotions' = promotions
  BY DEF Remeasure
<1>7. answer' = Answer(asked)'
  BY <1>6 DEF Answer, ReleaseGate, FormatGate, ServiceGate, SpeculationGate
<1>8. BaselineOK' /\ ErosionBounded'
  BY <1>2, <1>6 DEF IInv, BaselineOK, Possible, ErosionBounded, QualityErosionBounded
<1> QED
  BY <1>2, <1>5, <1>6, <1>7, <1>8 DEF IInv

LEMMA InitHolds == Init => IInv
<1> SUFFICES ASSUME Init PROVE IInv
  OBVIOUS
<1>1. QuestionOK
  BY GatesAssumption DEF Init, QuestionOK, Possible
<1>2. BaselineOK
  BY DEF Init, BaselineOK
<1>3. ErosionBounded
  <2> SUFFICES ASSUME asked.gate = "rollout"
               PROVE  /\ FirstRelease.quality_score
                            >= FirstRelease.quality_score - 0 * asked.required.max_quality_drop
                      /\ Power(100, 0) * FirstRelease.output_tokens_per_second
                           >= Power(asked.required.min_relative_throughput, 0)
                                * FirstRelease.output_tokens_per_second
    BY DEF Init, ErosionBounded, QualityErosionBounded
  <2>1. asked.required.max_quality_drop \in Int
    BY <1>1, ReleaseTypes DEF RequiredFields, ReleaseRequiredFields
  <2> QED
    BY <2>1, FirstReleaseTypes, PowerUnfolds
<1> QED
  BY <1>1, <1>2, <1>3 DEF Init, IInv

LEMMA Invariance == Spec => []IInv
<1>1. Init => IInv
  BY InitHolds
<1>2. IInv /\ [Next]_vars => IInv'
  <2> SUFFICES ASSUME IInv, [Next]_vars PROVE IInv'
    OBVIOUS
  <2>1. CASE Evaluate
    <3>1. asked' = asked /\ baseline' = baseline /\ promotions' = promotions
      BY <2>1 DEF Evaluate
    <3>2. answer' = Answer(asked)'
      BY <2>1, <3>1 DEF Evaluate, Answer, ReleaseGate, FormatGate, ServiceGate, SpeculationGate
    <3> QED
      BY <3>1, <3>2 DEF IInv, QuestionOK, Possible, BaselineOK, ErosionBounded,
                        QualityErosionBounded
  <2>2. CASE UNCHANGED vars
    BY <2>2 DEF vars, IInv, QuestionOK, Possible, BaselineOK, ErosionBounded,
                QualityErosionBounded, Answer, ReleaseGate, FormatGate, ServiceGate,
                SpeculationGate
  <2> QED
    BY <2>1, <2>2, PromoteKeeps, RemeasureKeeps DEF Next
<1> QED
  BY <1>1, <1>2, PTL DEF Spec

-----------------------------------------------------------------------------
(* The allowances of the rollout gate (lines 88-98) bound the whole chain of *)
(* promotions, however long it is: the quality by their sum, the throughput  *)
(* by their product.  The absolute floor is what stops the erosion: the      *)
(* bounds alone go down for ever.                                            *)
THEOREM ErosionIsBounded == Spec => []ErosionBounded
<1>1. IInv => ErosionBounded
  BY DEF IInv
<1> QED
  BY <1>1, Invariance, PTL

(* Where the loop of lines 75-79 stops. *)
LEMMA AcceptedIsTheAgreement ==
  ASSUME NEW draft \in Seq(Int), NEW target \in Seq(Int), Len(target) > Len(draft)
  PROVE  LET n == Accepted(draft, target)
         IN  /\ n \in 0..Len(draft)
             /\ \A i \in 1..n : draft[i] = target[i]
             /\ n < Len(draft) => draft[n + 1] # target[n + 1]
<1> DEFINE mismatches == {i \in DOMAIN draft : draft[i] # target[i]}
<1>1. Len(draft) \in Nat /\ DOMAIN draft = 1..Len(draft) /\ mismatches \in SUBSET Nat
  OBVIOUS
<1>2. CASE mismatches = {}
  <2>1. Accepted(draft, target) = Len(draft)
    BY <1>2 DEF Accepted
  <2> QED
    BY <1>1, <1>2, <2>1
<1>3. CASE mismatches # {}
  <2> DEFINE first == Min(mismatches)
  <2>1. first \in mismatches /\ \A i \in mismatches : first <= i
    BY <1>1, <1>3, MinExists
  <2>2. Accepted(draft, target) = first - 1
    BY <1>3 DEF Accepted
  <2>3. first \in 1..Len(draft) /\ draft[first] # target[first]
    BY <1>1, <2>1
  <2>4. \A i \in 1..(first - 1) : draft[i] = target[i]
    <3> SUFFICES ASSUME NEW i \in 1..(first - 1), draft[i] # target[i]
                 PROVE  FALSE
      OBVIOUS
    <3>1. first \in 1..Len(draft)
      BY <2>3
    <3>2. i \in DOMAIN draft /\ ~(first <= i)
      <4> HIDE DEF first
      <4> QED
        BY <1>1, <3>1
    <3>3. i \in mismatches
      BY <3>2
    <3> QED
      BY <2>1, <3>2, <3>3
  <2> HIDE DEF first, mismatches
  <2> QED
    BY <1>1, <2>2, <2>3, <2>4
<1> QED
  BY <1>2, <1>3

(* A round emits only what the target supplied, for every draft and every    *)
(* target: the bonus token of a round that accepts the whole draft is there. *)
THEOREM EmissionIsSupplied == Spec => []EmittedSupplied
<1>1. IInv => EmittedSupplied
  <2> SUFFICES ASSUME IInv, Answered, asked.gate = "speculation"
               PROVE  /\ answer.emitted \in 1..Len(asked.evidence.target)
                      /\ Agrees(asked.evidence, answer.emitted - 1)
                      /\ answer.emitted <= Len(asked.evidence.draft)
                           => ~Agrees(asked.evidence, answer.emitted)
    BY DEF EmittedSupplied
  <2> DEFINE draft  == asked.evidence.draft
             target == asked.evidence.target
             n      == Accepted(draft, target)
  <2>1. draft \in Seq(Int) /\ target \in Seq(Int)
    <3>1. "draft" \in Fields[asked.gate] /\ "target" \in Fields[asked.gate]
      BY DEF Fields, RoundFields
    <3>2. FieldValues("draft") = Seq(Int) /\ FieldValues("target") = Seq(Int)
      BY DEF FieldValues
    <3> QED
      BY <3>1, <3>2, EvidenceTypes DEF IInv
  <2>2. answer = Answer(asked) /\ answer # Raised
    BY DEF Answered, IInv
  <2>3. RoundValid(asked.evidence) /\ answer = EvaluateSpeculation(asked.evidence)
    BY <2>2 DEF Answer, SpeculationGate
  <2>4. answer.emitted = n + 1 /\ Len(target) > Len(draft)
    BY <2>3 DEF EvaluateSpeculation, RoundValid
  <2> HIDE DEF draft, target, n
  <2>5. /\ n \in 0..Len(draft)
        /\ \A i \in 1..n : draft[i] = target[i]
        /\ n < Len(draft) => draft[n + 1] # target[n + 1]
    BY <2>1, <2>4, AcceptedIsTheAgreement DEF n
  <2>6. Len(draft) \in Nat /\ Len(target) \in Nat
    BY <2>1
  <2>7. SubSeq(draft, 1, n) = SubSeq(target, 1, n)
    <3>1. /\ SubSeq(draft, 1, n) = [i \in 1..n |-> draft[i]]
          /\ SubSeq(target, 1, n) = [i \in 1..n |-> target[i]]
      BY <2>1, <2>4, <2>5, <2>6
    <3> QED
      BY <2>5, <3>1
  <2>8. n + 1 <= Len(draft) => SubSeq(draft, 1, n + 1) # SubSeq(target, 1, n + 1)
    <3> SUFFICES ASSUME n + 1 <= Len(draft)
                 PROVE  SubSeq(draft, 1, n + 1) # SubSeq(target, 1, n + 1)
      OBVIOUS
    <3>1. /\ SubSeq(draft, 1, n + 1)[n + 1] = draft[n + 1]
          /\ SubSeq(target, 1, n + 1)[n + 1] = target[n + 1]
      BY <2>1, <2>4, <2>5, <2>6
    <3> QED
      BY <2>5, <2>6, <3>1
  <2> QED
    BY <2>4, <2>5, <2>6, <2>7, <2>8 DEF Agrees, draft, target
<1> QED
  BY <1>1, Invariance, PTL

-----------------------------------------------------------------------------
(* The tail of a sample. *)

(* The rank of lines 121-124 is the ceiling of 0.95 n, and within the sample. *)
LEMMA RankIsCeiling ==
  ASSUME NEW n \in Nat \ {0}
  PROVE  LET rank == Max({1, (95 * n + 99) \div 100})
         IN  /\ rank \in 1..n
             /\ 100 * rank >= 95 * n /\ 100 * (rank - 1) < 95 * n
<1> DEFINE q == (95 * n + 99) \div 100
<1>1. /\ q \in Int /\ 100 * q <= 95 * n + 99 /\ 95 * n + 99 < 100 * q + 100
  OBVIOUS
<1> HIDE DEF q
<1>2. q >= 1 /\ q <= n
  BY <1>1
<1>3. Max({1, q}) = q
  BY <1>1, <1>2, MaxOfTwo
<1> QED
  BY <1>1, <1>2, <1>3 DEF q

(* What sorting leaves at a place: as many values come before it as the      *)
(* place says.                                                               *)
LEMMA AscendingPlaces ==
  ASSUME NEW n \in Nat, NEW values \in [1..n -> Int], NEW rank \in 1..n
  PROVE  \E j \in 1..n :
           /\ Ascending(values)[rank] = values[j]
           /\ Cardinality({i \in 1..n : \/ values[i] < values[j]
                                        \/ values[i] = values[j] /\ i < j}) = rank - 1
<1> DEFINE S == 1..n
           before(i, j) == values[i] < values[j] \/ (values[i] = values[j] /\ i < j)
           R == {pair \in S \X S : before(pair[1], pair[2])}
           at == CHOOSE j \in S : Cardinality({i \in S : before(i, j)}) + 1 = rank
<1>1. IsFiniteSet(S) /\ Cardinality(S) = n
  BY FS_Interval
<1>2. \A i, j \in S : <<i, j>> \in R <=> before(i, j)
  OBVIOUS
<1>3. Orders(R, S)
  <2>1. \A i \in S : values[i] \in Int /\ i \in Int
    OBVIOUS
  <2>2. \A i, j \in S : ~(before(i, j) /\ before(j, i)) /\ (i # j => before(i, j) \/ before(j, i))
    BY <2>1
  <2>3. \A i, j, k \in S : before(i, j) /\ before(j, k) => before(i, k)
    BY <2>1
  <2> HIDE DEF R, before, S
  <2> QED
    BY <1>2, <2>2, <2>3 DEF Orders
<1>4. \A j \in S : Before(j, S, R) = {i \in S : before(i, j)}
  <2> HIDE DEF R, before, S
  <2> QED
    BY <1>2 DEF Before
<1>5. PICK j \in S : Cardinality(Before(j, S, R)) = rank - 1
  <2>1. rank - 1 \in 0..(Cardinality(S) - 1)
    BY <1>1
  <2> HIDE DEF R, S
  <2> QED
    BY <1>1, <1>3, <2>1, PositionsAreTaken
<1>6. Cardinality({i \in S : before(i, j)}) + 1 = rank
  <2>1. rank \in Int
    OBVIOUS
  <2> HIDE DEF R, before, S
  <2>2. Cardinality({i \in S : before(i, j)}) = rank - 1
    BY <1>4, <1>5
  <2> QED
    BY <2>1, <2>2
<1>7. at \in S /\ Cardinality({i \in S : before(i, at)}) + 1 = rank
  <2> HIDE DEF before, S
  <2> QED
    BY <1>6
<1>8. Cardinality({i \in S : before(i, at)}) \in Nat
  <2>1. IsFiniteSet({i \in S : before(i, at)})
    <3> HIDE DEF before, S, at
    <3> QED
      BY <1>1, FS_Subset
  <2> QED
    BY <2>1, FS_CardinalityType
<1>9. Ascending(values)[rank] = values[at]
  <2>1. DOMAIN values = S /\ rank \in S
    OBVIOUS
  <2> HIDE DEF S
  <2> QED
    BY <2>1 DEF Ascending
<1>10. Cardinality({i \in S : before(i, at)}) = rank - 1
  <2> HIDE DEF at, before
  <2> QED
    BY <1>7, <1>8
<1> HIDE DEF at
<1> QED
  BY <1>7, <1>9, <1>10

LEMMA NearestRankIsP95 ==
  ASSUME NEW n \in Nat \ {0}, NEW values \in [1..n -> Int]
  PROVE  NearestRank(values) \in Int /\ IsP95(NearestRank(values), values)
<1> DEFINE rank == Max({1, (95 * n + 99) \div 100})
           value == NearestRank(values)
<1>1. rank \in 1..n /\ 100 * rank >= 95 * n /\ 100 * (rank - 1) < 95 * n
  BY RankIsCeiling
<1>2. Len(values) = n /\ DOMAIN values = 1..n
  OBVIOUS
<1>3. value = Ascending(values)[rank]
  BY <1>2 DEF NearestRank
<1> HIDE DEF rank
<1>4. PICK j \in 1..n :
        /\ Ascending(values)[rank] = values[j]
        /\ Cardinality({i \in 1..n : \/ values[i] < values[j]
                                     \/ values[i] = values[j] /\ i < j}) = rank - 1
  BY <1>1, AscendingPlaces
<1> HIDE DEF value
<1> DEFINE B == {i \in 1..n : values[i] < values[j] \/ (values[i] = values[j] /\ i < j)}
           low == {i \in 1..n : values[i] < value}
           within == {i \in 1..n : values[i] <= value}
<1>5. value = values[j] /\ value \in Int
  BY <1>3, <1>4
<1>6. low \in SUBSET B /\ B \in SUBSET within /\ j \in within /\ j \notin B
  BY <1>5
<1>7. IsFiniteSet(1..n) /\ within \in SUBSET (1..n)
  BY FS_Interval
<1> HIDE DEF B, low, within
<1>8. /\ IsFiniteSet(within) /\ IsFiniteSet(B) /\ IsFiniteSet(low)
      /\ Cardinality(within) \in Nat /\ Cardinality(B) \in Nat /\ Cardinality(low) \in Nat
  BY <1>6, <1>7, FS_Subset, FS_CardinalityType
<1>9. Cardinality(low) <= Cardinality(B) /\ Cardinality(B) < Cardinality(within)
  <2>1. B # within
    BY <1>6
  <2>2. Cardinality(B) <= Cardinality(within) /\ Cardinality(B) # Cardinality(within)
    BY <1>6, <1>8, <2>1, FS_Subset
  <2>3. Cardinality(low) <= Cardinality(B)
    BY <1>6, <1>8, FS_Subset
  <2> QED
    BY <1>8, <2>2, <2>3
<1>10. Cardinality(B) = rank - 1
  BY <1>4 DEF B
<1>11. 100 * Cardinality(within) >= 95 * n /\ 100 * Cardinality(low) < 95 * n
  BY <1>1, <1>8, <1>9, <1>10
<1> QED
  BY <1>2, <1>5, <1>11 DEF IsP95, low, within, value

LEMMA TracesType ==
  ASSUME QuestionOK, asked.gate = "service"
  PROVE  Traces(asked.evidence) \in Seq(Trace)
<1> DEFINE load == asked.evidence
           D == DOMAIN Evidence["service"]
<1>1. load = [field \in D |-> load[field]] /\ \A field \in D : load[field] \in Possible("service", field)
  BY DEF QuestionOK
<1>2. \A field \in D : load[field] \in UNION {Possible("service", x) : x \in D}
  BY <1>1
<1> HIDE DEF load, D
<1>3. load \in [D -> UNION {Possible("service", x) : x \in D}]
  BY <1>1, <1>2
<1>4. load \in Loads
  BY <1>1, <1>3 DEF Loads, D
<1> QED
  BY <1>4, MeasuredAssumption DEF QuestionOK, load

(* Traces the gate accepts have metrics, and a report has their tails. *)
LEMMA MetricsType ==
  ASSUME NEW traces \in Seq(Trace), NEW objectives, TracesValid(traces, objectives)
  PROVE  /\ Len(traces) \in Nat \ {0} /\ DOMAIN traces = 1..Len(traces)
         /\ [i \in DOMAIN traces |-> Ttft(traces[i])] \in [1..Len(traces) -> Int]
         /\ [i \in DOMAIN traces |-> Tpot(traces[i])] \in [1..Len(traces) -> Int]
         /\ [i \in DOMAIN traces |-> E2e(traces[i])] \in [1..Len(traces) -> Int]
<1>1. /\ Len(traces) \in Nat \ {0} /\ DOMAIN traces = 1..Len(traces)
      /\ \A i \in 1..Len(traces) : traces[i] \in Trace /\ traces[i].output_tokens > 0
  <2>1. traces # <<>> /\ \A t \in Range(traces) : t.output_tokens > 0
    BY DEF TracesValid
  <2>2. Len(traces) \in Nat /\ DOMAIN traces = 1..Len(traces)
    OBVIOUS
  <2>3. \A i \in 1..Len(traces) : traces[i] \in Range(traces) /\ traces[i] \in Trace
    BY <2>2 DEF Range
  <2> QED
    BY <2>1, <2>2, <2>3
<1>2. ASSUME NEW t \in Trace, t.output_tokens > 0
      PROVE  Ttft(t) \in Int /\ Tpot(t) \in Int /\ E2e(t) \in Int
  <2> DEFINE span == t.completed_at - t.first_token_at
             gaps == t.output_tokens - 1
  <2>1. span \in Int /\ gaps \in Int /\ t.output_tokens \in Int
    BY DEF Trace
  <2>2. CASE t.output_tokens = 1
    BY <2>2 DEF Ttft, Tpot, E2e, Trace
  <2>3. CASE t.output_tokens # 1
    <3>1. gaps > 0
      BY <1>2, <2>1, <2>3
    <3> HIDE DEF span, gaps
    <3>2. span \div gaps \in Int
      BY <2>1, <3>1
    <3> QED
      BY <2>3, <3>2 DEF Ttft, Tpot, E2e, Trace, span, gaps
  <2> QED
    BY <2>2, <2>3
<1>3. \A i \in DOMAIN traces :
        Ttft(traces[i]) \in Int /\ Tpot(traces[i]) \in Int /\ E2e(traces[i]) \in Int
  BY <1>1, <1>2
<1> QED
  BY <1>1, <1>3

(* Each reported tail is the least value that 95 of a hundred traces stay    *)
(* within, whatever the sample (lines 92-94 and 121-124).                    *)
THEOREM TailsAreNearestRank == Spec => []P95IsNearestRank
<1>1. IInv => P95IsNearestRank
  <2> SUFFICES ASSUME IInv, Answered, asked.gate = "service"
               PROVE  LET traces == Traces(asked.evidence)
                      IN  /\ IsP95(answer.p95.ttft, [i \in DOMAIN traces |-> Ttft(traces[i])])
                          /\ IsP95(answer.p95.tpot, [i \in DOMAIN traces |-> Tpot(traces[i])])
                          /\ IsP95(answer.p95.e2e, [i \in DOMAIN traces |-> E2e(traces[i])])
    BY DEF P95IsNearestRank
  <2> DEFINE traces == Traces(asked.evidence)
  <2>1. answer = Answer(asked) /\ answer # Raised
    BY DEF Answered, IInv
  <2>2. /\ TracesValid(traces, asked.required)
        /\ answer = EvaluateService(traces, asked.required)
    BY <2>1 DEF Answer, ServiceGate
  <2>3. traces \in Seq(Trace)
    BY TracesType DEF IInv
  <2> HIDE DEF traces
  <2>4. /\ answer.p95.ttft = NearestRank([i \in DOMAIN traces |-> Ttft(traces[i])])
        /\ answer.p95.tpot = NearestRank([i \in DOMAIN traces |-> Tpot(traces[i])])
        /\ answer.p95.e2e = NearestRank([i \in DOMAIN traces |-> E2e(traces[i])])
    BY <2>2 DEF EvaluateService, P95
  <2>5. /\ IsP95(answer.p95.ttft, [i \in DOMAIN traces |-> Ttft(traces[i])])
        /\ IsP95(answer.p95.tpot, [i \in DOMAIN traces |-> Tpot(traces[i])])
        /\ IsP95(answer.p95.e2e, [i \in DOMAIN traces |-> E2e(traces[i])])
    BY <2>2, <2>3, <2>4, MetricsType, NearestRankIsP95
  <2> QED
    BY <2>5 DEF traces
<1> QED
  BY <1>1, Invariance, PTL

-----------------------------------------------------------------------------
(* The deciding controls. *)

ReadyControls == {"warmup", "sample"}

QualityControls ==
  {"quality_floor", "quality_drop", "ttft", "tpot", "throughput", "errors"}

FormatControls ==
  {"hardware", "quality_floor", "quality_drop", "memory", "ttft", "throughput"}

(* What a control asks of a candidate, in either gate. *)
Holds(control, old, new, q) ==
  CASE control = "warmup"        -> new.warmed
    [] control = "sample"        -> new.sample_count >= q.min_sample_count
    [] control = "hardware"      -> new.hardware_supported
    [] control = "quality_floor" -> new.quality_score >= q.min_quality_score
    [] control = "quality_drop"  -> old.quality_score - new.quality_score <= q.max_quality_drop
    [] control = "ttft"          -> new.p95_ttft_seconds <= q.max_p95_ttft_seconds
    [] control = "tpot"          -> new.p95_tpot_seconds <= q.max_p95_tpot_seconds
    [] control = "errors"        -> new.error_rate <= q.max_error_rate
    [] control = "memory"        -> new.weight_memory_gib <= q.max_weight_memory_gib
    [] control = "throughput"    -> 100 * new.output_tokens_per_second
                                      >= q.min_relative_throughput * old.output_tokens_per_second

Failed(controls, old, new, q) == {control \in controls : ~Holds(control, old, new, q)}

LEMMA FailedReleaseControls ==
  ASSUME NEW old, NEW new, NEW q
  PROVE  /\ Unready(new, q) = Failed(ReadyControls, old, new, q)
         /\ Regressions(old, new, q) = Failed(QualityControls, old, new, q)
<1> DEFINE ready == [warmup |-> new.warmed, sample |-> new.sample_count >= q.min_sample_count]
           kept  ==
             [quality_floor |-> AboveFloor(new, q),
              quality_drop  |-> old.quality_score - new.quality_score <= q.max_quality_drop,
              ttft          |-> new.p95_ttft_seconds <= q.max_p95_ttft_seconds,
              tpot          |-> new.p95_tpot_seconds <= q.max_p95_tpot_seconds,
              throughput    |-> ThroughputKept(old, new, q),
              errors        |-> new.error_rate <= q.max_error_rate]
<1>1. Unready(new, q) = {c \in DOMAIN ready : ~ready[c]}
  BY DEF Unready
<1>2. Regressions(old, new, q) = {c \in DOMAIN kept : ~kept[c]}
  BY DEF Regressions
<1>3. DOMAIN ready = ReadyControls /\ DOMAIN kept = QualityControls
  BY DEF ReadyControls, QualityControls
<1>4. /\ ready["warmup"] <=> Holds("warmup", old, new, q)
      /\ ready["sample"] <=> Holds("sample", old, new, q)
  <2>1. /\ Holds("warmup", old, new, q) <=> new.warmed
        /\ Holds("sample", old, new, q) <=> new.sample_count >= q.min_sample_count
    BY DEF Holds
  <2> QED
    BY <2>1, Zenon
<1>5. /\ kept["quality_floor"] <=> Holds("quality_floor", old, new, q)
      /\ kept["quality_drop"] <=> Holds("quality_drop", old, new, q)
      /\ kept["ttft"] <=> Holds("ttft", old, new, q)
      /\ kept["tpot"] <=> Holds("tpot", old, new, q)
      /\ kept["throughput"] <=> Holds("throughput", old, new, q)
      /\ kept["errors"] <=> Holds("errors", old, new, q)
  <2>1. /\ kept["quality_floor"] <=> new.quality_score >= q.min_quality_score
        /\ kept["quality_drop"]  <=> old.quality_score - new.quality_score <= q.max_quality_drop
        /\ kept["ttft"]          <=> new.p95_ttft_seconds <= q.max_p95_ttft_seconds
        /\ kept["tpot"]          <=> new.p95_tpot_seconds <= q.max_p95_tpot_seconds
        /\ kept["throughput"]    <=> ThroughputKept(old, new, q)
        /\ kept["errors"]        <=> new.error_rate <= q.max_error_rate
    BY Zenon DEF AboveFloor
  <2> HIDE DEF kept
  <2> QED
    BY <2>1 DEF Holds, ThroughputKept
<1> HIDE DEF ready, kept
<1> QED
  BY <1>1, <1>2, <1>3, <1>4, <1>5 DEF Failed, ReadyControls, QualityControls

LEMMA FailedFormatControls ==
  ASSUME NEW old, NEW new, NEW q
  PROVE  Rejections(old, new, q) = Failed(FormatControls, old, new, q)
<1> DEFINE kept ==
        [hardware      |-> new.hardware_supported,
         quality_floor |-> new.quality_score >= q.min_quality_score,
         quality_drop  |-> old.quality_score - new.quality_score <= q.max_quality_drop,
         memory        |-> new.weight_memory_gib <= q.max_weight_memory_gib,
         ttft          |-> new.p95_ttft_seconds <= q.max_p95_ttft_seconds,
         throughput    |-> FormatKeepsThroughput(old, new, q)]
<1>1. Rejections(old, new, q) = {c \in DOMAIN kept : ~kept[c]}
  BY DEF Rejections
<1>2. DOMAIN kept = FormatControls
  BY DEF FormatControls
<1>3. kept["hardware"] <=> Holds("hardware", old, new, q)
  <2>1. Holds("hardware", old, new, q) <=> new.hardware_supported
    BY DEF Holds
  <2> QED
    BY <2>1, Zenon
<1>4. /\ kept["quality_floor"] <=> Holds("quality_floor", old, new, q)
      /\ kept["quality_drop"] <=> Holds("quality_drop", old, new, q)
      /\ kept["memory"] <=> Holds("memory", old, new, q)
      /\ kept["ttft"] <=> Holds("ttft", old, new, q)
      /\ kept["throughput"] <=> Holds("throughput", old, new, q)
  <2>1. /\ kept["quality_floor"] <=> new.quality_score >= q.min_quality_score
        /\ kept["quality_drop"]  <=> old.quality_score - new.quality_score <= q.max_quality_drop
        /\ kept["memory"]        <=> new.weight_memory_gib <= q.max_weight_memory_gib
        /\ kept["ttft"]          <=> new.p95_ttft_seconds <= q.max_p95_ttft_seconds
        /\ kept["throughput"]    <=> FormatKeepsThroughput(old, new, q)
    BY Zenon
  <2> HIDE DEF kept
  <2> QED
    BY <2>1 DEF Holds, FormatKeepsThroughput
<1> HIDE DEF kept
<1> QED
  BY <1>1, <1>2, <1>3, <1>4 DEF Failed, FormatControls

AllControls == ReadyControls \cup QualityControls \cup FormatControls

(* A control looks at one field of the candidate.                            *)
LEMMA ControlsLookAtTheirField ==
  ASSUME NEW control \in AllControls, NEW old, NEW a, NEW b, NEW q,
         a[FieldOf(control)] = b[FieldOf(control)]
  PROVE  Holds(control, old, a, q) <=> Holds(control, old, b, q)
<1> USE DEF FieldOf
<1>1. CASE control = "warmup"
  BY <1>1 DEF Holds
<1>2. CASE control = "sample"
  BY <1>2 DEF Holds
<1>3. CASE control = "hardware"
  BY <1>3 DEF Holds
<1>4. CASE control = "quality_floor"
  BY <1>4 DEF Holds
<1>5. CASE control = "quality_drop"
  BY <1>5 DEF Holds
<1>6. CASE control = "ttft"
  BY <1>6 DEF Holds
<1>7. CASE control = "tpot"
  BY <1>7 DEF Holds
<1>8. CASE control = "errors"
  BY <1>8 DEF Holds
<1>9. CASE control = "memory"
  BY <1>9 DEF Holds
<1>10. CASE control = "throughput"
  BY <1>10 DEF Holds
<1> QED
  BY <1>1, <1>2, <1>3, <1>4, <1>5, <1>6, <1>7, <1>8, <1>9, <1>10
     DEF AllControls, ReadyControls, QualityControls, FormatControls

LEMMA ControlFields ==
  /\ \A control \in ReadyControls \cup QualityControls : FieldOf(control) \in ReleaseFields
  /\ \A control \in FormatControls : FieldOf(control) \in FormatFields
  /\ \A c \in ReadyControls, d \in QualityControls : FieldOf(c) # FieldOf(d)
BY DEF ReadyControls, QualityControls, FormatControls, FieldOf, ReleaseFields, FormatFields

(* The evidence with some fields put right. *)
Mixed(fields) ==
  [field \in DOMAIN asked.evidence |->
     IF field \in fields THEN Ideal[asked.gate][field] ELSE asked.evidence[field]]

LEMMA RepairedIsAnswer ==
  ASSUME QuestionOK, NEW fields
  PROVE  Repaired(fields) = Answer([gate |-> asked.gate, evidence |-> Mixed(fields),
                                    required |-> asked.required])
<1>1. asked = [gate |-> asked.gate, evidence |-> asked.evidence, required |-> asked.required]
  BY DEF QuestionOK
<1>2. [asked EXCEPT !.evidence = Mixed(fields)]
        = [gate |-> asked.gate, evidence |-> Mixed(fields), required |-> asked.required]
  BY <1>1
<1>3. Repaired(fields) = Answer([asked EXCEPT !.evidence = Mixed(fields)])
  BY DEF Repaired, Mixed
<1> QED
  BY <1>2, <1>3

(* A control that fails fails until its field is put right.                  *)
LEMMA MixedFails ==
  ASSUME NEW fields, NEW old, NEW q, NEW controls \in SUBSET AllControls,
         \A c \in controls : FieldOf(c) \in DOMAIN asked.evidence,
         \A c \in controls : Holds(c, old, Ideal[asked.gate], q)
  PROVE  Failed(controls, old, Mixed(fields), q)
           = {c \in Failed(controls, old, asked.evidence, q) : FieldOf(c) \notin fields}
<1>1. ASSUME NEW c \in controls
      PROVE  Holds(c, old, Mixed(fields), q)
               <=> (FieldOf(c) \in fields \/ Holds(c, old, asked.evidence, q))
  <2>1. CASE FieldOf(c) \in fields
    <3>1. Mixed(fields)[FieldOf(c)] = Ideal[asked.gate][FieldOf(c)]
      BY <2>1 DEF Mixed
    <3> QED
      BY <2>1, <3>1, ControlsLookAtTheirField
  <2>2. CASE FieldOf(c) \notin fields
    <3>1. Mixed(fields)[FieldOf(c)] = asked.evidence[FieldOf(c)]
      BY <2>2 DEF Mixed
    <3> QED
      BY <2>2, <3>1, ControlsLookAtTheirField
  <2> QED
    BY <2>1, <2>2
<1> QED
  BY <1>1 DEF Failed

(* Against the release that runs, nothing can be said against the ideal.     *)
LEMMA IdealRelease ==
  ASSUME QuestionOK, BaselineOK, asked.gate = "rollout",
         NEW c \in ReadyControls \cup QualityControls
  PROVE  Holds(c, baseline, Ideal[asked.gate], asked.required)
<1> DEFINE ideal == Ideal["rollout"]
           q == asked.required
           old == [quality_score |-> baseline.quality_score,
                   output_tokens_per_second |-> baseline.output_tokens_per_second]
<1>1. q \in Required["rollout"] /\ "rollout" \in GateNames
  BY DEF QuestionOK
<1>2. old \in Comparable
  <2>1. "quality_score" \in ReleaseFields /\ "output_tokens_per_second" \in ReleaseFields
    BY DEF ReleaseFields
  <2>2. /\ baseline.quality_score
             \in {FirstRelease.quality_score} \cup Possible("rollout", "quality_score")
        /\ baseline.output_tokens_per_second
             \in {FirstRelease.output_tokens_per_second}
                   \cup Possible("rollout", "output_tokens_per_second")
    BY <2>1 DEF BaselineOK
  <2> QED
    BY <2>2 DEF Comparable
<1>3. /\ old.quality_score = baseline.quality_score
      /\ old.output_tokens_per_second = baseline.output_tokens_per_second
  OBVIOUS
<1>4. /\ ideal.warmed
      /\ ideal.sample_count >= q.min_sample_count
      /\ ideal.quality_score >= q.min_quality_score
      /\ ideal.p95_ttft_seconds <= q.max_p95_ttft_seconds
      /\ ideal.p95_tpot_seconds <= q.max_p95_tpot_seconds
      /\ ideal.error_rate <= q.max_error_rate
      /\ old.quality_score - ideal.quality_score <= q.max_quality_drop
      /\ 100 * ideal.output_tokens_per_second
           >= q.min_relative_throughput * old.output_tokens_per_second
  <2> HIDE DEF old
  <2> QED
    BY <1>1, <1>2, IdealAssumption
<1> HIDE DEF ideal, q, old
<1>5. Holds(c, baseline, ideal, q)
  BY <1>3, <1>4 DEF Holds, ReadyControls, QualityControls
<1> QED
  BY <1>5 DEF ideal, q

LEMMA IdealFormat ==
  ASSUME QuestionOK, asked.gate = "quantization", NEW c \in FormatControls
  PROVE  Holds(c, FormatBaseline, Ideal[asked.gate], asked.required)
<1> DEFINE ideal == Ideal["quantization"]
           q == asked.required
<1>1. q \in Required["quantization"] /\ "quantization" \in GateNames
  BY DEF QuestionOK
<1>2. /\ ideal.hardware_supported
      /\ ideal.quality_score >= q.min_quality_score
      /\ FormatBaseline.quality_score - ideal.quality_score <= q.max_quality_drop
      /\ ideal.weight_memory_gib <= q.max_weight_memory_gib
      /\ ideal.p95_ttft_seconds <= q.max_p95_ttft_seconds
      /\ 100 * ideal.output_tokens_per_second
           >= q.min_relative_throughput * FormatBaseline.output_tokens_per_second
  BY <1>1, IdealAssumption
<1> HIDE DEF ideal, q
<1>3. Holds(c, FormatBaseline, ideal, q)
  BY <1>2 DEF Holds, FormatControls
<1> QED
  BY <1>3 DEF ideal, q

(* A question with some fields put right is still one the gate answers.      *)
LEMMA MixedReleaseIsValid ==
  ASSUME QuestionOK, asked.gate = "rollout", NEW fields,
         ReleaseValid(baseline, asked.evidence, asked.required)
  PROVE  ReleaseValid(baseline, Mixed(fields), asked.required)
<1>1. "rollout" \in GateNames /\ ReleaseMeasured(Ideal["rollout"])
  BY IdealAssumption DEF QuestionOK
<1>2. ReleaseMeasured(asked.evidence)
  BY DEF ReleaseValid
<1>3. \A field \in ReleaseFields :
        Mixed(fields)[field] \in {Ideal["rollout"][field], asked.evidence[field]}
  BY ReleaseTypes DEF Mixed
<1>4. ReleaseMeasured(Mixed(fields))
  BY <1>1, <1>2, <1>3 DEF ReleaseMeasured, ReleaseFields
<1> QED
  BY <1>4 DEF ReleaseValid

LEMMA MixedFormatIsValid ==
  ASSUME QuestionOK, asked.gate = "quantization", NEW fields,
         FormatValid(FormatBaseline, asked.evidence, asked.required)
  PROVE  FormatValid(FormatBaseline, Mixed(fields), asked.required)
<1>1. "quantization" \in GateNames /\ FormatMeasured(Ideal["quantization"])
  BY IdealAssumption DEF QuestionOK
<1>2. FormatMeasured(asked.evidence)
  BY DEF FormatValid
<1>3. \A field \in FormatFields :
        Mixed(fields)[field] \in {Ideal["quantization"][field], asked.evidence[field]}
  <2>1. Fields[asked.gate] = FormatFields
    BY DEF Fields
  <2>2. \A field \in FormatFields : field \in DOMAIN asked.evidence
    BY <2>1, EvidenceTypes
  <2> QED
    BY <2>2 DEF Mixed
<1>4. FormatMeasured(Mixed(fields))
  BY <1>1, <1>2, <1>3 DEF FormatMeasured, FormatFields
<1> QED
  BY <1>4 DEF FormatValid

LEMMA RepairedRelease ==
  ASSUME QuestionOK, BaselineOK, asked.gate = "rollout", NEW fields,
         ReleaseValid(baseline, asked.evidence, asked.required)
  PROVE  /\ Repaired(fields) = EvaluateRollout(baseline, Mixed(fields), asked.required)
         /\ Unready(Mixed(fields), asked.required)
              = {c \in Unready(asked.evidence, asked.required) : FieldOf(c) \notin fields}
         /\ Regressions(baseline, Mixed(fields), asked.required)
              = {c \in Regressions(baseline, asked.evidence, asked.required) :
                   FieldOf(c) \notin fields}
<1> DEFINE q == asked.required
           question == [gate |-> asked.gate, evidence |-> Mixed(fields), required |-> q]
<1>1. Repaired(fields) = EvaluateRollout(baseline, Mixed(fields), q)
  <2>1. Repaired(fields) = Answer(question)
    BY RepairedIsAnswer
  <2>2. question.gate = "rollout" /\ question.evidence = Mixed(fields) /\ question.required = q
    OBVIOUS
  <2>3. ReleaseValid(baseline, Mixed(fields), q)
    BY MixedReleaseIsValid
  <2> HIDE DEF question, q
  <2>4. Answer(question) = ReleaseGate(question)
    BY <2>2 DEF Answer
  <2> QED
    BY <2>1, <2>2, <2>3, <2>4 DEF ReleaseGate
<1>2. \A c \in ReadyControls \cup QualityControls :
        /\ FieldOf(c) \in DOMAIN asked.evidence
        /\ Holds(c, baseline, Ideal[asked.gate], q)
  BY ControlFields, ReleaseTypes, IdealRelease
<1>3. Failed(ReadyControls, baseline, Mixed(fields), q)
        = {c \in Failed(ReadyControls, baseline, asked.evidence, q) : FieldOf(c) \notin fields}
  <2>1. ReadyControls \in SUBSET AllControls
    BY DEF AllControls
  <2> QED
    BY <1>2, <2>1, MixedFails
<1>4. Failed(QualityControls, baseline, Mixed(fields), q)
        = {c \in Failed(QualityControls, baseline, asked.evidence, q) : FieldOf(c) \notin fields}
  <2>1. QualityControls \in SUBSET AllControls
    BY DEF AllControls
  <2> QED
    BY <1>2, <2>1, MixedFails
<1> QED
  BY <1>1, <1>3, <1>4, FailedReleaseControls

LEMMA RepairedFormat ==
  ASSUME QuestionOK, asked.gate = "quantization", NEW fields,
         FormatValid(FormatBaseline, asked.evidence, asked.required)
  PROVE  /\ Repaired(fields) = EvaluateQuantization(FormatBaseline, Mixed(fields), asked.required)
         /\ Rejections(FormatBaseline, Mixed(fields), asked.required)
              = {c \in Rejections(FormatBaseline, asked.evidence, asked.required) :
                   FieldOf(c) \notin fields}
<1> DEFINE q == asked.required
           question == [gate |-> asked.gate, evidence |-> Mixed(fields), required |-> q]
<1>1. Repaired(fields) = EvaluateQuantization(FormatBaseline, Mixed(fields), q)
  <2>1. Repaired(fields) = Answer(question)
    BY RepairedIsAnswer
  <2>2. question.gate = "quantization" /\ question.evidence = Mixed(fields)
        /\ question.required = q
    OBVIOUS
  <2>3. FormatValid(FormatBaseline, Mixed(fields), q)
    BY MixedFormatIsValid
  <2> HIDE DEF question, q
  <2>4. Answer(question) = FormatGate(question)
    BY <2>2 DEF Answer
  <2> QED
    BY <2>1, <2>2, <2>3, <2>4 DEF FormatGate
<1>2. \A c \in FormatControls :
        /\ FieldOf(c) \in DOMAIN asked.evidence
        /\ Holds(c, FormatBaseline, Ideal[asked.gate], q)
  <2>1. Fields[asked.gate] = FormatFields
    BY DEF Fields
  <2>2. \A field \in FormatFields : field \in DOMAIN asked.evidence
    BY <2>1, EvidenceTypes
  <2> QED
    BY <2>2, ControlFields, IdealFormat
<1>3. Failed(FormatControls, FormatBaseline, Mixed(fields), q)
        = {c \in Failed(FormatControls, FormatBaseline, asked.evidence, q) :
             FieldOf(c) \notin fields}
  <2>1. FormatControls \in SUBSET AllControls
    BY DEF AllControls
  <2> QED
    BY <1>2, <2>1, MixedFails
<1> QED
  BY <1>1, <1>3, FailedFormatControls

(* The controls a refusal names are the whole reason for it, for every       *)
(* requirement and against every release that may come to run                *)
(* (rollouts.py:66, quantization.py:58): none is left unsaid, and none is    *)
(* named that did not fail.                                                  *)
THEOREM NamedControlsAreTheReason == Spec => []NamedControlsDecide
<1>1. IInv => NamedControlsDecide
  <2> SUFFICES ASSUME IInv, Answered, asked.gate \in {"rollout", "quantization"},
                      answer.deciding_controls # {}
               PROVE  LET fields == {FieldOf(c) : c \in answer.deciding_controls}
                          after == Repaired(fields)
                      IN  /\ after.action = answer.action => after.deciding_controls = {}
                          /\ \A field \in fields :
                               Repaired(DOMAIN asked.evidence \ {field}).deciding_controls # {}
    BY DEF NamedControlsDecide
  <2> DEFINE q == asked.required
             e == asked.evidence
             fields == {FieldOf(c) : c \in answer.deciding_controls}
             after == Repaired(fields)
             D == DOMAIN asked.evidence
  <2>1. answer = Answer(asked) /\ answer # Raised /\ QuestionOK /\ BaselineOK
    BY DEF Answered, IInv
  <2>2. /\ after.action = answer.action => after.deciding_controls = {}
        /\ \A field \in fields : Repaired(D \ {field}).deciding_controls # {}
    <3>1. CASE asked.gate = "rollout"
      <4>1. ReleaseValid(baseline, e, q) /\ answer = EvaluateRollout(baseline, e, q)
        BY <2>1, <3>1 DEF Answer, ReleaseGate
      <4>2. \A x : /\ Repaired(x) = EvaluateRollout(baseline, Mixed(x), q)
                   /\ Unready(Mixed(x), q) = {c \in Unready(e, q) : FieldOf(c) \notin x}
                   /\ Regressions(baseline, Mixed(x), q)
                        = {c \in Regressions(baseline, e, q) : FieldOf(c) \notin x}
        BY <2>1, <3>1, <4>1, RepairedRelease
      <4> HIDE DEF q, e, D
      <4>3. ASSUME NEW new
            PROVE  LET given == EvaluateRollout(baseline, new, q)
                   IN  /\ Unready(new, q) # {} =>
                            given.deciding_controls = Unready(new, q) /\ given.action = "hold"
                       /\ Unready(new, q) = {} =>
                            given.deciding_controls = Regressions(baseline, new, q)
                       /\ Unready(new, q) = {} /\ Regressions(baseline, new, q) # {} =>
                            given.action = "rollback"
        BY DEF EvaluateRollout, Decision
      <4>4. after.action = answer.action => after.deciding_controls = {}
        <5>1. CASE Unready(e, q) # {}
          <6>1. answer.deciding_controls = Unready(e, q) /\ answer.action = "hold"
            BY <4>1, <4>3, <5>1
          <6>2. Unready(Mixed(fields), q) = {}
            BY <4>2, <6>1
          <6>3. after = EvaluateRollout(baseline, Mixed(fields), q)
            BY <4>2
          <6> HIDE DEF fields, after
          <6> QED
            BY <4>3, <6>1, <6>2, <6>3
        <5>2. CASE Unready(e, q) = {}
          <6>1. answer.deciding_controls = Regressions(baseline, e, q)
            BY <4>1, <4>3, <5>2
          <6>2. Unready(Mixed(fields), q) = {} /\ Regressions(baseline, Mixed(fields), q) = {}
            BY <4>2, <5>2, <6>1
          <6>3. after = EvaluateRollout(baseline, Mixed(fields), q)
            BY <4>2
          <6> HIDE DEF fields, after
          <6> QED
            BY <4>3, <6>2, <6>3
        <5> QED
          BY <5>1, <5>2
      <4>5. ASSUME NEW field \in fields
            PROVE  Repaired(D \ {field}).deciding_controls # {}
        <5> DEFINE others == D \ {field}
        <5>1. PICK c \in answer.deciding_controls : FieldOf(c) = field
          OBVIOUS
        <5>2. FieldOf(c) \notin others
          BY <5>1
        <5>3. c \in Unready(e, q) \/ c \in Regressions(baseline, e, q)
          BY <4>1, <4>3
        <5> HIDE DEF others
        <5>4. Unready(Mixed(others), q) # {} \/ Regressions(baseline, Mixed(others), q) # {}
          BY <4>2, <5>2, <5>3
        <5>5. Repaired(others).deciding_controls # {}
          BY <4>2, <4>3, <5>4
        <5> QED
          BY <5>5 DEF others
      <4> HIDE DEF after, fields
      <4> QED
        BY <4>4, <4>5
    <3>2. CASE asked.gate = "quantization"
      <4>1. FormatValid(FormatBaseline, e, q) /\ answer = EvaluateQuantization(FormatBaseline, e, q)
        BY <2>1, <3>2 DEF Answer, FormatGate
      <4>2. \A x : /\ Repaired(x) = EvaluateQuantization(FormatBaseline, Mixed(x), q)
                   /\ Rejections(FormatBaseline, Mixed(x), q)
                        = {c \in Rejections(FormatBaseline, e, q) : FieldOf(c) \notin x}
        BY <2>1, <3>2, <4>1, RepairedFormat
      <4> HIDE DEF q, e, D
      <4>3. \A new : EvaluateQuantization(FormatBaseline, new, q).deciding_controls
                       = Rejections(FormatBaseline, new, q)
        BY DEF EvaluateQuantization
      <4>4. answer.deciding_controls = Rejections(FormatBaseline, e, q)
        BY <4>1, <4>3
      <4>5. after.deciding_controls = {}
        <5>1. Rejections(FormatBaseline, Mixed(fields), q) = {}
          BY <4>2, <4>4
        <5>2. after = EvaluateQuantization(FormatBaseline, Mixed(fields), q)
          BY <4>2
        <5> HIDE DEF fields, after
        <5> QED
          BY <4>3, <5>1, <5>2
      <4>6. ASSUME NEW field \in fields
            PROVE  Repaired(D \ {field}).deciding_controls # {}
        <5> DEFINE others == D \ {field}
        <5>1. PICK c \in answer.deciding_controls : FieldOf(c) = field
          OBVIOUS
        <5>2. FieldOf(c) \notin others
          BY <5>1
        <5> HIDE DEF others
        <5>3. Rejections(FormatBaseline, Mixed(others), q) # {}
          BY <4>2, <4>4, <5>2
        <5>4. Repaired(others).deciding_controls # {}
          BY <4>2, <4>3, <5>3
        <5> QED
          BY <5>4 DEF others
      <4> HIDE DEF after, fields
      <4> QED
        BY <4>5, <4>6
    <3> QED
      BY <3>1, <3>2
  <2> HIDE DEF after
  <2> QED
    BY <2>2 DEF after
<1> QED
  BY <1>1, Invariance, PTL

-----------------------------------------------------------------------------
(* No gate passes what is measured worse than something it refuses. *)

IsFormat(m) == \A field \in FormatFields : m[field] \in FieldValues(field)

EvidenceOK ==
  /\ asked.gate \in {"rollout", "quantization", "speculation"} =>
       \A field \in Fields[asked.gate] : /\ field \in DOMAIN asked.evidence
                                         /\ asked.evidence[field] \in FieldValues(field)
  /\ asked.gate = "service" => Traces(asked.evidence) \in Seq(Trace)

LEMMA EvidenceIsTyped == QuestionOK => EvidenceOK
BY EvidenceTypes, TracesType DEF EvidenceOK

(* A format that is staged is staged when it measures no worse.              *)
LEMMA FormatGateIsMonotone ==
  ASSUME NEW old, NEW e, NEW f, NEW q, IsFormat(e), IsFormat(f),
         old.quality_score \in Int, old.output_tokens_per_second \in Int,
         FormatFields \subseteq DOMAIN e,
         \A field \in RequiredFields["quantization"] : q[field] \in Int,
         WorseMeasured(e, f), EvaluateQuantization(old, e, q).action = "stage"
  PROVE  EvaluateQuantization(old, f, q).action = "stage"
<1>1. \A m : EvaluateQuantization(old, m, q).action = "stage"
               <=> \A c \in FormatControls : Holds(c, old, m, q)
  <2>1. \A m : EvaluateQuantization(old, m, q).action = "stage" <=> Rejections(old, m, q) = {}
    BY DEF EvaluateQuantization
  <2> QED
    BY <2>1, FailedFormatControls DEF Failed
<1>2. \A m : IsFormat(m) =>
        /\ m.quality_score \in Int /\ m.weight_memory_gib \in Int
        /\ m.p95_ttft_seconds \in Int /\ m.output_tokens_per_second \in Int
  BY DEF IsFormat, FormatFields, FieldValues
<1>3. /\ q.min_quality_score \in Int /\ q.max_quality_drop \in Int
      /\ q.max_weight_memory_gib \in Int /\ q.max_p95_ttft_seconds \in Int
      /\ q.min_relative_throughput \in Int
  BY DEF RequiredFields
<1>4. /\ e.hardware_supported => f.hardware_supported
      /\ e.quality_score <= f.quality_score
      /\ e.output_tokens_per_second <= f.output_tokens_per_second
      /\ e.weight_memory_gib >= f.weight_memory_gib
      /\ e.p95_ttft_seconds >= f.p95_ttft_seconds
  BY DEF WorseMeasured, NoBetterValue, FormatFields
<1>5. ASSUME NEW c \in FormatControls, Holds(c, old, e, q)
      PROVE  Holds(c, old, f, q)
  <2>1. CASE c = "hardware"
    BY <1>4, <1>5, <2>1 DEF Holds
  <2>2. CASE c = "quality_floor"
    BY <1>2, <1>3, <1>4, <1>5, <2>2 DEF Holds
  <2>3. CASE c = "quality_drop"
    BY <1>2, <1>3, <1>4, <1>5, <2>3 DEF Holds
  <2>4. CASE c = "memory"
    BY <1>2, <1>3, <1>4, <1>5, <2>4 DEF Holds
  <2>5. CASE c = "ttft"
    BY <1>2, <1>3, <1>4, <1>5, <2>5 DEF Holds
  <2>6. CASE c = "throughput"
    <3> DEFINE least == q.min_relative_throughput * old.output_tokens_per_second
    <3>1. least \in Int /\ 100 * e.output_tokens_per_second >= least
      BY <1>3, <1>5, <2>6 DEF Holds
    <3> HIDE DEF least
    <3>2. 100 * f.output_tokens_per_second >= least
      BY <1>2, <1>4, <3>1
    <3> QED
      BY <2>6, <3>2 DEF Holds, least
  <2> QED
    BY <2>1, <2>2, <2>3, <2>4, <2>5, <2>6 DEF FormatControls
<1> QED
  BY <1>1, <1>5

LEMMA IsRound ==
  ASSUME NEW e, \A field \in RoundFields : e[field] \in FieldValues(field)
  PROVE  /\ e.draft \in Seq(Int) /\ e.target \in Seq(Int) /\ e.baseline_seconds \in Int
         /\ e.draft_seconds \in Int /\ e.verification_seconds \in Int
         /\ e.minimum_speedup \in Int
BY DEF RoundFields, FieldValues

(* A draft that agrees with the target for longer has more accepted.         *)
LEMMA MoreIsAccepted ==
  ASSUME NEW d \in Seq(Int), NEW c \in Seq(Int), NEW target \in Seq(Int),
         Len(c) = Len(d), Len(target) > Len(d),
         \A k \in DOMAIN d : SubSeq(d, 1, k) = SubSeq(target, 1, k)
                               => SubSeq(c, 1, k) = SubSeq(target, 1, k)
  PROVE  Accepted(d, target) <= Accepted(c, target)
<1> DEFINE n == Accepted(d, target)
           m == Accepted(c, target)
<1>1. /\ n \in 0..Len(d) /\ \A i \in 1..n : d[i] = target[i]
  BY AcceptedIsTheAgreement
<1>2. /\ m \in 0..Len(c)
      /\ m < Len(c) => c[m + 1] # target[m + 1]
  BY AcceptedIsTheAgreement
<1> HIDE DEF n, m
<1>3. Len(d) \in Nat /\ Len(target) \in Nat /\ DOMAIN d = 1..Len(d)
  OBVIOUS
<1>4. CASE n = 0
  BY <1>2, <1>3, <1>4 DEF n, m
<1>5. CASE n # 0
  <2>1. n \in DOMAIN d
    BY <1>1, <1>3, <1>5
  <2>2. SubSeq(d, 1, n) = SubSeq(target, 1, n)
    <3>1. /\ SubSeq(d, 1, n) = [i \in 1..n |-> d[i]]
          /\ SubSeq(target, 1, n) = [i \in 1..n |-> target[i]]
      BY <1>1, <1>3
    <3> QED
      BY <1>1, <3>1
  <2>3. SubSeq(c, 1, n) = SubSeq(target, 1, n)
    BY <2>1, <2>2
  <2>4. \A i \in 1..n : c[i] = target[i]
    <3>1. \A i \in 1..n : SubSeq(c, 1, n)[i] = c[i] /\ SubSeq(target, 1, n)[i] = target[i]
      BY <1>1, <1>3
    <3> QED
      BY <2>3, <3>1
  <2>5. ~(m < n)
    <3> SUFFICES ASSUME m < n PROVE FALSE
      OBVIOUS
    <3>1. m < Len(c) /\ m + 1 \in 1..n
      BY <1>1, <1>2, <1>3
    <3> QED
      BY <1>2, <2>4, <3>1
  <2> QED
    BY <1>1, <1>2, <1>3, <2>5 DEF n, m
<1> QED
  BY <1>4, <1>5

LEMMA ProductsGrow ==
  ASSUME NEW a \in Nat, NEW b \in Nat, NEW c \in Nat, NEW d \in Nat, a <= b, c <= d
  PROVE  a * c <= b * d
<1>1. a * c <= b * c
  OBVIOUS
<1>2. b * c <= b * d
  OBVIOUS
<1>3. a * c \in Int /\ b * c \in Int /\ b * d \in Int
  OBVIOUS
<1> QED
  BY <1>1, <1>2, <1>3

(* A round that is worth its cost is worth a lower one.                      *)
LEMMA SpeculationGateIsMonotone ==
  ASSUME NEW e, NEW f,
         \A field \in RoundFields : e[field] \in FieldValues(field),
         \A field \in RoundFields : f[field] \in FieldValues(field),
         RoundValid(e), RoundValid(f), CostlierRound(e, f), EvaluateSpeculation(e).enable
  PROVE  EvaluateSpeculation(f).enable
<1> DEFINE n == Accepted(e.draft, e.target) + 1
           m == Accepted(f.draft, f.target) + 1
           spent(r) == Len(r.draft) * r.draft_seconds + r.verification_seconds
<1>1. /\ e.draft \in Seq(Int) /\ f.draft \in Seq(Int) /\ e.target \in Seq(Int)
      /\ f.target = e.target /\ Len(f.draft) = Len(e.draft) /\ Len(e.target) > Len(e.draft)
  BY IsRound DEF CostlierRound, RoundValid
<1>2. /\ e.baseline_seconds \in Nat /\ f.baseline_seconds \in Nat
      /\ e.draft_seconds \in Nat /\ f.draft_seconds \in Nat
      /\ e.verification_seconds \in Nat /\ f.verification_seconds \in Nat
      /\ e.minimum_speedup \in Nat /\ f.minimum_speedup \in Nat
  <2>1. \A r : RoundValid(r) => /\ r.baseline_seconds > 0 /\ r.draft_seconds > 0
                                /\ r.verification_seconds > 0 /\ r.minimum_speedup > 0
    BY DEF RoundValid
  <2>2. /\ e.baseline_seconds \in Int /\ f.baseline_seconds \in Int
        /\ e.draft_seconds \in Int /\ f.draft_seconds \in Int
        /\ e.verification_seconds \in Int /\ f.verification_seconds \in Int
        /\ e.minimum_speedup \in Int /\ f.minimum_speedup \in Int
    BY IsRound
  <2> QED
    BY <2>1, <2>2
<1>3. n \in Nat /\ m \in Nat /\ n <= m
  <2>1. Accepted(e.draft, e.target) <= Accepted(f.draft, f.target)
    BY <1>1, MoreIsAccepted DEF CostlierRound, Agrees
  <2>2. /\ Accepted(e.draft, e.target) \in 0..Len(e.draft)
        /\ Accepted(f.draft, f.target) \in 0..Len(f.draft)
    BY <1>1, AcceptedIsTheAgreement
  <2>3. Len(e.draft) \in Nat /\ Len(f.draft) \in Nat
    BY <1>1
  <2> QED
    BY <2>1, <2>2, <2>3
<1>4. spent(e) \in Nat /\ spent(f) \in Nat /\ spent(f) <= spent(e)
  <2> DEFINE L == Len(e.draft)
             a == L * f.draft_seconds
             b == L * e.draft_seconds
  <2>1. L \in Nat
    BY <1>1
  <2>2. f.draft_seconds <= e.draft_seconds /\ f.verification_seconds <= e.verification_seconds
    BY <1>2 DEF CostlierRound
  <2> HIDE DEF L
  <2>3. a \in Nat /\ b \in Nat /\ a <= b
    BY <1>2, <2>1, <2>2, ProductsGrow
  <2>4. spent(e) = b + e.verification_seconds /\ spent(f) = a + f.verification_seconds
    BY <1>1 DEF L
  <2> HIDE DEF a, b, spent
  <2> QED
    BY <1>2, <2>2, <2>3, <2>4
<1>5. \A r : EvaluateSpeculation(r).enable
               <=> 100 * ((Accepted(r.draft, r.target) + 1) * r.baseline_seconds)
                     >= r.minimum_speedup * spent(r)
  BY Zenon DEF EvaluateSpeculation
<1>6. 100 * (n * e.baseline_seconds) >= e.minimum_speedup * spent(e)
  BY <1>5, Zenon
<1> DEFINE ge == n * e.baseline_seconds
           gf == m * f.baseline_seconds
           ce == e.minimum_speedup * spent(e)
           cf == f.minimum_speedup * spent(f)
<1>7. ge \in Nat /\ gf \in Nat /\ ge <= gf
  <2>1. e.baseline_seconds <= f.baseline_seconds
    BY DEF CostlierRound
  <2> HIDE DEF n, m
  <2> QED
    BY <1>2, <1>3, <2>1, ProductsGrow
<1>8. ce \in Nat /\ cf \in Nat /\ cf <= ce
  <2>1. f.minimum_speedup <= e.minimum_speedup
    BY <1>2 DEF CostlierRound
  <2> HIDE DEF spent
  <2> QED
    BY <1>2, <1>4, <2>1, ProductsGrow
<1>9. 100 * gf >= cf
  <2>1. 100 * ge >= ce
    BY <1>6
  <2> HIDE DEF ge, gf, ce, cf
  <2> QED
    BY <1>7, <1>8, <2>1
<1> QED
  BY <1>5, <1>9, Zenon

(* A sample whose every value is larger has a larger tail.                   *)
LEMMA TailGrows ==
  ASSUME NEW n \in Nat \ {0}, NEW s \in [1..n -> Int], NEW t \in [1..n -> Int],
         \A i \in 1..n : t[i] <= s[i]
  PROVE  NearestRank(t) <= NearestRank(s)
<1> DEFINE high == NearestRank(s)
           low  == NearestRank(t)
<1>1. /\ high \in Int /\ low \in Int /\ IsP95(high, s) /\ IsP95(low, t)
  BY NearestRankIsP95
<1> HIDE DEF high, low
<1>2. SUFFICES ASSUME high < low PROVE FALSE
  BY <1>1 DEF high, low
<1> DEFINE A == {i \in 1..n : s[i] <= high}
           B == {i \in 1..n : t[i] < low}
<1>3. /\ DOMAIN s = 1..n /\ DOMAIN t = 1..n /\ Len(s) = n /\ Len(t) = n
  OBVIOUS
<1>4. A \in SUBSET B /\ B \in SUBSET (1..n)
  <2>1. \A i \in 1..n : s[i] \in Int /\ t[i] \in Int
    OBVIOUS
  <2> QED
    BY <1>1, <1>2, <2>1
<1>5. 100 * Cardinality(A) >= 95 * n /\ 100 * Cardinality(B) < 95 * n
  BY <1>1, <1>3 DEF IsP95
<1> HIDE DEF A, B
<1>6. /\ Cardinality(A) \in Nat /\ Cardinality(B) \in Nat /\ Cardinality(A) <= Cardinality(B)
  <2>1. IsFiniteSet(1..n)
    BY FS_Interval
  <2>2. IsFiniteSet(B)
    BY <1>4, <2>1, FS_Subset
  <2>3. IsFiniteSet(A) /\ Cardinality(A) <= Cardinality(B)
    BY <1>4, <2>2, FS_Subset
  <2> QED
    BY <2>2, <2>3, FS_CardinalityType
<1> QED
  BY <1>5, <1>6

LEMMA WindowGrows ==
  ASSUME NEW s \in Seq(Trace), NEW t \in Seq(Trace), t # <<>>, SlowerTraces(s, t)
  PROVE  Window(t) \in Int /\ Window(s) \in Int /\ Window(t) <= Window(s)
<1> DEFINE n == Len(s)
           ends(x) == [i \in 1..n |-> x[i].completed_at]
           starts(x) == [i \in 1..n |-> x[i].arrived_at]
           Ends(x) == {x[i].completed_at : i \in 1..n}
           Starts(x) == {x[i].arrived_at : i \in 1..n}
<1>1. /\ n \in Nat \ {0} /\ DOMAIN s = 1..n /\ DOMAIN t = 1..n
      /\ \A i \in 1..n : s[i] \in Trace /\ t[i] \in Trace
  BY DEF SlowerTraces
<1>2. \A i \in 1..n : /\ s[i].arrived_at \in Int /\ s[i].completed_at \in Int
                      /\ t[i].arrived_at \in Int /\ t[i].completed_at \in Int
  BY <1>1 DEF Trace
<1>3. \A i \in 1..n : s[i].arrived_at = t[i].arrived_at /\ t[i].completed_at <= s[i].completed_at
  <2> SUFFICES ASSUME NEW i \in 1..n
               PROVE  s[i].arrived_at = t[i].arrived_at /\ t[i].completed_at <= s[i].completed_at
    OBVIOUS
  <2>1. /\ s[i].first_token_at \in Int /\ t[i].first_token_at \in Int
    BY <1>1 DEF Trace
  <2>2. /\ s[i].arrived_at = t[i].arrived_at /\ s[i].first_token_at >= t[i].first_token_at
        /\ s[i].completed_at - s[i].first_token_at >= t[i].completed_at - t[i].first_token_at
    BY <1>1 DEF SlowerTraces
  <2> QED
    BY <1>2, <2>1, <2>2
<1>4. ASSUME NEW x \in {s, t}
      PROVE  /\ Window(x) = Max(Ends(x)) - Min(Starts(x))
             /\ Max(Ends(x)) \in Ends(x) /\ \A e \in Ends(x) : e <= Max(Ends(x))
             /\ Min(Starts(x)) \in Starts(x)
             /\ Ends(x) \subseteq Int /\ Starts(x) \subseteq Int
  <2>1. DOMAIN x = 1..n
    BY <1>1
  <2>2. /\ {y.completed_at : y \in Range(x)} = Ends(x)
        /\ {y.arrived_at : y \in Range(x)} = Starts(x)
    BY <2>1 DEF Range
  <2>3. Window(x) = Max(Ends(x)) - Min(Starts(x))
    <3> HIDE DEF Ends, Starts
    <3> QED
      BY <2>2 DEF Window
  <2>4. IsFiniteSet(Ends(x)) /\ IsFiniteSet(Starts(x))
    <3>1. ends(x) \in Surjection(1..n, Ends(x)) /\ starts(x) \in Surjection(1..n, Starts(x))
      BY DEF Surjection
    <3>2. IsFiniteSet(1..n)
      BY <1>1, FS_Interval
    <3> HIDE DEF ends, starts, Ends, Starts, n
    <3> QED
      BY <3>1, <3>2, FS_Surjection
  <2>5. Ends(x) \in SUBSET Int /\ Starts(x) \in SUBSET Int
    BY <1>2
  <2>6. Ends(x) # {} /\ Starts(x) # {}
    BY <1>1
  <2> HIDE DEF Ends, Starts
  <2> QED
    BY <2>3, <2>4, <2>5, <2>6, FiniteMaxExists, FiniteMinExists
<1>5. Starts(s) = Starts(t)
  BY <1>3
<1>6. Max(Ends(t)) <= Max(Ends(s))
  <2>1. Max(Ends(t)) \in Ends(t)
    BY <1>4
  <2>2. PICK i \in 1..n : t[i].completed_at = Max(Ends(t))
    BY <2>1
  <2>3. s[i].completed_at \in Ends(s)
    OBVIOUS
  <2>4. s[i].completed_at <= Max(Ends(s)) /\ Max(Ends(s)) \in Int
    BY <1>4, <2>3
  <2> HIDE DEF Ends, n
  <2> QED
    BY <1>2, <1>3, <2>2, <2>4
<1>7. /\ Max(Ends(s)) \in Int /\ Max(Ends(t)) \in Int
      /\ Min(Starts(s)) \in Int /\ Min(Starts(t)) \in Int
      /\ Window(s) = Max(Ends(s)) - Min(Starts(s))
      /\ Window(t) = Max(Ends(t)) - Min(Starts(t))
  BY <1>4
<1> HIDE DEF Ends, Starts
<1> QED
  BY <1>5, <1>6, <1>7

LEMMA QuotientGrows ==
  ASSUME NEW a \in Int, NEW b \in Int, NEW g \in Nat \ {0}, a <= b
  PROVE  a \div g <= b \div g
<1> DEFINE q == a \div g
           r == b \div g
<1>1. q \in Int /\ r \in Int /\ g * q <= a /\ b < g * r + g
  OBVIOUS
<1> HIDE DEF q, r
<1>2. SUFFICES ASSUME r + 1 <= q PROVE FALSE
  BY <1>1 DEF q, r
<1>3. g * (r + 1) <= g * q
  BY <1>1, <1>2
<1>4. g * (r + 1) = g * r + g
  BY <1>1
<1>5. g * r \in Int /\ g * q \in Int
  BY <1>1
<1> QED
  BY <1>1, <1>3, <1>4, <1>5

(* Slower traces have larger metrics.                                        *)
LEMMA MetricsGrow ==
  ASSUME NEW x \in Trace, NEW y \in Trace, x.output_tokens > 0,
         x.arrived_at = y.arrived_at, x.output_tokens = y.output_tokens,
         x.first_token_at >= y.first_token_at,
         x.completed_at - x.first_token_at >= y.completed_at - y.first_token_at
  PROVE  Ttft(y) <= Ttft(x) /\ Tpot(y) <= Tpot(x) /\ E2e(y) <= E2e(x)
<1>1. /\ x.arrived_at \in Int /\ x.first_token_at \in Int /\ x.completed_at \in Int
      /\ y.arrived_at \in Int /\ y.first_token_at \in Int /\ y.completed_at \in Int
      /\ x.output_tokens \in Int
  BY DEF Trace
<1>2. Ttft(y) <= Ttft(x) /\ E2e(y) <= E2e(x)
  BY <1>1 DEF Ttft, E2e
<1>3. Tpot(y) <= Tpot(x)
  <2>1. CASE x.output_tokens = 1
    BY <2>1 DEF Tpot
  <2>2. CASE x.output_tokens # 1
    <3> DEFINE a == y.completed_at - y.first_token_at
               b == x.completed_at - x.first_token_at
               g == x.output_tokens - 1
    <3>1. a \in Int /\ b \in Int /\ a <= b /\ g \in Nat \ {0}
      BY <1>1, <2>2
    <3>2. Tpot(y) = a \div g /\ Tpot(x) = b \div g
      BY <2>2 DEF Tpot
    <3> HIDE DEF a, b, g
    <3> QED
      BY <3>1, <3>2, QuotientGrows
  <2> QED
    BY <2>1, <2>2
<1> QED
  BY <1>2, <1>3

(* What it takes to meet the objectives, and all it takes. *)
LEMMA MeetsIff ==
  ASSUME NEW traces, NEW objectives
  PROVE  EvaluateService(traces, objectives).meets_objectives <=>
           /\ P95(Ttft, traces) <= objectives.max_p95_ttft_seconds
           /\ P95(Tpot, traces) <= objectives.max_p95_tpot_seconds
           /\ P95(E2e, traces) <= objectives.max_p95_e2e_seconds
           /\ SumFunction([i \in DOMAIN traces |-> traces[i].output_tokens])
                >= objectives.min_output_tokens_per_second * Window(traces)
<1> DEFINE kept ==
        [ttft       |-> P95(Ttft, traces) <= objectives.max_p95_ttft_seconds,
         tpot       |-> P95(Tpot, traces) <= objectives.max_p95_tpot_seconds,
         e2e        |-> P95(E2e, traces) <= objectives.max_p95_e2e_seconds,
         throughput |-> SumFunction([i \in DOMAIN traces |-> traces[i].output_tokens])
                          >= objectives.min_output_tokens_per_second * Window(traces)]
<1>1. ServiceViolations(traces, objectives) = {v \in DOMAIN kept : ~kept[v]}
  BY DEF ServiceViolations
<1>2. DOMAIN kept = {"ttft", "tpot", "e2e", "throughput"}
  OBVIOUS
<1>3. /\ kept["ttft"] <=> P95(Ttft, traces) <= objectives.max_p95_ttft_seconds
      /\ kept["tpot"] <=> P95(Tpot, traces) <= objectives.max_p95_tpot_seconds
      /\ kept["e2e"] <=> P95(E2e, traces) <= objectives.max_p95_e2e_seconds
      /\ kept["throughput"]
           <=> SumFunction([i \in DOMAIN traces |-> traces[i].output_tokens])
                 >= objectives.min_output_tokens_per_second * Window(traces)
  BY Zenon
<1>4. EvaluateService(traces, objectives).meets_objectives
        <=> ServiceViolations(traces, objectives) = {}
  BY Zenon DEF EvaluateService
<1> HIDE DEF kept
<1>5. ServiceViolations(traces, objectives) = {}
        <=> kept["ttft"] /\ kept["tpot"] /\ kept["e2e"] /\ kept["throughput"]
  BY <1>1, <1>2
<1> QED
  BY <1>3, <1>4, <1>5, Zenon

(* A load whose traces meet the objectives meets them when it is faster.     *)
LEMMA ServiceGateIsMonotone ==
  ASSUME NEW s \in Seq(Trace), NEW t \in Seq(Trace), NEW q,
         TracesValid(s, q), TracesValid(t, q), SlowerTraces(s, t),
         RequiredFields["service"] \subseteq DOMAIN q,
         \A field \in RequiredFields["service"] : q[field] \in Int,
         EvaluateService(s, q).meets_objectives
  PROVE  EvaluateService(t, q).meets_objectives
<1> DEFINE n == Len(s)
           tokens(x) == SumFunction([i \in DOMAIN x |-> x[i].output_tokens])
<1>1. /\ n \in Nat \ {0} /\ Len(t) = n /\ DOMAIN s = 1..n /\ DOMAIN t = 1..n
      /\ \A i \in 1..n : s[i] \in Trace /\ t[i] \in Trace /\ s[i].output_tokens > 0
  <2>1. n \in Nat \ {0} /\ Len(t) = n /\ DOMAIN s = 1..n /\ DOMAIN t = 1..n
    BY MetricsType DEF SlowerTraces
  <2>2. \A i \in 1..n : s[i].output_tokens > 0
    BY <2>1 DEF TracesValid, Range
  <2> QED
    BY <2>1, <2>2
<1>2. \A i \in 1..n : /\ Ttft(t[i]) <= Ttft(s[i]) /\ Tpot(t[i]) <= Tpot(s[i])
                      /\ E2e(t[i]) <= E2e(s[i])
  <2> SUFFICES ASSUME NEW i \in 1..n
               PROVE  /\ Ttft(t[i]) <= Ttft(s[i]) /\ Tpot(t[i]) <= Tpot(s[i])
                      /\ E2e(t[i]) <= E2e(s[i])
    OBVIOUS
  <2>1. /\ s[i].arrived_at = t[i].arrived_at /\ s[i].output_tokens = t[i].output_tokens
        /\ s[i].first_token_at >= t[i].first_token_at
        /\ s[i].completed_at - s[i].first_token_at >= t[i].completed_at - t[i].first_token_at
    BY <1>1 DEF SlowerTraces
  <2> QED
    BY <1>1, <2>1, MetricsGrow
<1>3. /\ [i \in DOMAIN s |-> Ttft(s[i])] \in [1..n -> Int]
      /\ [i \in DOMAIN s |-> Tpot(s[i])] \in [1..n -> Int]
      /\ [i \in DOMAIN s |-> E2e(s[i])] \in [1..n -> Int]
  BY MetricsType
<1>4. /\ [i \in DOMAIN t |-> Ttft(t[i])] \in [1..n -> Int]
      /\ [i \in DOMAIN t |-> Tpot(t[i])] \in [1..n -> Int]
      /\ [i \in DOMAIN t |-> E2e(t[i])] \in [1..n -> Int]
  BY <1>1, MetricsType
<1>5. P95(Ttft, t) <= P95(Ttft, s) /\ P95(Ttft, t) \in Int /\ P95(Ttft, s) \in Int
  BY <1>1, <1>2, <1>3, <1>4, TailGrows, NearestRankIsP95 DEF P95
<1>6. P95(Tpot, t) <= P95(Tpot, s) /\ P95(Tpot, t) \in Int /\ P95(Tpot, s) \in Int
  BY <1>1, <1>2, <1>3, <1>4, TailGrows, NearestRankIsP95 DEF P95
<1>7. P95(E2e, t) <= P95(E2e, s) /\ P95(E2e, t) \in Int /\ P95(E2e, s) \in Int
  BY <1>1, <1>2, <1>3, <1>4, TailGrows, NearestRankIsP95 DEF P95
<1>8. tokens(s) = tokens(t)
  <2>1. \A i \in 1..n : s[i].output_tokens = t[i].output_tokens
    BY <1>1 DEF SlowerTraces
  <2>2. [i \in DOMAIN s |-> s[i].output_tokens] = [i \in DOMAIN t |-> t[i].output_tokens]
    BY <1>1, <2>1
  <2> QED
    BY <2>2
<1>9. tokens(s) \in Int
  <2> DEFINE fun == [i \in DOMAIN s |-> s[i].output_tokens]
  <2>1. DOMAIN fun = 1..n /\ \A i \in 1..n : fun[i] \in Int
    BY <1>1 DEF Trace
  <2>2. IsFiniteSet(1..n)
    BY <1>1, FS_Interval
  <2> HIDE DEF fun, n
  <2>3. SumFunctionOnSet(fun, 1..n) \in Int
    BY <2>1, <2>2, SumType
  <2>4. SumFunction(fun) \in Int
    BY <2>1, <2>3 DEF SumFunction
  <2> QED
    BY <2>4 DEF fun
<1>10. /\ q.max_p95_ttft_seconds \in Int /\ q.max_p95_tpot_seconds \in Int
       /\ q.max_p95_e2e_seconds \in Int /\ q.min_output_tokens_per_second \in Nat
  <2>1. /\ q.max_p95_ttft_seconds \in Int /\ q.max_p95_tpot_seconds \in Int
        /\ q.max_p95_e2e_seconds \in Int /\ q.min_output_tokens_per_second \in Int
        /\ "min_output_tokens_per_second" \in DOMAIN q
    BY DEF RequiredFields
  <2>2. q.min_output_tokens_per_second >= 0
    BY <2>1 DEF TracesValid
  <2> QED
    BY <2>1, <2>2
<1> DEFINE least(x) == q.min_output_tokens_per_second * Window(x)
<1>11. least(t) <= least(s) /\ least(t) \in Int /\ least(s) \in Int
  <2>1. Window(t) \in Int /\ Window(s) \in Int /\ Window(t) <= Window(s)
    BY WindowGrows DEF TracesValid
  <2>2. Window(t) \in Nat /\ Window(s) \in Nat
    BY <2>1 DEF TracesValid
  <2> DEFINE m == q.min_output_tokens_per_second
  <2>3. m \in Nat /\ m <= m
    BY <1>10
  <2> HIDE DEF m
  <2>4. m * Window(t) <= m * Window(s) /\ m * Window(t) \in Int /\ m * Window(s) \in Int
    BY <2>1, <2>2, <2>3, ProductsGrow
  <2> QED
    BY <2>4 DEF m
<1>12. /\ P95(Ttft, s) <= q.max_p95_ttft_seconds
       /\ P95(Tpot, s) <= q.max_p95_tpot_seconds
       /\ P95(E2e, s) <= q.max_p95_e2e_seconds
       /\ tokens(s) >= least(s)
  BY MeetsIff, Zenon
<1>13. /\ P95(Ttft, t) <= q.max_p95_ttft_seconds
       /\ P95(Tpot, t) <= q.max_p95_tpot_seconds
       /\ P95(E2e, t) <= q.max_p95_e2e_seconds
  BY <1>5, <1>6, <1>7, <1>10, <1>12
<1>14. tokens(t) >= least(t)
  <2>1. tokens(t) \in Int
    BY <1>8, <1>9
  <2> HIDE DEF tokens, least
  <2> QED
    BY <1>8, <1>11, <1>12, <2>1
<1> QED
  BY <1>13, <1>14, MeetsIff, Zenon

(* What a gate passes, of two questions about the same requirements.         *)
LEMMA ReleaseStep ==
  ASSUME QuestionOK, BaselineOK, NEW x, NEW y, x.gate = "rollout", y.gate = "rollout",
         x.required = asked.required, y.required = asked.required, asked.gate = "rollout",
         ReleaseFields \subseteq DOMAIN x.evidence,
         IsRelease(x.evidence), IsRelease(y.evidence),
         Answer(x) # Raised, Answer(y) # Raised,
         WorseMeasured(x.evidence, y.evidence), Passes(x, Answer(x))
  PROVE  Passes(y, Answer(y))
<1>1. \A z \in {x, y} : Answer(z) = EvaluateRollout(baseline, z.evidence, asked.required)
  BY DEF Answer, ReleaseGate
<1>2. EvaluateRollout(baseline, x.evidence, asked.required).action = "promote"
  BY <1>1 DEF Passes
<1>3. IsRelease(baseline)
  BY BaselineTypes DEF IsRelease
<1>4. \A field \in RequiredFields["rollout"] : asked.required[field] \in Int
  BY RequiredTypes
<1>5. \A field \in ReleaseFields :
        NoBetterValue(field, x.evidence[field], y.evidence[field])
  BY DEF WorseMeasured
<1>6. EvaluateRollout(baseline, y.evidence, asked.required).action = "promote"
  BY <1>2, <1>3, <1>4, <1>5, ReleaseGateIsMonotone DEF RequiredFields
<1> QED
  BY <1>1, <1>6 DEF Passes

LEMMA FormatStep ==
  ASSUME QuestionOK, NEW x, NEW y, x.gate = "quantization", y.gate = "quantization",
         x.required = asked.required, y.required = asked.required,
         asked.gate = "quantization",
         FormatFields \subseteq DOMAIN x.evidence,
         IsFormat(x.evidence), IsFormat(y.evidence),
         Answer(x) # Raised, Answer(y) # Raised,
         WorseMeasured(x.evidence, y.evidence), Passes(x, Answer(x))
  PROVE  Passes(y, Answer(y))
<1>1. \A z \in {x, y} :
        Answer(z) = EvaluateQuantization(FormatBaseline, z.evidence, asked.required)
  BY DEF Answer, FormatGate
<1>2. EvaluateQuantization(FormatBaseline, x.evidence, asked.required).action = "stage"
  BY <1>1 DEF Passes
<1>3. \A field \in RequiredFields["quantization"] : asked.required[field] \in Int
  BY RequiredTypes
<1>4. EvaluateQuantization(FormatBaseline, y.evidence, asked.required).action = "stage"
  BY <1>2, <1>3, MeasuredAssumption, FormatGateIsMonotone
<1> QED
  BY <1>1, <1>4 DEF Passes

LEMMA ServiceStep ==
  ASSUME QuestionOK, NEW x, NEW y, x.gate = "service", y.gate = "service",
         x.required = asked.required, y.required = asked.required, asked.gate = "service",
         Traces(x.evidence) \in Seq(Trace), Traces(y.evidence) \in Seq(Trace),
         Answer(x) # Raised, Answer(y) # Raised,
         SlowerTraces(Traces(x.evidence), Traces(y.evidence)), Passes(x, Answer(x))
  PROVE  Passes(y, Answer(y))
<1> DEFINE s == Traces(x.evidence)
           t == Traces(y.evidence)
           q == asked.required
<1>1. /\ Answer(x) = EvaluateService(s, q) /\ Answer(y) = EvaluateService(t, q)
      /\ TracesValid(s, q) /\ TracesValid(t, q)
  BY DEF Answer, ServiceGate
<1>2. s \in Seq(Trace) /\ t \in Seq(Trace) /\ SlowerTraces(s, t)
  OBVIOUS
<1>3. /\ Passes(x, Answer(x)) <=> Answer(x).meets_objectives
      /\ Passes(y, Answer(y)) <=> Answer(y).meets_objectives
  BY Zenon DEF Passes
<1>4. /\ RequiredFields["service"] \subseteq DOMAIN q
      /\ \A field \in RequiredFields["service"] : q[field] \in Int
  BY RequiredTypes
<1> HIDE DEF s, t, q
<1>5. EvaluateService(s, q).meets_objectives
  BY <1>1, <1>3, Zenon
<1>6. EvaluateService(t, q).meets_objectives
  BY <1>1, <1>2, <1>4, <1>5, ServiceGateIsMonotone
<1> QED
  BY <1>1, <1>3, <1>6, Zenon

LEMMA SpeculationStep ==
  ASSUME NEW x, NEW y, x.gate = "speculation", y.gate = "speculation",
         \A field \in RoundFields : x.evidence[field] \in FieldValues(field),
         \A field \in RoundFields : y.evidence[field] \in FieldValues(field),
         Answer(x) # Raised, Answer(y) # Raised,
         CostlierRound(x.evidence, y.evidence), Passes(x, Answer(x))
  PROVE  Passes(y, Answer(y))
<1> DEFINE e == x.evidence
           f == y.evidence
<1>1. /\ Answer(x) = EvaluateSpeculation(e) /\ Answer(y) = EvaluateSpeculation(f)
      /\ RoundValid(e) /\ RoundValid(f)
  BY DEF Answer, SpeculationGate
<1>2. /\ Passes(x, Answer(x)) <=> Answer(x).enable
      /\ Passes(y, Answer(y)) <=> Answer(y).enable
  BY Zenon DEF Passes
<1>3. /\ \A field \in RoundFields : e[field] \in FieldValues(field)
      /\ \A field \in RoundFields : f[field] \in FieldValues(field)
      /\ CostlierRound(e, f)
  OBVIOUS
<1> HIDE DEF e, f
<1>4. EvaluateSpeculation(e).enable
  BY <1>1, <1>2, Zenon
<1>5. EvaluateSpeculation(f).enable
  BY <1>1, <1>3, <1>4, SpeculationGateIsMonotone
<1> QED
  BY <1>1, <1>2, <1>5, Zenon

(* Measuring one field anew, for the worse, never turns a refusal of any of  *)
(* the four gates into a pass, whatever the release that runs and whatever   *)
(* was required: no comparison (rollouts.py:77-100, quantization.py:81-93,   *)
(* metrics.py:102-110, speculative.py:50-56) points the wrong way.           *)
THEOREM WorseEvidenceNeverPasses == Spec => WorseNeverPasses
<1> DEFINE Step ==
      (Answered /\ Answered' /\ NoBetter(asked.gate, asked'.evidence, asked.evidence)
        /\ Passes(asked', answer')) => Passes(asked, answer)
<1>1. QuestionOK => EvidenceOK
  BY EvidenceIsTyped
<1>2. QuestionOK' => EvidenceOK'
  BY <1>1, PTL
<1>3. ASSUME IInv, IInv', [Next]_vars
      PROVE  [Step]_vars
  <2>1. SUFFICES ASSUME Next, Answered, Answered',
                        NoBetter(asked.gate, asked'.evidence, asked.evidence),
                        Passes(asked', answer')
                 PROVE  Passes(asked, answer)
    BY <1>3
  <2>2. PICK field \in DOMAIN Measurements[asked.gate] : Remeasure(field)
    BY <2>1 DEF Next, Evaluate, Promote, Answered
  <2>3. /\ answer' = Answer(asked') /\ asked'.gate = asked.gate
        /\ asked'.required = asked.required
    BY <1>3, <2>2, RemeasureKeeps
  <2>4. /\ answer = Answer(asked) /\ answer # Raised /\ answer' # Raised
        /\ QuestionOK /\ BaselineOK /\ EvidenceOK /\ EvidenceOK'
    BY <1>1, <1>2, <1>3, <2>1 DEF IInv, Answered
  <2>5. asked.gate \in {"rollout", "quantization", "service", "speculation"}
    BY <2>4, GatesAssumption DEF QuestionOK
  <2>6. CASE asked.gate = "rollout"
    <3>1. /\ ReleaseFields \subseteq DOMAIN asked'.evidence
          /\ IsRelease(asked'.evidence) /\ IsRelease(asked.evidence)
      BY <2>3, <2>4, <2>6 DEF EvidenceOK, IsRelease, Fields
    <3>2. WorseMeasured(asked'.evidence, asked.evidence)
      BY <2>1, <2>6 DEF NoBetter
    <3> QED
      BY <2>1, <2>3, <2>4, <2>6, <3>1, <3>2, ReleaseStep
  <2>7. CASE asked.gate = "quantization"
    <3>1. /\ FormatFields \subseteq DOMAIN asked'.evidence
          /\ IsFormat(asked'.evidence) /\ IsFormat(asked.evidence)
      BY <2>3, <2>4, <2>7 DEF EvidenceOK, IsFormat, Fields
    <3>2. WorseMeasured(asked'.evidence, asked.evidence)
      BY <2>1, <2>7 DEF NoBetter
    <3> QED
      BY <2>1, <2>3, <2>4, <2>7, <3>1, <3>2, FormatStep
  <2>8. CASE asked.gate = "service"
    <3>1. Traces(asked'.evidence) \in Seq(Trace) /\ Traces(asked.evidence) \in Seq(Trace)
      BY <2>3, <2>4, <2>8 DEF EvidenceOK
    <3>2. SlowerTraces(Traces(asked'.evidence), Traces(asked.evidence))
      BY <2>1, <2>8 DEF NoBetter
    <3> QED
      BY <2>1, <2>3, <2>4, <2>8, <3>1, <3>2, ServiceStep
  <2>9. CASE asked.gate = "speculation"
    <3>1. /\ \A f \in RoundFields : asked'.evidence[f] \in FieldValues(f)
          /\ \A f \in RoundFields : asked.evidence[f] \in FieldValues(f)
      BY <2>3, <2>4, <2>9 DEF EvidenceOK, Fields
    <3>2. CostlierRound(asked'.evidence, asked.evidence)
      BY <2>1, <2>9 DEF NoBetter
    <3> QED
      BY <2>1, <2>3, <2>4, <2>9, <3>1, <3>2, SpeculationStep
  <2> QED
    BY <2>5, <2>6, <2>7, <2>8, <2>9
<1>4. IInv /\ IInv' /\ [Next]_vars => [Step]_vars
  BY <1>3
<1> QED
  BY <1>4, Invariance, PTL DEF Spec, WorseNeverPasses

====
