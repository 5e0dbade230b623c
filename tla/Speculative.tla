---- MODULE Speculative ----
(***************************************************************************)
(* evaluate_speculation of src/inference_platform/speculative.py.  Costs   *)
(* are integers in one unit, the minimum speedup is in percent.            *)
(***************************************************************************)
EXTENDS Integers, Sequences, FiniteSetsExt

(* Mutated form: a target as long as the draft is accepted. *)
RoundUncovered(round) ==
  /\ round.draft # <<>> /\ Len(round.target) >= Len(round.draft)
  /\ round.baseline_seconds > 0 /\ round.draft_seconds > 0
  /\ round.verification_seconds > 0 /\ round.minimum_speedup > 0

(* Lines 61-73; anything else raises. *)
RoundValid(round) ==
  /\ round.draft # <<>> /\ round.target # <<>>
  /\ Len(round.target) > Len(round.draft)
  /\ \A field \in {"baseline_seconds", "draft_seconds", "verification_seconds",
                   "minimum_speedup"} : round[field] > 0

(* The loop of lines 75-79 stops at the first mismatch. *)
Accepted(draft, target) ==
  LET mismatches == {i \in DOMAIN draft : draft[i] # target[i]}
  IN  IF mismatches = {} THEN Len(draft) ELSE Min(mismatches) - 1

EvaluateSpeculation(round) ==
  LET emitted          == Accepted(round.draft, round.target) + 1
      baseline_cost    == emitted * round.baseline_seconds
      speculative_cost == Len(round.draft) * round.draft_seconds + round.verification_seconds
  IN  [enable   |-> 100 * baseline_cost >= round.minimum_speedup * speculative_cost,
       accepted |-> Accepted(round.draft, round.target),
       emitted  |-> emitted]

====
