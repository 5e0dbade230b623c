---- MODULE MCGates ----
(***************************************************************************)
(* A few measurements on each side of every threshold; samples of one, and *)
(* of 19, 20, 21 and 40 traces, where the ceiling of the p95 rank steps.   *)
(***************************************************************************)
EXTENDS Gates

MCGateNames == {"rollout", "quantization", "service", "speculation"}

MCFirstRelease ==
  [mode |-> "canary", warmed |-> TRUE, sample_count |-> 9, quality_score |-> 90,
   p95_ttft_seconds |-> 10, p95_tpot_seconds |-> 1, output_tokens_per_second |-> 100,
   error_rate |-> 1]

MCFormatBaseline ==
  [hardware_supported |-> TRUE, weight_bits |-> 16, quality_score |-> 90,
   weight_memory_gib |-> 60, p95_ttft_seconds |-> 10, output_tokens_per_second |-> 100]

FastLoad == [requests |-> 20, late |-> 0, stretched |-> 0, first |-> 1, tokens |-> 3]

FirstRound ==
  [draft |-> <<1, 2, 3>>, target |-> <<1, 2, 3, 1>>, baseline_seconds |-> 10,
   draft_seconds |-> 2, verification_seconds |-> 10, minimum_speedup |-> 120]

MCEvidence ==
  [rollout |-> MCFirstRelease, quantization |-> MCFormatBaseline,
   service |-> FastLoad, speculation |-> FirstRound]

MCMeasurements ==
  [rollout |->
     [mode |-> {"shadow", "canary"}, warmed |-> BOOLEAN, sample_count |-> {4, 5},
      quality_score |-> {-1, 85, 86, 87, 88, 90}, p95_ttft_seconds |-> {10, 11},
      p95_tpot_seconds |-> {1, 2}, output_tokens_per_second |-> {0, 90, 95, 100},
      error_rate |-> {1, 2}],
   quantization |->
     [hardware_supported |-> BOOLEAN, weight_bits |-> {0, 4}, quality_score |-> {85, 86, 87, 90},
      weight_memory_gib |-> {0, 16, 20}, p95_ttft_seconds |-> {-1, 10, 11},
      output_tokens_per_second |-> {0, 94, 95, 120}],
   service |->
     [requests |-> {1, 19, 20, 21, 40}, late |-> 0..3, stretched |-> 0..3,
      first |-> -1..2, tokens |-> {0, 1, 3}],
   speculation |->
     [draft |-> {<<>>, <<1, 2, 3>>, <<1, 2, 2>>, <<1, 1, 3>>, <<2, 2, 3>>, <<1>>},
      target |-> {<<1, 2, 3, 1>>, <<1, 2, 3>>, <<1, 1>>, <<>>},
      baseline_seconds |-> {0, 6, 10}, draft_seconds |-> {2, 4},
      verification_seconds |-> {10, 20}, minimum_speedup |-> {100, 120}]]

MCIdeal ==
  [rollout |-> MCFirstRelease,
   quantization |-> [MCFormatBaseline EXCEPT !.weight_memory_gib = 16]]

ReleasePolicy ==
  [min_sample_count |-> 5, min_quality_score |-> 86, max_quality_drop |-> 2,
   max_p95_ttft_seconds |-> 10, max_p95_tpot_seconds |-> 1,
   min_relative_throughput |-> 95, max_error_rate |-> 1]

Objectives ==
  [max_p95_ttft_seconds |-> 1, max_p95_tpot_seconds |-> 1, max_p95_e2e_seconds |-> 3,
   min_output_tokens_per_second |-> 2]

MCRequired ==
  [rollout |-> {ReleasePolicy, [ReleasePolicy EXCEPT !.min_sample_count = 0]},
   quantization |-> {[min_quality_score |-> 86, max_quality_drop |-> 3,
                      max_weight_memory_gib |-> 16, max_p95_ttft_seconds |-> 10,
                      min_relative_throughput |-> 95]},
   service |-> {Objectives, [Objectives EXCEPT !.max_p95_e2e_seconds = -1]},
   speculation |-> {<<>>}]

(* Requests arrive in pairs; some wait for their first token, some others    *)
(* are slow after it.                                                        *)
MCTraces(load) ==
  [i \in 1..load.requests |->
     LET arrived == i \div 2
         first   == arrived + IF i <= load.late THEN load.first + 2 ELSE load.first
     IN  [arrived_at |-> arrived, first_token_at |-> first,
          completed_at |-> first + IF i > load.requests - load.stretched THEN 4 ELSE 2,
          output_tokens |-> load.tokens]]

====
