---- MODULE MCPlacement ----
(***************************************************************************)
(* Three planners on two nodes of two devices each.                        *)
(***************************************************************************)
EXTENDS Placement

CONSTANTS m, n

MCGpus == 1..4

Device(node, free, capabilities, resident) ==
  [node |-> node, free_memory_gib |-> free, capabilities |-> capabilities,
   resident_models |-> resident]

(* A uniform cluster with one warm device, one with a roomier second node,   *)
(* and one whose first device lacks a capability.                            *)
MCInventories ==
  { << Device("a", 2, {"bf16"}, {}), Device("a", 2, {"bf16"}, {}),
       Device("b", 2, {"bf16"}, {m}), Device("b", 2, {"bf16"}, {}) >>,
    << Device("a", 2, {"bf16"}, {}), Device("a", 1, {"bf16"}, {}),
       Device("b", 3, {"bf16"}, {m}), Device("b", 3, {"bf16"}, {n}) >>,
    << Device("a", 3, {}, {m}), Device("a", 3, {"bf16"}, {m}),
       Device("b", 2, {"bf16"}, {}), Device("b", 1, {"bf16"}, {}) >> }

Request(model, gpus, memory, together) ==
  [model_revision |-> model, gpus_required |-> gpus, memory_gib_per_gpu |-> memory,
   required_capabilities |-> {"bf16"}, require_same_node |-> together]

MCRequests ==
  { Request(m, 2, 2, TRUE), Request(n, 2, 1, TRUE), Request(n, 1, 2, TRUE),
    Request(m, 3, 1, FALSE), Request(m, 0, 1, TRUE) }

Planners == {1, 2, 3}

====
