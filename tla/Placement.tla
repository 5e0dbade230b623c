---- MODULE Placement ----
(***************************************************************************)
(* place_replica of src/inference_platform/placement.py, called by several *)
(* planners on one inventory.  The function is pure: it reads a snapshot   *)
(* and proposes a group.  Its docstring leaves to the orchestration around *)
(* it to "re-check inventory and reserve the chosen devices atomically";   *)
(* that orchestration is external here and does exactly this.              *)
(*                                                                         *)
(* Identifiers are numbers, memory is an integer; the code sorts strings   *)
(* and adds floats.                                                        *)
(***************************************************************************)
EXTENDS Integers, FiniteSets, FiniteSetsExt

CONSTANTS
  Gpus,         \* identifiers of the devices
  Replicas,     \* replicas to be placed, each by a planner of its own
  Inventories,  \* what the devices may be to begin with: functions to GPU records
  Requests      \* PlacementRequest values a planner may hold

(* The fields of the two dataclasses; the constructors check nothing. *)
ASSUME InventoryAssumption ==
  /\ Gpus \subseteq Int /\ IsFiniteSet(Gpus)
  /\ \A inventory \in Inventories : DOMAIN inventory = Gpus
  /\ \A inventory \in Inventories, gpu \in Gpus :
       /\ DOMAIN inventory[gpu] = {"node", "free_memory_gib", "capabilities", "resident_models"}
       /\ inventory[gpu].free_memory_gib \in Nat

ASSUME RequestAssumption ==
  \A request \in Requests :
    /\ request.gpus_required \in Int
    /\ request.memory_gib_per_gpu \in Int
    /\ request.require_same_node \in BOOLEAN

VARIABLES
  installed,   \* the inventory before anything was placed
  inventory,   \* the inventory now
  request,     \* what each replica asks for
  seen,        \* the snapshot its planner last planned on
  gpu_ids,     \* the group it proposed, or holds
  outcome      \* how far its placement is

vars == <<installed, inventory, request, seen, gpu_ids, outcome>>

-----------------------------------------------------------------------------
(* place_replica(): pure in a request and an inventory. *)

(* The checks of lines 64-72; identifiers are unique here by construction.   *)
Valid(req, inv) ==
  /\ req.gpus_required > 0
  /\ req.memory_gib_per_gpu > 0
  /\ \A gpu \in Gpus : inv[gpu].free_memory_gib >= 0

(* Mutated form: a device must have memory to spare. *)
EligibleStrictly(req, inv) ==
  {gpu \in Gpus :
     /\ inv[gpu].free_memory_gib > req.memory_gib_per_gpu
     /\ req.required_capabilities \subseteq inv[gpu].capabilities}

(* Mutated form: free memory is not compared. *)
EligibleAnyMemory(req, inv) ==
  {gpu \in Gpus : req.required_capabilities \subseteq inv[gpu].capabilities}

Eligible(req, inv) ==
  {gpu \in Gpus :
     /\ inv[gpu].free_memory_gib >= req.memory_gib_per_gpu
     /\ req.required_capabilities \subseteq inv[gpu].capabilities}

(* Mutated form: locality is not looked at. *)
GroupsAnywhere(req, inv) == kSubset(req.gpus_required, Eligible(req, inv))

Groups(req, inv) ==
  {group \in kSubset(req.gpus_required, Eligible(req, inv)) :
     req.require_same_node => Cardinality({inv[gpu].node : gpu \in group}) = 1}

Resident(group, req, inv) ==
  Cardinality({gpu \in group : req.model_revision \in inv[gpu].resident_models})

Remaining(group, req, inv) ==
  MapThenSumSet(LAMBDA gpu : inv[gpu].free_memory_gib - req.memory_gib_per_gpu, group)

(* The order of the sorted identifier tuples of two groups of one size.      *)
IdsBefore(a, b) == a # b /\ Min((a \ b) \cup (b \ a)) \in a

(* Mutated form: packing comes before warm weights. *)
RanksPackingFirst(a, b, req, inv) ==
  \/ Remaining(a, req, inv) < Remaining(b, req, inv)
  \/ /\ Remaining(a, req, inv) = Remaining(b, req, inv)
     /\ IdsBefore(a, b)

(* The key of line 99. *)
Ranks(a, b, req, inv) ==
  \/ Resident(a, req, inv) > Resident(b, req, inv)
  \/ /\ Resident(a, req, inv) = Resident(b, req, inv)
     /\ \/ Remaining(a, req, inv) < Remaining(b, req, inv)
        \/ Remaining(a, req, inv) = Remaining(b, req, inv) /\ IdsBefore(a, b)

(* min(groups) picks one of these. *)
Best(req, inv) ==
  {a \in Groups(req, inv) : \A b \in Groups(req, inv) : ~Ranks(b, a, req, inv)}

-----------------------------------------------------------------------------
(* A planner plans on the inventory as it is now. *)

(* Mutated form: a second attempt still looks at the first snapshot. *)
PlanOnOldSnapshot(r) ==
  /\ outcome[r] = "wanted"
  /\ seen' = [seen EXCEPT ![r] = IF seen[r] = <<>> THEN inventory ELSE seen[r]]
  /\ UNCHANGED <<installed, inventory, request>>

Plan(r) ==
  /\ outcome[r] = "wanted"
  /\ seen' = [seen EXCEPT ![r] = inventory]
  /\ UNCHANGED <<installed, inventory, request>>

Propose(r) ==
  /\ Plan(r)
  /\ Valid(request[r], seen'[r])
  /\ \E group \in Best(request[r], seen'[r]) : gpu_ids' = [gpu_ids EXCEPT ![r] = group]
  /\ outcome' = [outcome EXCEPT ![r] = "planned"]

Refuse(r) ==
  /\ Plan(r)
  /\ Valid(request[r], seen'[r])
  /\ Groups(request[r], seen'[r]) = {}
  /\ outcome' = [outcome EXCEPT ![r] = "refused"]
  /\ UNCHANGED gpu_ids

Raise(r) ==
  /\ Plan(r)
  /\ ~Valid(request[r], seen'[r])
  /\ outcome' = [outcome EXCEPT ![r] = "error"]
  /\ UNCHANGED gpu_ids

PlaceReplica(r) == Propose(r) \/ Refuse(r) \/ Raise(r)

-----------------------------------------------------------------------------
(* External: the orchestration. *)

(* The proposed group is still eligible in the inventory as it is now. *)
StillEligible(r) == gpu_ids[r] \subseteq Eligible(request[r], inventory)

Reserve(r) ==
  /\ outcome[r] = "planned"
  /\ StillEligible(r)
  /\ inventory' =
       [gpu \in Gpus |->
          IF gpu \in gpu_ids[r]
            THEN [inventory[gpu] EXCEPT !.free_memory_gib = @ - request[r].memory_gib_per_gpu,
                                        !.resident_models = @ \cup {request[r].model_revision}]
            ELSE inventory[gpu]]
  /\ outcome' = [outcome EXCEPT ![r] = "running"]
  /\ UNCHANGED <<installed, request, seen, gpu_ids>>

(* Another planner was faster: plan again. *)
Conflict(r) ==
  /\ outcome[r] = "planned"
  /\ ~StillEligible(r)
  /\ outcome' = [outcome EXCEPT ![r] = "wanted"]
  /\ gpu_ids' = [gpu_ids EXCEPT ![r] = {}]
  /\ UNCHANGED <<installed, inventory, request, seen>>

(* A replica ends; its weights stay resident. *)
Finish(r) ==
  /\ outcome[r] = "running"
  /\ inventory' =
       [gpu \in Gpus |->
          IF gpu \in gpu_ids[r]
            THEN [inventory[gpu] EXCEPT !.free_memory_gib = @ + request[r].memory_gib_per_gpu]
            ELSE inventory[gpu]]
  /\ outcome' = [outcome EXCEPT ![r] = "finished"]
  /\ gpu_ids' = [gpu_ids EXCEPT ![r] = {}]
  /\ UNCHANGED <<installed, request, seen>>

-----------------------------------------------------------------------------
Init ==
  /\ installed \in Inventories
  /\ inventory = installed
  /\ request \in [Replicas -> Requests]
  /\ seen = [r \in Replicas |-> <<>>]
  /\ gpu_ids = [r \in Replicas |-> {}]
  /\ outcome = [r \in Replicas |-> "wanted"]

Planner(r) == PlaceReplica(r) \/ Reserve(r) \/ Conflict(r)

Next == \E r \in Replicas : Planner(r) \/ Finish(r)

(* Every planner keeps trying; nothing says that a replica ever ends.        *)
Spec == Init /\ [][Next]_vars /\ \A r \in Replicas : WF_vars(Planner(r))

-----------------------------------------------------------------------------
(* Safety *)

GpuRecords(inv) ==
  \A gpu \in Gpus :
    /\ DOMAIN inv[gpu] = DOMAIN installed[gpu]
    /\ inv[gpu].free_memory_gib \in 0..installed[gpu].free_memory_gib
    /\ inv[gpu].node = installed[gpu].node
    /\ inv[gpu].capabilities = installed[gpu].capabilities

Holders(gpu) == {r \in Replicas : outcome[r] = "running" /\ gpu \in gpu_ids[r]}

(* Every variable has its type; a proposed or held group has as many devices *)
(* as were asked for.                                                        *)
TypeOK ==
  /\ installed \in Inventories
  /\ GpuRecords(inventory)
  /\ request \in [Replicas -> Requests]
  /\ DOMAIN seen = Replicas
  /\ \A r \in Replicas : seen[r] = <<>> \/ GpuRecords(seen[r])
  /\ gpu_ids \in [Replicas -> SUBSET Gpus]
  /\ outcome \in [Replicas -> {"wanted", "planned", "running", "finished", "refused", "error"}]
  /\ \A r \in Replicas : outcome[r] \in {"planned", "running"} =>
       Cardinality(gpu_ids[r]) = request[r].gpus_required

(* The units of memory in use on a device, each named by its holder.         *)
InUse(gpu) == UNION {{r} \X (1..request[r].memory_gib_per_gpu) : r \in Holders(gpu)}

(* However planners race, the replicas that run on a device together never   *)
(* need more memory than it had, and each device can do what they require.   *)
NeverOversubscribed ==
  \A gpu \in Gpus :
    /\ Cardinality(InUse(gpu)) <= installed[gpu].free_memory_gib
    /\ \A r \in Holders(gpu) : request[r].required_capabilities \subseteq installed[gpu].capabilities

(* A group that needs locality runs on one node (placement.py:3-4), whatever *)
(* was taken between the plan and the reservation.                           *)
GroupsStayTogether ==
  \A r \in Replicas :
    (outcome[r] = "running" /\ request[r].require_same_node) =>
      \A a, b \in gpu_ids[r] : installed[a].node = installed[b].node

(* What any group that meets a request looks like. *)
Meets(group, req, inv) ==
  /\ Cardinality(group) = req.gpus_required
  /\ \A gpu \in group : inv[gpu].free_memory_gib >= req.memory_gib_per_gpu
  /\ \A gpu \in group : req.required_capabilities \subseteq inv[gpu].capabilities
  /\ req.require_same_node => \A a, b \in group : inv[a].node = inv[b].node

(* A refusal is made from a snapshot; it stays right until memory is freed.  *)
(* As long as no device is freer than the snapshot said, no group would do.  *)
RefusalsHold ==
  \A r \in Replicas :
    (outcome[r] = "refused"
      /\ \A gpu \in Gpus : inventory[gpu].free_memory_gib <= seen[r][gpu].free_memory_gib)
    => ~\E group \in SUBSET Gpus : Meets(group, request[r], inventory)

(* A cold load is only paid for when it has to be: when a replica starts, no *)
(* group it could have had when it was planned held more warm copies than    *)
(* its own group holds by now (placement.py:5).                              *)
ColdLoadsForced ==
  [][\A r \in Replicas :
       (outcome[r] = "planned" /\ outcome'[r] = "running") =>
         \A group \in SUBSET Gpus : Meets(group, request[r], seen[r]) =>
           Resident(group, request[r], seen[r]) <= Resident(gpu_ids[r], request[r], inventory)]_vars

-----------------------------------------------------------------------------
(* Liveness *)

(* A lost race is no lost request: every replica ends up running, or refused *)
(* for what it asks, because a conflict means that another one got through.  *)
EveryReplicaAnswered ==
  \A r \in Replicas : <>(outcome[r] \in {"running", "finished", "refused", "error"})

====
