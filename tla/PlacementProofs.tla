---- MODULE PlacementProofs ----
(***************************************************************************)
(* Theorems about Placement, for every inventory, every set of requests    *)
(* and any number of planners, who race on stale snapshots.                *)
(*                                                                         *)
(* The reservation is safe because free memory and memory in use always    *)
(* add up to what was installed (Books), and because what place_replica    *)
(* says of a group when it proposes it is about node and capabilities,     *)
(* which no reservation changes (Promised).  A refusal says that no group  *)
(* met the request in the snapshot (Refused).  Weights that a device has   *)
(* loaded stay on it, so a planned group is no colder when it starts.      *)
(***************************************************************************)
EXTENDS Placement, FiniteSetTheorems, TLAPS

Books ==
  \A gpu \in Gpus :
    /\ IsFiniteSet(InUse(gpu))
    /\ inventory[gpu].free_memory_gib + Cardinality(InUse(gpu)) = installed[gpu].free_memory_gib

(* What a proposal promised when it was made. *)
Promised ==
  \A r \in Replicas : outcome[r] \in {"planned", "running"} =>
    /\ request[r].memory_gib_per_gpu > 0
    /\ \A gpu \in gpu_ids[r] : request[r].required_capabilities \subseteq installed[gpu].capabilities
    /\ request[r].require_same_node =>
         \A a, b \in gpu_ids[r] : installed[a].node = installed[b].node

Refused ==
  \A r \in Replicas : outcome[r] = "refused" =>
    /\ request[r].gpus_required > 0
    /\ GpuRecords(seen[r])
    /\ Groups(request[r], seen[r]) = {}

IInv == TypeOK /\ Books /\ Promised /\ Refused

-----------------------------------------------------------------------------
(* What a request is, and what an inventory is. *)
LEMMA RequestType ==
  ASSUME TypeOK, NEW r \in Replicas
  PROVE  /\ request[r].gpus_required \in Int
         /\ request[r].memory_gib_per_gpu \in Int
         /\ request[r].require_same_node \in BOOLEAN
BY RequestAssumption DEF TypeOK

LEMMA InventoryType ==
  ASSUME TypeOK, NEW inv, GpuRecords(inv), NEW gpu \in Gpus
  PROVE  /\ inv[gpu].free_memory_gib \in Nat
         /\ installed[gpu].free_memory_gib \in Nat
         /\ inv[gpu].free_memory_gib <= installed[gpu].free_memory_gib
         /\ inv[gpu].node = installed[gpu].node
         /\ inv[gpu].capabilities = installed[gpu].capabilities
BY InventoryAssumption DEF GpuRecords, TypeOK

(* A set with one member has equal members, and equal members make one. *)
LEMMA OneNode ==
  ASSUME NEW group \in SUBSET Gpus, NEW inv
  PROVE  /\ Cardinality({inv[gpu].node : gpu \in group}) = 1 =>
              \A a, b \in group : inv[a].node = inv[b].node
         /\ (group # {} /\ \A a, b \in group : inv[a].node = inv[b].node) =>
              Cardinality({inv[gpu].node : gpu \in group}) = 1
<1> DEFINE nodes == {inv[gpu].node : gpu \in group}
<1>1. IsFiniteSet(nodes)
  <2>1. IsFiniteSet(group)
    BY InventoryAssumption, FS_Subset
  <2> DEFINE node == [gpu \in group |-> inv[gpu].node]
  <2>2. node \in Surjection(group, nodes)
    BY DEF Surjection
  <2> HIDE DEF node, nodes
  <2> QED
    BY <2>1, <2>2, FS_Surjection
<1>2. Cardinality(nodes) = 1 => \A a, b \in group : inv[a].node = inv[b].node
  <2> SUFFICES ASSUME Cardinality(nodes) = 1, NEW a \in group, NEW b \in group
               PROVE  inv[a].node = inv[b].node
    OBVIOUS
  <2>1. PICK n : nodes = {n}
    BY <1>1, FS_Singleton
  <2>2. inv[a].node \in nodes /\ inv[b].node \in nodes
    OBVIOUS
  <2> QED
    BY <2>1, <2>2
<1>3. ASSUME group # {}, \A a, b \in group : inv[a].node = inv[b].node
      PROVE  Cardinality(nodes) = 1
  <2>1. PICK a \in group : TRUE
    BY <1>3
  <2>2. nodes = {inv[a].node}
    BY <1>3
  <2> QED
    BY <2>2, FS_Singleton
<1> QED
  BY <1>2, <1>3

(* What place_replica says of the group it proposes (placement.py:74-83). *)
LEMMA BestMeets ==
  ASSUME TypeOK, NEW r \in Replicas, NEW inv, NEW group \in Best(request[r], inv)
  PROVE  group \in SUBSET Gpus /\ Meets(group, request[r], inv)
<1>1. group \in Groups(request[r], inv)
  BY DEF Best
<1>2. /\ group \in SUBSET Eligible(request[r], inv)
      /\ Cardinality(group) = request[r].gpus_required
      /\ request[r].require_same_node => Cardinality({inv[gpu].node : gpu \in group}) = 1
  BY <1>1 DEF Groups, kSubset
<1>3. group \in SUBSET Gpus
  BY <1>2 DEF Eligible
<1>4. request[r].require_same_node => \A a, b \in group : inv[a].node = inv[b].node
  BY <1>2, <1>3, OneNode
<1> QED
  BY <1>2, <1>3, <1>4 DEF Meets, Eligible

(* Without a group to propose no group meets the request. *)
LEMMA NoGroupMeets ==
  ASSUME TypeOK, NEW r \in Replicas, NEW inv,
         request[r].gpus_required > 0, Groups(request[r], inv) = {},
         NEW group \in SUBSET Gpus
  PROVE  ~Meets(group, request[r], inv)
<1> SUFFICES ASSUME Meets(group, request[r], inv)
             PROVE  FALSE
  OBVIOUS
<1>1. group \in kSubset(request[r].gpus_required, Eligible(request[r], inv))
  BY DEF Meets, kSubset, Eligible
<1>2. group # {}
  BY RequestType, FS_EmptySet DEF Meets
<1>3. request[r].require_same_node => Cardinality({inv[gpu].node : gpu \in group}) = 1
  BY <1>2, OneNode DEF Meets
<1> QED
  BY <1>1, <1>3 DEF Groups

-----------------------------------------------------------------------------
(* What happens to the memory in use when one replica starts or ends. *)

LEMMA UnitsCount ==
  ASSUME NEW r, NEW n \in Nat
  PROVE  IsFiniteSet({r} \X (1..n)) /\ Cardinality({r} \X (1..n)) = n
<1>1. IsFiniteSet({r}) /\ Cardinality({r}) = 1
  BY FS_Singleton
<1>2. IsFiniteSet(1..n) /\ Cardinality(1..n) = n
  BY FS_Interval
<1>3. /\ IsFiniteSet({r} \X (1..n))
      /\ Cardinality({r} \X (1..n)) = Cardinality({r}) * Cardinality(1..n)
  BY <1>1, <1>2, FS_Product, Zenon
<1> QED
  BY <1>1, <1>2, <1>3

LEMMA UseKept ==
  ASSUME UNCHANGED request, NEW gpu \in Gpus, Holders(gpu)' = Holders(gpu)
  PROVE  InUse(gpu)' = InUse(gpu)
BY DEF InUse

LEMMA UseGrows ==
  ASSUME UNCHANGED request, NEW gpu \in Gpus, IsFiniteSet(InUse(gpu)),
         NEW r \in Replicas, request[r].memory_gib_per_gpu \in Nat,
         r \notin Holders(gpu), Holders(gpu)' = Holders(gpu) \cup {r}
  PROVE  /\ IsFiniteSet(InUse(gpu)')
         /\ Cardinality(InUse(gpu)') = Cardinality(InUse(gpu)) + request[r].memory_gib_per_gpu
<1> DEFINE new == {r} \X (1..request[r].memory_gib_per_gpu)
<1>1. InUse(gpu)' = InUse(gpu) \cup new
  BY DEF InUse
<1>2. InUse(gpu) \cap new = {}
  BY DEF InUse
<1>3. IsFiniteSet(new) /\ Cardinality(new) = request[r].memory_gib_per_gpu
  BY UnitsCount
<1>4. /\ IsFiniteSet(InUse(gpu) \cup new)
      /\ Cardinality(InUse(gpu) \cup new)
           = Cardinality(InUse(gpu)) + Cardinality(new) - Cardinality(InUse(gpu) \cap new)
  BY <1>3, FS_Union
<1>5. Cardinality(InUse(gpu)) \in Nat
  BY FS_CardinalityType
<1> DEFINE before == InUse(gpu)
           after  == InUse(gpu)'
           n      == request[r].memory_gib_per_gpu
<1>6. /\ after = before \cup new /\ IsFiniteSet(before \cup new)
      /\ Cardinality(before \cup new)
           = Cardinality(before) + Cardinality(new) - Cardinality(before \cap new)
      /\ Cardinality(before \cap new) = 0
  BY <1>1, <1>2, <1>4, FS_EmptySet
<1>7. Cardinality(new) = n /\ n \in Nat /\ Cardinality(before) \in Nat
  BY <1>3, <1>5
<1> HIDE DEF new, before, after, n
<1>8. IsFiniteSet(after) /\ Cardinality(after) = Cardinality(before) + n
  BY <1>6, <1>7
<1> QED
  BY <1>8 DEF before, after, n

LEMMA UseShrinks ==
  ASSUME UNCHANGED request, NEW gpu \in Gpus, IsFiniteSet(InUse(gpu)),
         NEW r \in Replicas, request[r].memory_gib_per_gpu \in Nat,
         r \in Holders(gpu), Holders(gpu)' = Holders(gpu) \ {r}
  PROVE  /\ IsFiniteSet(InUse(gpu)')
         /\ Cardinality(InUse(gpu)') = Cardinality(InUse(gpu)) - request[r].memory_gib_per_gpu
<1> DEFINE old == {r} \X (1..request[r].memory_gib_per_gpu)
<1>1. InUse(gpu) = InUse(gpu)' \cup old
  BY DEF InUse
<1>2. InUse(gpu)' \cap old = {}
  BY DEF InUse
<1>3. IsFiniteSet(old) /\ Cardinality(old) = request[r].memory_gib_per_gpu
  BY UnitsCount
<1>4. IsFiniteSet(InUse(gpu)')
  BY <1>1, FS_Subset
<1>5. Cardinality(InUse(gpu)' \cup old)
        = Cardinality(InUse(gpu)') + Cardinality(old) - Cardinality(InUse(gpu)' \cap old)
  BY <1>3, <1>4, FS_Union
<1>6. Cardinality(InUse(gpu)') \in Nat
  BY <1>4, FS_CardinalityType
<1> DEFINE before == InUse(gpu)
           after  == InUse(gpu)'
           n      == request[r].memory_gib_per_gpu
<1>7. /\ before = after \cup old /\ IsFiniteSet(after)
      /\ Cardinality(after \cup old)
           = Cardinality(after) + Cardinality(old) - Cardinality(after \cap old)
      /\ Cardinality(after \cap old) = 0
  BY <1>1, <1>2, <1>4, <1>5, FS_EmptySet
<1>8. Cardinality(old) = n /\ n \in Nat /\ Cardinality(after) \in Nat
  BY <1>3, <1>6
<1> HIDE DEF old, before, after, n
<1>9. IsFiniteSet(after) /\ Cardinality(after) = Cardinality(before) - n
  BY <1>7, <1>8
<1> QED
  BY <1>9 DEF before, after, n

-----------------------------------------------------------------------------
(* The inductive step, one lemma for each part of the invariant. *)

Unreserved == UNCHANGED <<installed, inventory, request>>

(* A step that starts and ends no replica leaves the books alone.            *)
LEMMA BooksKept ==
  ASSUME IInv, Unreserved, \A gpu \in Gpus : Holders(gpu)' = Holders(gpu)
  PROVE  Books'
BY UseKept DEF Books, IInv, Unreserved

(* Planning: the proposal is about the inventory as it is now.               *)
LEMMA PlaceReplicaKeeps ==
  ASSUME IInv, NEW r \in Replicas, PlaceReplica(r)
  PROVE  IInv'
<1>1. /\ TypeOK /\ Books /\ Promised /\ Refused
      /\ Unreserved /\ outcome[r] = "wanted"
      /\ seen' = [seen EXCEPT ![r] = inventory]
  BY DEF IInv, PlaceReplica, Propose, Refuse, Raise, Plan, Unreserved
<1>2. /\ installed' = installed /\ inventory' = inventory /\ request' = request
      /\ GpuRecords(inventory) /\ \A inv : GpuRecords(inv)' <=> GpuRecords(inv)
  BY <1>1 DEF Unreserved, TypeOK, GpuRecords
<1>3. /\ DOMAIN seen = Replicas
      /\ DOMAIN seen' = Replicas /\ seen'[r] = inventory
      /\ \A s \in Replicas \ {r} : seen'[s] = seen[s]
  BY <1>1 DEF TypeOK
<1>4. /\ outcome' \in [Replicas -> {"wanted", "planned", "running", "finished", "refused", "error"}]
      /\ outcome'[r] \in {"planned", "refused", "error"}
      /\ \A s \in Replicas \ {r} : outcome'[s] = outcome[s] /\ gpu_ids'[s] = gpu_ids[s]
  BY <1>1 DEF PlaceReplica, Propose, Refuse, Raise, TypeOK
<1>5. /\ gpu_ids' \in [Replicas -> SUBSET Gpus]
      /\ outcome'[r] = "planned" =>
           /\ Meets(gpu_ids'[r], request[r], inventory)
           /\ request[r].memory_gib_per_gpu > 0
  <2>1. CASE Propose(r)
    <3>1. PICK group \in Best(request[r], inventory) : gpu_ids' = [gpu_ids EXCEPT ![r] = group]
      BY <1>3, <2>1 DEF Propose
    <3>2. group \in SUBSET Gpus /\ Meets(group, request[r], inventory)
      BY <1>1, BestMeets
    <3>3. request[r].memory_gib_per_gpu > 0
      BY <2>1 DEF Propose, Valid
    <3> QED
      BY <1>1, <3>1, <3>2, <3>3 DEF TypeOK
  <2>2. CASE Refuse(r) \/ Raise(r)
    BY <1>1, <2>2 DEF Refuse, Raise, TypeOK
  <2> QED
    BY <2>1, <2>2 DEF PlaceReplica
<1>6. outcome'[r] = "refused" =>
        request[r].gpus_required > 0 /\ Groups(request[r], inventory) = {}
  <2>1. outcome'[r] = "refused" => Refuse(r)
    BY <1>1 DEF PlaceReplica, Propose, Raise, TypeOK
  <2> QED
    BY <1>3, <2>1 DEF Refuse, Valid
<1>7. TypeOK'
  <2>1. \A s \in Replicas : outcome'[s] \in {"planned", "running"} =>
          Cardinality(gpu_ids'[s]) = request[s].gpus_required
    BY <1>1, <1>4, <1>5 DEF Meets, TypeOK
  <2>2. \A s \in Replicas : seen'[s] = <<>> \/ GpuRecords(seen'[s])
    BY <1>1, <1>2, <1>3 DEF TypeOK
  <2> QED
    BY <1>1, <1>2, <1>3, <1>4, <1>5, <2>1, <2>2 DEF TypeOK, GpuRecords
<1>8. Books'
  <2>1. \A gpu \in Gpus : Holders(gpu)' = Holders(gpu)
    BY <1>1, <1>4 DEF Holders
  <2> QED
    BY <1>1, <2>1, BooksKept DEF IInv
<1>9. Promised'
  <2>1. outcome'[r] = "planned" =>
          /\ \A gpu \in gpu_ids'[r] :
               request[r].required_capabilities \subseteq installed[gpu].capabilities
          /\ request[r].require_same_node =>
               \A a, b \in gpu_ids'[r] : installed[a].node = installed[b].node
    BY <1>1, <1>2, <1>5, InventoryType DEF Meets
  <2> QED
    BY <1>1, <1>2, <1>4, <1>5, <2>1 DEF Promised
<1>10. Refused'
  BY <1>1, <1>2, <1>3, <1>4, <1>6 DEF Refused, GpuRecords
<1> QED
  BY <1>7, <1>8, <1>9, <1>10 DEF IInv

(* Reserving: what was free becomes used.                                    *)
LEMMA ReserveKeeps ==
  ASSUME IInv, NEW r \in Replicas, Reserve(r)
  PROVE  IInv'
<1>1. /\ TypeOK /\ Books /\ Promised /\ Refused
      /\ outcome[r] = "planned" /\ StillEligible(r)
      /\ UNCHANGED <<installed, request, seen, gpu_ids>>
  BY DEF IInv, Reserve
<1> DEFINE n == request[r].memory_gib_per_gpu
<1>2. n \in Nat /\ gpu_ids[r] \in SUBSET Gpus
  BY <1>1, RequestType DEF TypeOK, Promised
<1>3. /\ outcome' \in [Replicas -> {"wanted", "planned", "running", "finished", "refused", "error"}]
      /\ outcome'[r] = "running"
      /\ \A s \in Replicas \ {r} : outcome'[s] = outcome[s]
  BY <1>1 DEF Reserve, TypeOK
<1>4. \A gpu \in Gpus :
        /\ DOMAIN inventory'[gpu] = DOMAIN installed[gpu]
        /\ inventory'[gpu].free_memory_gib =
             inventory[gpu].free_memory_gib - IF gpu \in gpu_ids[r] THEN n ELSE 0
        /\ inventory'[gpu].node = installed[gpu].node
        /\ inventory'[gpu].capabilities = installed[gpu].capabilities
  <2> SUFFICES ASSUME NEW gpu \in Gpus
               PROVE  /\ DOMAIN inventory'[gpu] = DOMAIN installed[gpu]
                      /\ inventory'[gpu].free_memory_gib =
                           inventory[gpu].free_memory_gib - IF gpu \in gpu_ids[r] THEN n ELSE 0
                      /\ inventory'[gpu].node = installed[gpu].node
                      /\ inventory'[gpu].capabilities = installed[gpu].capabilities
    OBVIOUS
  <2>1. DOMAIN inventory[gpu] = {"node", "free_memory_gib", "capabilities", "resident_models"}
    BY <1>1, InventoryAssumption DEF TypeOK, GpuRecords
  <2>2. /\ inventory[gpu].free_memory_gib \in Int
        /\ inventory[gpu].node = installed[gpu].node
        /\ inventory[gpu].capabilities = installed[gpu].capabilities
        /\ DOMAIN inventory[gpu] = DOMAIN installed[gpu]
    BY <1>1, InventoryType DEF TypeOK, GpuRecords
  <2>3. CASE gpu \in gpu_ids[r]
    <3>1. inventory'[gpu] = [inventory[gpu] EXCEPT !.free_memory_gib = @ - n,
                              !.resident_models = @ \cup {request[r].model_revision}]
      BY <2>3 DEF Reserve
    <3> QED
      BY <2>1, <2>2, <2>3, <3>1
  <2>4. CASE gpu \notin gpu_ids[r]
    <3>1. inventory'[gpu] = inventory[gpu]
      BY <2>4 DEF Reserve
    <3> QED
      BY <2>2, <2>4, <3>1
  <2> QED
    BY <2>3, <2>4
<1>5. \A gpu \in gpu_ids[r] : inventory[gpu].free_memory_gib >= n
  BY <1>1 DEF StillEligible, Eligible
<1>6. Books'
  <2> SUFFICES ASSUME NEW gpu \in Gpus
               PROVE  /\ IsFiniteSet(InUse(gpu)')
                      /\ inventory'[gpu].free_memory_gib + Cardinality(InUse(gpu)')
                           = installed[gpu].free_memory_gib
    BY <1>1 DEF Books
  <2>1. /\ IsFiniteSet(InUse(gpu))
        /\ inventory[gpu].free_memory_gib + Cardinality(InUse(gpu))
             = installed[gpu].free_memory_gib
    BY <1>1 DEF Books
  <2>2. inventory[gpu].free_memory_gib \in Nat /\ Cardinality(InUse(gpu)) \in Nat
    BY <1>1, <2>1, InventoryType, FS_CardinalityType DEF TypeOK
  <2>3. CASE gpu \in gpu_ids[r]
    <3>1. r \notin Holders(gpu) /\ Holders(gpu)' = Holders(gpu) \cup {r}
      BY <1>1, <1>3, <2>3 DEF Holders
    <3>2. /\ IsFiniteSet(InUse(gpu)')
          /\ Cardinality(InUse(gpu)') = Cardinality(InUse(gpu)) + n
      BY <1>1, <1>2, <2>1, <3>1, UseGrows
    <3> QED
      BY <1>2, <1>4, <2>1, <2>2, <2>3, <3>2
  <2>4. CASE gpu \notin gpu_ids[r]
    <3>1. Holders(gpu)' = Holders(gpu)
      BY <1>1, <1>3, <2>4 DEF Holders
    <3>2. InUse(gpu)' = InUse(gpu)
      BY <1>1, <3>1, UseKept
    <3> QED
      BY <1>4, <2>1, <2>2, <2>4, <3>2
  <2> QED
    BY <2>3, <2>4
<1>7. GpuRecords(inventory)'
  <2> SUFFICES ASSUME NEW gpu \in Gpus
               PROVE  inventory'[gpu].free_memory_gib \in 0..installed[gpu].free_memory_gib
    BY <1>1, <1>4 DEF GpuRecords
  <2>1. /\ inventory[gpu].free_memory_gib \in Nat /\ installed[gpu].free_memory_gib \in Nat
        /\ inventory[gpu].free_memory_gib <= installed[gpu].free_memory_gib
    BY <1>1, InventoryType DEF TypeOK
  <2> QED
    BY <1>2, <1>4, <1>5, <2>1
<1>8. TypeOK'
  BY <1>1, <1>3, <1>7 DEF TypeOK, GpuRecords
<1>9. Promised'
  BY <1>1, <1>3 DEF Promised
<1>10. Refused'
  BY <1>1, <1>3 DEF Refused, GpuRecords
<1> QED
  BY <1>6, <1>8, <1>9, <1>10 DEF IInv

(* Ending: what was used becomes free again, and no more than there was.     *)
LEMMA FinishKeeps ==
  ASSUME IInv, NEW r \in Replicas, Finish(r)
  PROVE  IInv'
<1>1. /\ TypeOK /\ Books /\ Promised /\ Refused
      /\ outcome[r] = "running"
      /\ UNCHANGED <<installed, request, seen>>
  BY DEF IInv, Finish
<1> DEFINE n == request[r].memory_gib_per_gpu
<1>2. n \in Nat /\ gpu_ids[r] \in SUBSET Gpus
  BY <1>1, RequestType DEF TypeOK, Promised
<1>3. /\ outcome' \in [Replicas -> {"wanted", "planned", "running", "finished", "refused", "error"}]
      /\ gpu_ids' \in [Replicas -> SUBSET Gpus]
      /\ outcome'[r] = "finished"
      /\ \A s \in Replicas \ {r} : outcome'[s] = outcome[s] /\ gpu_ids'[s] = gpu_ids[s]
  BY <1>1 DEF Finish, TypeOK
<1>4. \A gpu \in Gpus :
        /\ DOMAIN inventory'[gpu] = DOMAIN installed[gpu]
        /\ inventory'[gpu].free_memory_gib =
             inventory[gpu].free_memory_gib + IF gpu \in gpu_ids[r] THEN n ELSE 0
        /\ inventory'[gpu].node = installed[gpu].node
        /\ inventory'[gpu].capabilities = installed[gpu].capabilities
  <2> SUFFICES ASSUME NEW gpu \in Gpus
               PROVE  /\ DOMAIN inventory'[gpu] = DOMAIN installed[gpu]
                      /\ inventory'[gpu].free_memory_gib =
                           inventory[gpu].free_memory_gib + IF gpu \in gpu_ids[r] THEN n ELSE 0
                      /\ inventory'[gpu].node = installed[gpu].node
                      /\ inventory'[gpu].capabilities = installed[gpu].capabilities
    OBVIOUS
  <2>1. DOMAIN inventory[gpu] = {"node", "free_memory_gib", "capabilities", "resident_models"}
    BY <1>1, InventoryAssumption DEF TypeOK, GpuRecords
  <2>2. /\ inventory[gpu].free_memory_gib \in Int
        /\ inventory[gpu].node = installed[gpu].node
        /\ inventory[gpu].capabilities = installed[gpu].capabilities
        /\ DOMAIN inventory[gpu] = DOMAIN installed[gpu]
    BY <1>1, InventoryType DEF TypeOK, GpuRecords
  <2>3. CASE gpu \in gpu_ids[r]
    <3>1. inventory'[gpu] = [inventory[gpu] EXCEPT !.free_memory_gib = @ + n]
      BY <2>3 DEF Finish
    <3> QED
      BY <2>1, <2>2, <2>3, <3>1
  <2>4. CASE gpu \notin gpu_ids[r]
    <3>1. inventory'[gpu] = inventory[gpu]
      BY <2>4 DEF Finish
    <3> QED
      BY <2>2, <2>4, <3>1
  <2> QED
    BY <2>3, <2>4
<1>5. Books'
  <2> SUFFICES ASSUME NEW gpu \in Gpus
               PROVE  /\ IsFiniteSet(InUse(gpu)')
                      /\ inventory'[gpu].free_memory_gib + Cardinality(InUse(gpu)')
                           = installed[gpu].free_memory_gib
    BY <1>1 DEF Books
  <2>1. /\ IsFiniteSet(InUse(gpu))
        /\ inventory[gpu].free_memory_gib + Cardinality(InUse(gpu))
             = installed[gpu].free_memory_gib
    BY <1>1 DEF Books
  <2>2. inventory[gpu].free_memory_gib \in Nat /\ Cardinality(InUse(gpu)) \in Nat
    BY <1>1, <2>1, InventoryType, FS_CardinalityType DEF TypeOK
  <2>3. CASE gpu \in gpu_ids[r]
    <3>1. r \in Holders(gpu) /\ Holders(gpu)' = Holders(gpu) \ {r}
      BY <1>1, <1>3, <2>3 DEF Holders
    <3>2. /\ IsFiniteSet(InUse(gpu)')
          /\ Cardinality(InUse(gpu)') = Cardinality(InUse(gpu)) - n
      BY <1>1, <1>2, <2>1, <3>1, UseShrinks
    <3> QED
      BY <1>2, <1>4, <2>1, <2>2, <2>3, <3>2
  <2>4. CASE gpu \notin gpu_ids[r]
    <3>1. Holders(gpu)' = Holders(gpu)
      BY <1>1, <1>3, <2>4 DEF Holders
    <3>2. InUse(gpu)' = InUse(gpu)
      BY <1>1, <3>1, UseKept
    <3> QED
      BY <1>4, <2>1, <2>2, <2>4, <3>2
  <2> QED
    BY <2>3, <2>4
<1>6. GpuRecords(inventory)'
  <2> SUFFICES ASSUME NEW gpu \in Gpus
               PROVE  inventory'[gpu].free_memory_gib \in 0..installed[gpu].free_memory_gib
    BY <1>1, <1>4 DEF GpuRecords
  <2>1. /\ inventory[gpu].free_memory_gib \in Nat /\ installed[gpu].free_memory_gib \in Nat
    BY <1>1, InventoryType DEF TypeOK
  <2>2. inventory'[gpu].free_memory_gib \in Nat
    BY <1>2, <1>4, <2>1
  <2>3. /\ Cardinality(InUse(gpu)') \in Nat
        /\ inventory'[gpu].free_memory_gib + Cardinality(InUse(gpu)')
             = installed[gpu].free_memory_gib
    BY <1>1, <1>5, FS_CardinalityType DEF Books
  <2> QED
    BY <2>1, <2>2, <2>3
<1>7. TypeOK'
  BY <1>1, <1>3, <1>6 DEF TypeOK, GpuRecords
<1>8. Promised'
  BY <1>1, <1>3 DEF Promised
<1>9. Refused'
  BY <1>1, <1>3 DEF Refused, GpuRecords
<1> QED
  BY <1>5, <1>7, <1>8, <1>9 DEF IInv

(* Losing a race: the proposal is forgotten.                                 *)
LEMMA ConflictKeeps ==
  ASSUME IInv, NEW r \in Replicas, Conflict(r)
  PROVE  IInv'
<1>1. /\ TypeOK /\ Books /\ Promised /\ Refused
      /\ outcome[r] = "planned"
      /\ UNCHANGED <<installed, inventory, request, seen>>
  BY DEF IInv, Conflict
<1>2. /\ outcome' \in [Replicas -> {"wanted", "planned", "running", "finished", "refused", "error"}]
      /\ gpu_ids' \in [Replicas -> SUBSET Gpus]
      /\ outcome'[r] = "wanted"
      /\ \A s \in Replicas \ {r} : outcome'[s] = outcome[s] /\ gpu_ids'[s] = gpu_ids[s]
  BY <1>1 DEF Conflict, TypeOK
<1>3. TypeOK'
  BY <1>1, <1>2 DEF TypeOK, GpuRecords
<1>4. Books'
  <2>1. \A gpu \in Gpus : Holders(gpu)' = Holders(gpu)
    BY <1>1, <1>2 DEF Holders
  <2> QED
    BY <1>1, <2>1, BooksKept DEF Unreserved
<1>5. Promised' /\ Refused'
  BY <1>1, <1>2 DEF Promised, Refused, GpuRecords
<1> QED
  BY <1>3, <1>4, <1>5 DEF IInv

LEMMA InitHolds ==
  ASSUME Init
  PROVE  IInv
<1>1. TypeOK
  BY InventoryAssumption DEF Init, TypeOK, GpuRecords
<1>2. Books
  <2> SUFFICES ASSUME NEW gpu \in Gpus
               PROVE  /\ IsFiniteSet(InUse(gpu))
                      /\ inventory[gpu].free_memory_gib + Cardinality(InUse(gpu))
                           = installed[gpu].free_memory_gib
    BY DEF Books
  <2>1. InUse(gpu) = {}
    BY DEF Init, InUse, Holders
  <2>2. installed[gpu].free_memory_gib \in Nat /\ inventory = installed
    BY InventoryAssumption DEF Init
  <2> QED
    BY <2>1, <2>2, FS_EmptySet
<1>3. Promised /\ Refused
  BY DEF Init, Promised, Refused
<1> QED
  BY <1>1, <1>2, <1>3 DEF IInv

LEMMA Invariance == Spec => []IInv
<1>1. Init => IInv
  BY InitHolds
<1>2. IInv /\ [Next]_vars => IInv'
  <2> SUFFICES ASSUME IInv, [Next]_vars PROVE IInv'
    OBVIOUS
  <2>1. CASE Next
    BY <2>1, PlaceReplicaKeeps, ReserveKeeps, ConflictKeeps, FinishKeeps DEF Next, Planner
  <2>2. CASE UNCHANGED vars
    <3>1. \A gpu \in Gpus : Holders(gpu)' = Holders(gpu)
      BY <2>2 DEF vars, Holders
    <3>2. Books'
      BY <2>2, <3>1, BooksKept DEF vars, Unreserved
    <3>3. TypeOK' /\ Promised' /\ Refused'
      BY <2>2 DEF vars, IInv, TypeOK, Promised, Refused, GpuRecords
    <3> QED
      BY <3>2, <3>3 DEF IInv
  <2> QED
    BY <2>1, <2>2
<1> QED
  BY <1>1, <1>2, PTL DEF Spec

-----------------------------------------------------------------------------
(* Planners that race on stale snapshots of any inventory never run more on  *)
(* a device than its memory and its capabilities allow.                      *)
THEOREM MemoryIsSafe == Spec => []NeverOversubscribed
<1>1. IInv => NeverOversubscribed
  <2> SUFFICES ASSUME IInv, NEW gpu \in Gpus
               PROVE  /\ Cardinality(InUse(gpu)) <= installed[gpu].free_memory_gib
                      /\ \A r \in Holders(gpu) :
                           request[r].required_capabilities \subseteq installed[gpu].capabilities
    BY DEF NeverOversubscribed
  <2>1. /\ inventory[gpu].free_memory_gib \in Nat
        /\ Cardinality(InUse(gpu)) \in Nat
        /\ inventory[gpu].free_memory_gib + Cardinality(InUse(gpu))
             = installed[gpu].free_memory_gib
    BY InventoryType, FS_CardinalityType DEF IInv, Books, TypeOK
  <2>2. \A r \in Holders(gpu) :
          request[r].required_capabilities \subseteq installed[gpu].capabilities
    BY DEF IInv, Promised, Holders
  <2> QED
    BY <2>1, <2>2
<1> QED
  BY <1>1, Invariance, PTL

(* A group that place_replica put on one node stays on one node, whatever    *)
(* was reserved between its plan and its reservation.                        *)
THEOREM LocalityIsKept == Spec => []GroupsStayTogether
<1>1. IInv => GroupsStayTogether
  BY DEF IInv, Promised, GroupsStayTogether
<1> QED
  BY <1>1, Invariance, PTL

(* A refusal stays right for as long as no device is freer than the snapshot *)
(* it was made from, for every shape of cluster and request.                 *)
THEOREM RefusalsAreRight == Spec => []RefusalsHold
<1>1. IInv => RefusalsHold
  <2> SUFFICES ASSUME IInv, NEW r \in Replicas, outcome[r] = "refused",
                      \A gpu \in Gpus :
                        inventory[gpu].free_memory_gib <= seen[r][gpu].free_memory_gib,
                      NEW group \in SUBSET Gpus, Meets(group, request[r], inventory)
               PROVE  FALSE
    BY DEF RefusalsHold
  <2>1. /\ request[r].gpus_required > 0
        /\ GpuRecords(seen[r]) /\ GpuRecords(inventory)
        /\ Groups(request[r], seen[r]) = {} /\ TypeOK
    BY DEF IInv, Refused, TypeOK
  <2>2. \A gpu \in group : seen[r][gpu].free_memory_gib >= request[r].memory_gib_per_gpu
    <3> SUFFICES ASSUME NEW gpu \in group
                 PROVE  seen[r][gpu].free_memory_gib >= request[r].memory_gib_per_gpu
      OBVIOUS
    <3>1. /\ inventory[gpu].free_memory_gib \in Nat /\ seen[r][gpu].free_memory_gib \in Nat
          /\ request[r].memory_gib_per_gpu \in Int
      BY <2>1, InventoryType, RequestType
    <3>2. /\ inventory[gpu].free_memory_gib >= request[r].memory_gib_per_gpu
          /\ inventory[gpu].free_memory_gib <= seen[r][gpu].free_memory_gib
      BY DEF Meets
    <3> QED
      BY <3>1, <3>2
  <2>3. \A gpu \in group : /\ seen[r][gpu].node = inventory[gpu].node
                            /\ seen[r][gpu].capabilities = inventory[gpu].capabilities
    BY <2>1, InventoryType
  <2>4. Meets(group, request[r], seen[r])
    BY <2>2, <2>3 DEF Meets
  <2> QED
    BY <2>1, <2>4, NoGroupMeets
<1> QED
  BY <1>1, Invariance, PTL

-----------------------------------------------------------------------------
(* What a proposal is worth while it waits for its reservation: no group of  *)
(* the snapshot has more warm copies, and no copy has gone cold since.       *)
Warmest ==
  \A r \in Replicas : outcome[r] = "planned" =>
    /\ request[r].gpus_required > 0
    /\ GpuRecords(seen[r])
    /\ \A gpu \in Gpus : seen[r][gpu].resident_models \subseteq inventory[gpu].resident_models
    /\ \A group \in Groups(request[r], seen[r]) :
         Resident(group, request[r], seen[r]) <= Resident(gpu_ids[r], request[r], seen[r])

(* The number of warm copies in a group is a number, and it only grows.      *)
LEMMA ResidentGrows ==
  ASSUME NEW group \in SUBSET Gpus, NEW req, NEW before, NEW after,
         \A gpu \in Gpus : before[gpu].resident_models \subseteq after[gpu].resident_models
  PROVE  /\ Resident(group, req, before) \in Nat
         /\ Resident(group, req, before) <= Resident(group, req, after)
<1> DEFINE warm(inv) == {gpu \in group : req.model_revision \in inv[gpu].resident_models}
<1>1. IsFiniteSet(warm(after))
  BY InventoryAssumption, FS_Subset
<1>2. warm(before) \subseteq warm(after)
  OBVIOUS
<1>3. /\ IsFiniteSet(warm(before))
      /\ Cardinality(warm(before)) <= Cardinality(warm(after))
  <2> HIDE DEF warm
  <2> QED
    BY <1>1, <1>2, FS_Subset
<1>4. Cardinality(warm(before)) \in Nat
  BY <1>3, FS_CardinalityType
<1> QED
  BY <1>3, <1>4 DEF Resident

(* A group that meets a request is one that place_replica considered.        *)
LEMMA MeetingGroups ==
  ASSUME TypeOK, NEW r \in Replicas, NEW inv, request[r].gpus_required > 0,
         NEW group \in SUBSET Gpus, Meets(group, request[r], inv)
  PROVE  group \in Groups(request[r], inv)
<1>1. group \in kSubset(request[r].gpus_required, Eligible(request[r], inv))
  BY DEF Meets, kSubset, Eligible
<1>2. group # {}
  BY RequestType, FS_EmptySet DEF Meets
<1>3. request[r].require_same_node => Cardinality({inv[gpu].node : gpu \in group}) = 1
  BY <1>2, OneNode DEF Meets
<1> QED
  BY <1>1, <1>3 DEF Groups

(* Weights that are resident stay resident.                                  *)
LEMMA ResidencyGrows ==
  ASSUME IInv, [Next]_vars, NEW gpu \in Gpus
  PROVE  inventory[gpu].resident_models \subseteq inventory'[gpu].resident_models
<1>1. DOMAIN inventory[gpu] = {"node", "free_memory_gib", "capabilities", "resident_models"}
  BY InventoryAssumption DEF IInv, TypeOK, GpuRecords
<1>2. CASE UNCHANGED inventory
  BY <1>2
<1>3. ASSUME NEW r \in Replicas, Reserve(r)
      PROVE  inventory[gpu].resident_models \subseteq inventory'[gpu].resident_models
  <2>1. CASE gpu \in gpu_ids[r]
    <3> DEFINE taken == [inventory[gpu] EXCEPT
                           !.free_memory_gib = @ - request[r].memory_gib_per_gpu,
                           !.resident_models = @ \cup {request[r].model_revision}]
    <3>1. inventory'[gpu] = taken
      BY <1>3, <2>1 DEF Reserve
    <3>2. taken.resident_models = inventory[gpu].resident_models \cup {request[r].model_revision}
      BY <1>1
    <3> HIDE DEF taken
    <3> QED
      BY <3>1, <3>2
  <2>2. CASE gpu \notin gpu_ids[r]
    BY <1>3, <2>2 DEF Reserve
  <2> QED
    BY <2>1, <2>2
<1>4. ASSUME NEW r \in Replicas, Finish(r)
      PROVE  inventory[gpu].resident_models \subseteq inventory'[gpu].resident_models
  <2>1. CASE gpu \in gpu_ids[r]
    <3>1. inventory'[gpu] = [inventory[gpu] EXCEPT
                               !.free_memory_gib = @ + request[r].memory_gib_per_gpu]
      BY <1>4, <2>1 DEF Finish
    <3> QED
      BY <1>1, <3>1
  <2>2. CASE gpu \notin gpu_ids[r]
    BY <1>4, <2>2 DEF Finish
  <2> QED
    BY <2>1, <2>2
<1> QED
  BY <1>2, <1>3, <1>4
     DEF Next, Planner, PlaceReplica, Propose, Refuse, Raise, Plan, Conflict, vars

(* A new proposal is among the warmest of the snapshot it was made from.     *)
LEMMA ProposalIsWarmest ==
  ASSUME IInv, NEW r \in Replicas, Propose(r)
  PROVE  /\ request[r].gpus_required > 0 /\ seen'[r] = inventory
         /\ \A group \in Groups(request[r], inventory) :
              Resident(group, request[r], inventory) <= Resident(gpu_ids'[r], request[r], inventory)
<1>1. seen'[r] = inventory
  BY DEF IInv, TypeOK, Propose, Plan
<1>2. PICK best \in Best(request[r], inventory) : gpu_ids' = [gpu_ids EXCEPT ![r] = best]
  BY <1>1 DEF Propose
<1>3. gpu_ids'[r] = best
  BY <1>2 DEF IInv, TypeOK
<1>4. ASSUME NEW group \in Groups(request[r], inventory)
      PROVE  Resident(group, request[r], inventory) <= Resident(best, request[r], inventory)
  <2>1. group \in SUBSET Gpus /\ best \in SUBSET Gpus
    BY <1>2 DEF Best, Groups, kSubset, Eligible
  <2>2. /\ Resident(group, request[r], inventory) \in Nat
        /\ Resident(best, request[r], inventory) \in Nat
    BY <2>1, ResidentGrows
  <2>3. ~Ranks(group, best, request[r], inventory)
    BY <1>2 DEF Best
  <2> QED
    BY <2>2, <2>3 DEF Ranks
<1>5. request[r].gpus_required > 0
  BY DEF Propose, Valid
<1> QED
  BY <1>1, <1>3, <1>4, <1>5

LEMMA WarmestKept ==
  ASSUME IInv, Warmest, [Next]_vars
  PROVE  Warmest'
<1> SUFFICES ASSUME NEW r \in Replicas, outcome'[r] = "planned"
             PROVE  /\ request'[r].gpus_required > 0
                    /\ GpuRecords(seen[r])'
                    /\ \A gpu \in Gpus :
                         seen'[r][gpu].resident_models \subseteq inventory'[gpu].resident_models
                    /\ \A group \in Groups(request'[r], seen'[r]) :
                         Resident(group, request'[r], seen'[r])
                           <= Resident(gpu_ids'[r], request'[r], seen'[r])
  BY DEF Warmest
<1>1. request' = request /\ installed' = installed
  BY DEF Next, Planner, PlaceReplica, Propose, Refuse, Raise, Plan, Reserve, Conflict, Finish, vars
<1>2. CASE Propose(r)
  <2>1. inventory' = inventory /\ GpuRecords(inventory)
    BY <1>2 DEF IInv, TypeOK, Propose, Plan
  <2> QED
    BY <1>1, <1>2, <2>1, ProposalIsWarmest DEF GpuRecords
<1>3. CASE ~Propose(r)
  <2>1. outcome[r] = "planned" /\ seen'[r] = seen[r] /\ gpu_ids'[r] = gpu_ids[r]
    <3>1. ASSUME NEW s \in Replicas, Planner(s) \/ Finish(s)
          PROVE  outcome[r] = "planned" /\ seen'[r] = seen[r] /\ gpu_ids'[r] = gpu_ids[r]
      <4>1. s # r
        BY <1>3, <3>1 DEF IInv, TypeOK, Planner, PlaceReplica, Refuse, Raise, Plan, Reserve,
                          Conflict, Finish
      <4> QED
        BY <3>1, <4>1 DEF IInv, TypeOK, Planner, PlaceReplica, Propose, Refuse, Raise, Plan,
                          Reserve, Conflict, Finish
    <3> QED
      BY <3>1 DEF Next, vars
  <2> QED
    BY <1>1, <2>1, ResidencyGrows DEF Warmest, GpuRecords
<1> QED
  BY <1>2, <1>3

(* Warm weights are used wherever they are, for every cluster and any number *)
(* of planners: the snapshot may be stale when the replica starts, but what  *)
(* it said about resident weights can only have become an understatement.    *)
THEOREM WarmWeightsAreUsed == Spec => ColdLoadsForced
<1>1. Init => Warmest
  BY DEF Init, Warmest
<1>2. ASSUME IInv, Warmest, [Next]_vars, NEW r \in Replicas,
             outcome[r] = "planned", outcome'[r] = "running",
             NEW group \in SUBSET Gpus, Meets(group, request[r], seen[r])
      PROVE  Resident(group, request[r], seen[r]) <= Resident(gpu_ids[r], request[r], inventory)
  <2>1. /\ TypeOK /\ request[r].gpus_required > 0
        /\ gpu_ids[r] \in SUBSET Gpus
        /\ \A gpu \in Gpus : seen[r][gpu].resident_models \subseteq inventory[gpu].resident_models
    BY <1>2 DEF IInv, TypeOK, Warmest
  <2>2. Resident(group, request[r], seen[r]) <= Resident(gpu_ids[r], request[r], seen[r])
    BY <1>2, <2>1, MeetingGroups DEF Warmest
  <2>3. /\ Resident(group, request[r], seen[r]) \in Nat
        /\ Resident(gpu_ids[r], request[r], seen[r]) \in Nat
        /\ Resident(gpu_ids[r], request[r], inventory) \in Nat
        /\ Resident(gpu_ids[r], request[r], seen[r])
             <= Resident(gpu_ids[r], request[r], inventory)
    BY <2>1, ResidentGrows
  <2> QED
    BY <2>2, <2>3
<1>3. IInv /\ Warmest /\ [Next]_vars =>
        [\A r \in Replicas :
           (outcome[r] = "planned" /\ outcome'[r] = "running") =>
             \A group \in SUBSET Gpus : Meets(group, request[r], seen[r]) =>
               Resident(group, request[r], seen[r])
                 <= Resident(gpu_ids[r], request[r], inventory)]_vars
  BY <1>2
<1> QED
  BY <1>1, <1>3, WarmestKept, Invariance, PTL DEF Spec, ColdLoadsForced

====
