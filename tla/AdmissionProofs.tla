---- MODULE AdmissionProofs ----
(***************************************************************************)
(* Theorems about Admission, for every set of identifiers, every policy    *)
(* the constructor accepts and every input.                                *)
(*                                                                         *)
(* The counters agree with the table because every call changes at most    *)
(* one entry, and the lemmas say what one changed entry does to the        *)
(* recounted quantities.  The inductive invariant adds to the agreement    *)
(* that the recounted sets are finite (the identifiers need not be) and    *)
(* that the counters respect the policy, which no single call could show.  *)
(***************************************************************************)
EXTENDS Admission, FiniteSetTheorems, TLAPS

TokensOf(id) == {id} \X (1..decisions[id].reserved_tokens)

IInv ==
  /\ TypeOK
  /\ IsFiniteSet(ReservedTokens)
  /\ IsFiniteSet(IdsWith("queue"))
  /\ LiveTokensBacked
  /\ QueueSlotsBacked
  /\ live_tokens <= MaxLiveTokens
  /\ queued_requests <= MaxQueuedRequests

-----------------------------------------------------------------------------
(* What a decision can look like. *)
LEMMA DecisionShape ==
  ASSUME NEW d \in Decisions
  PROVE  /\ d.action \in {"none", "admit", "queue", "shed"}
         /\ d.action = "none"  <=> d = Absent
         /\ d.action = "queue" <=> d = Queueing
         /\ d.action = "shed"  <=> d \in Shedding
         /\ d.action = "admit" => /\ d.reserved_tokens \in 1..MaxTokensPerRequest
                                  /\ d = Admitting(d.reserved_tokens)
BY DEF Decisions, Absent, Queueing, Shedding, Admitting, Decision

(* The decisions a call can record are decisions. *)
LEMMA Recordable ==
  /\ Absent \in Decisions
  /\ Queueing \in Decisions
  /\ \A reason \in {"bound", "deadline", "full"} : Decision("shed", 0, reason) \in Decisions
  /\ \A n \in 1..MaxTokensPerRequest : Admitting(n) \in Decisions
BY DEF Decisions, Shedding

(* An interval of serial numbers under one name has as many members. *)
LEMMA TokensCount ==
  ASSUME NEW id, NEW n \in Nat
  PROVE  /\ IsFiniteSet({id} \X (1..n))
         /\ Cardinality({id} \X (1..n)) = n
<1>1. IsFiniteSet({id}) /\ Cardinality({id}) = 1
  BY FS_Singleton
<1>2. IsFiniteSet(1..n) /\ Cardinality(1..n) = n
  BY FS_Interval
<1>3. /\ IsFiniteSet({id} \X (1..n))
      /\ Cardinality({id} \X (1..n)) = Cardinality({id}) * Cardinality(1..n)
  BY <1>1, <1>2, FS_Product, Zenon
<1> QED
  BY <1>1, <1>2, <1>3

-----------------------------------------------------------------------------
(* One entry changes: what happens to the reserved tokens. *)

(* Nothing, if it was not and is not an admission. *)
LEMMA ReservedKept ==
  ASSUME TypeOK, NEW id \in Ids, NEW d \in Decisions,
         decisions' = [decisions EXCEPT ![id] = d],
         decisions[id].action # "admit", d.action # "admit"
  PROVE  ReservedTokens' = ReservedTokens
<1>1. IdsWith("admit")' = IdsWith("admit")
  BY DEF IdsWith, TypeOK
<1>2. \A i \in IdsWith("admit") : decisions'[i] = decisions[i]
  BY DEF IdsWith, TypeOK
<1> QED
  BY <1>1, <1>2 DEF ReservedTokens

(* An absent entry that becomes an admission adds its tokens. *)
LEMMA ReservedGrows ==
  ASSUME TypeOK, IsFiniteSet(ReservedTokens),
         NEW id \in Ids, NEW n \in 1..MaxTokensPerRequest,
         decisions' = [decisions EXCEPT ![id] = Admitting(n)],
         decisions[id] = Absent
  PROVE  /\ IsFiniteSet(ReservedTokens')
         /\ Cardinality(ReservedTokens') = Cardinality(ReservedTokens) + n
<1> DEFINE new == {id} \X (1..n)
<1>1. IdsWith("admit")' = IdsWith("admit") \cup {id}
  BY DEF IdsWith, TypeOK, Admitting, Decision
<1>2. id \notin IdsWith("admit")
  BY DEF IdsWith, Absent, Decision
<1>3. \A i \in IdsWith("admit") : decisions'[i] = decisions[i]
  BY <1>2 DEF IdsWith, TypeOK
<1>4. decisions'[id].reserved_tokens = n
  BY DEF TypeOK, Admitting, Decision
<1>5. ReservedTokens' = ReservedTokens \cup new
  BY <1>1, <1>3, <1>4 DEF ReservedTokens
<1>6. ReservedTokens \cap new = {}
  BY <1>2 DEF ReservedTokens
<1>7. n \in Nat
  BY PolicyAssumption
<1>8. IsFiniteSet(new) /\ Cardinality(new) = n
  BY <1>7, TokensCount
<1>9. Cardinality(ReservedTokens) \in Nat
  BY FS_CardinalityType
<1>10. /\ IsFiniteSet(ReservedTokens \cup new)
       /\ Cardinality(ReservedTokens \cup new)
            = Cardinality(ReservedTokens) + Cardinality(new) - Cardinality(ReservedTokens \cap new)
  BY <1>8, FS_Union
<1> HIDE DEF new
<1> QED
  BY <1>5, <1>6, <1>7, <1>8, <1>9, <1>10, FS_EmptySet

(* An admission that is forgotten gives back what it had reserved. *)
LEMMA ReservedShrinks ==
  ASSUME TypeOK, IsFiniteSet(ReservedTokens),
         NEW id \in Ids, decisions' = [decisions EXCEPT ![id] = Absent],
         decisions[id].action = "admit"
  PROVE  /\ IsFiniteSet(ReservedTokens')
         /\ Cardinality(ReservedTokens')
              = Cardinality(ReservedTokens) - decisions[id].reserved_tokens
<1> DEFINE n == decisions[id].reserved_tokens
           old == {id} \X (1..n)
<1>1. decisions[id] \in Decisions
  BY DEF TypeOK
<1>2. n \in Nat
  BY <1>1, DecisionShape, PolicyAssumption
<1>3. IdsWith("admit")' = IdsWith("admit") \ {id}
  BY DEF IdsWith, TypeOK, Absent, Decision
<1>4. \A i \in IdsWith("admit") \ {id} : decisions'[i] = decisions[i]
  BY DEF IdsWith, TypeOK
<1>5. id \in IdsWith("admit")
  BY DEF IdsWith
<1>6. ReservedTokens' = ReservedTokens \ old
  BY <1>3, <1>4, <1>5 DEF ReservedTokens
<1>7. ReservedTokens \cap old = old
  BY <1>5 DEF ReservedTokens
<1>8. IsFiniteSet(old) /\ Cardinality(old) = n
  BY <1>2, TokensCount
<1>9. /\ IsFiniteSet(ReservedTokens \ old)
      /\ Cardinality(ReservedTokens \ old)
           = Cardinality(ReservedTokens) - Cardinality(ReservedTokens \cap old)
  BY FS_Difference
<1> HIDE DEF old
<1> QED
  BY <1>6, <1>7, <1>8, <1>9

-----------------------------------------------------------------------------
(* One entry changes: what happens to the queued identifiers. *)

LEMMA QueueKept ==
  ASSUME TypeOK, NEW id \in Ids, NEW d \in Decisions,
         decisions' = [decisions EXCEPT ![id] = d],
         decisions[id].action # "queue", d.action # "queue"
  PROVE  IdsWith("queue")' = IdsWith("queue")
BY DEF IdsWith, TypeOK

LEMMA QueueGrows ==
  ASSUME TypeOK, IsFiniteSet(IdsWith("queue")), NEW id \in Ids,
         decisions' = [decisions EXCEPT ![id] = Queueing],
         decisions[id] = Absent
  PROVE  /\ IsFiniteSet(IdsWith("queue")')
         /\ Cardinality(IdsWith("queue")') = Cardinality(IdsWith("queue")) + 1
<1>1. IdsWith("queue")' = IdsWith("queue") \cup {id}
  BY DEF IdsWith, TypeOK, Queueing, Decision
<1>2. id \notin IdsWith("queue")
  BY DEF IdsWith, Absent, Decision
<1> QED
  BY <1>1, <1>2, FS_AddElement

LEMMA QueueShrinks ==
  ASSUME TypeOK, IsFiniteSet(IdsWith("queue")), NEW id \in Ids,
         decisions' = [decisions EXCEPT ![id] = Absent],
         decisions[id].action = "queue"
  PROVE  /\ IsFiniteSet(IdsWith("queue")')
         /\ Cardinality(IdsWith("queue")') = Cardinality(IdsWith("queue")) - 1
         /\ Cardinality(IdsWith("queue")') \in Nat
<1>1. IdsWith("queue")' = IdsWith("queue") \ {id}
  BY DEF IdsWith, TypeOK, Absent, Decision
<1>2. id \in IdsWith("queue")
  BY DEF IdsWith
<1>3. IsFiniteSet(IdsWith("queue")')
  BY <1>1, FS_RemoveElement
<1> QED
  BY <1>1, <1>2, <1>3, FS_RemoveElement, FS_CardinalityType

-----------------------------------------------------------------------------
(* The invariant is inductive. *)

LEMMA InitIInv == Init => IInv
<1> SUFFICES ASSUME Init PROVE IInv
  OBVIOUS
<1>1. TypeOK
  BY Recordable DEF Init, TypeOK, Replies
<1>2. ReservedTokens = {} /\ IdsWith("queue") = {}
  BY DEF Init, ReservedTokens, IdsWith, Absent, Decision
<1> QED
  BY <1>1, <1>2, FS_EmptySet, PolicyAssumption
     DEF Init, IInv, LiveTokensBacked, QueueSlotsBacked

(* Every request carries integers. *)
LEMMA RequestType ==
  ASSUME NEW request \in Requests
  PROVE  /\ request.identifier \in Ids
         /\ request.prompt_tokens \in Int
         /\ request.max_output_tokens \in Int
         /\ MaximumLiveTokens(request) \in Int
<1>1. /\ request.identifier \in Ids
      /\ request.prompt_tokens \in TokenCounts
      /\ request.max_output_tokens \in TokenCounts
  BY DEF Requests
<1>2. /\ request.prompt_tokens \in Int
      /\ request.max_output_tokens \in Int
  BY <1>1, InputAssumption
<1> QED
  BY <1>1, <1>2 DEF MaximumLiveTokens

(* The value recorded and returned keeps the table and the reply well typed. *)
LEMMA RecordType ==
  ASSUME TypeOK, NEW request \in Requests, NEW d \in Decisions \ {Absent},
         Record(request, d)
  PROVE  decisions' \in [Ids -> Decisions] /\ reply' \in Replies
BY RequestType DEF TypeOK, Record, Returned, Replies

(* A call that records a rejection leaves every recount as it was. *)
LEMMA RecordShed ==
  ASSUME IInv, NEW request \in Requests, ~Known(request.identifier),
         NEW reason \in {"bound", "deadline", "full"},
         Record(request, Decision("shed", 0, reason)),
         UNCHANGED <<live_tokens, queued_requests>>
  PROVE  IInv'
<1> DEFINE d == Decision("shed", 0, reason)
<1>1. /\ TypeOK
      /\ request.identifier \in Ids
      /\ decisions[request.identifier] = Absent
      /\ decisions' = [decisions EXCEPT ![request.identifier] = d]
  BY RequestType DEF IInv, Known, Record
<1>2. d \in Decisions \ {Absent} /\ d.action = "shed"
  BY Recordable DEF Decision, Absent
<1>3. decisions[request.identifier].action = "none"
  BY <1>1 DEF Absent, Decision
<1>4. TypeOK'
  BY <1>1, <1>2, RecordType DEF IInv, TypeOK
<1> HIDE DEF d
<1>5. ReservedTokens' = ReservedTokens
  BY <1>1, <1>2, <1>3, ReservedKept
<1>6. IdsWith("queue")' = IdsWith("queue")
  BY <1>1, <1>2, <1>3, QueueKept
<1> QED
  BY <1>4, <1>5, <1>6 DEF IInv, LiveTokensBacked, QueueSlotsBacked

(* A call that answers without recording anything. *)
LEMMA TableUntouched ==
  ASSUME IInv, UNCHANGED <<live_tokens, queued_requests, decisions>>, reply' \in Replies
  PROVE  IInv'
BY DEF IInv, TypeOK, LiveTokensBacked, QueueSlotsBacked, ReservedTokens, IdsWith

LEMMA DecideIInv ==
  ASSUME IInv, NEW request \in Requests, NEW now \in Times, NEW estimate \in Waits,
         Decide(request, now, estimate)
  PROVE  IInv'
<1> DEFINE id == request.identifier
           n  == MaximumLiveTokens(request)
<1>1. TypeOK /\ id \in Ids /\ n \in Int
  BY RequestType DEF IInv
<1>2. CASE Replay(request)
  <2>1. decisions[id] \in Decisions \ {Absent}
    BY <1>1, <1>2 DEF Replay, Known, TypeOK
  <2>2. reply' \in Replies
    BY <1>1, <1>2, <2>1 DEF Replay, Returned, Replies
  <2> QED
    BY <1>2, <2>2, TableUntouched DEF Replay
<1>3. CASE RejectCall(request, estimate)
  <2>1. reply' \in Replies
    BY <1>1, <1>3 DEF RejectCall, Raised, Replies
  <2> QED
    BY <1>3, <2>1, TableUntouched DEF RejectCall
<1>4. CASE ShedOversize(request, estimate)
  BY <1>4, RecordShed DEF ShedOversize, Judged
<1>5. CASE ShedLate(request, now, estimate)
  BY <1>5, RecordShed DEF ShedLate, Judged
<1>6. CASE ShedFull(request, now, estimate)
  BY <1>6, RecordShed DEF ShedFull, Schedulable, Judged
<1>7. CASE Admit(request, now, estimate)
  <2>1. /\ decisions[id] = Absent
        /\ decisions' = [decisions EXCEPT ![id] = Admitting(n)]
        /\ Record(request, Admitting(n))
    BY <1>7 DEF Admit, Schedulable, Judged, Known, Record
  <2>2. n \in 1..MaxTokensPerRequest
    BY <1>1, <1>7, PolicyAssumption
       DEF Admit, Schedulable, Judged, Valid, WithinBound
  <2>3. Admitting(n) \in Decisions \ {Absent}
    BY <2>2, Recordable DEF Admitting, Absent, Decision
  <2>4. /\ live_tokens' = live_tokens + n
        /\ live_tokens' \in Nat
        /\ live_tokens' <= MaxLiveTokens
        /\ queued_requests' = queued_requests
    BY <1>1, <1>7, <2>2 DEF Admit, Fits, TypeOK
  <2>5. TypeOK'
    BY <1>1, <2>1, <2>3, <2>4, RecordType DEF TypeOK
  <2> HIDE DEF n, id
  <2>6. IsFiniteSet(ReservedTokens) /\ IsFiniteSet(IdsWith("queue"))
    BY DEF IInv
  <2>7. /\ IsFiniteSet(ReservedTokens')
        /\ Cardinality(ReservedTokens') = Cardinality(ReservedTokens) + n
    BY <1>1, <2>1, <2>2, <2>6, ReservedGrows
  <2>8. decisions[id].action # "queue" /\ Admitting(n).action # "queue"
    BY <2>1 DEF Admitting, Absent, Decision
  <2>9. IdsWith("queue")' = IdsWith("queue")
    BY <1>1, <2>1, <2>3, <2>8, QueueKept
  <2> QED
    BY <2>4, <2>5, <2>7, <2>9 DEF IInv, LiveTokensBacked, QueueSlotsBacked
<1>8. CASE Enqueue(request, now, estimate)
  <2>1. /\ decisions[id] = Absent
        /\ decisions' = [decisions EXCEPT ![id] = Queueing]
        /\ Record(request, Queueing)
    BY <1>8 DEF Enqueue, Schedulable, Judged, Known, Record
  <2>2. Queueing \in Decisions \ {Absent} /\ Queueing.action = "queue"
    BY Recordable DEF Queueing, Absent, Decision
  <2>3. /\ queued_requests' = queued_requests + 1
        /\ queued_requests' \in Nat
        /\ queued_requests' <= MaxQueuedRequests
        /\ live_tokens' = live_tokens
    BY <1>1, <1>8, PolicyAssumption DEF Enqueue, SlotFree, TypeOK
  <2>4. TypeOK'
    BY <1>1, <2>1, <2>2, <2>3, RecordType DEF TypeOK
  <2> HIDE DEF id
  <2>5. IsFiniteSet(ReservedTokens) /\ IsFiniteSet(IdsWith("queue"))
    BY DEF IInv
  <2>6. /\ IsFiniteSet(IdsWith("queue")')
        /\ Cardinality(IdsWith("queue")') = Cardinality(IdsWith("queue")) + 1
    BY <1>1, <2>1, <2>5, QueueGrows
  <2>7. decisions[id].action # "admit" /\ Queueing.action # "admit"
    BY <2>1 DEF Queueing, Absent, Decision
  <2>8. ReservedTokens' = ReservedTokens
    BY <1>1, <2>1, <2>2, <2>7, ReservedKept
  <2> QED
    BY <2>3, <2>4, <2>6, <2>8 DEF IInv, LiveTokensBacked, QueueSlotsBacked
<1> QED
  BY <1>2, <1>3, <1>4, <1>5, <1>6, <1>7, <1>8 DEF Decide

LEMMA ReleaseIInv ==
  ASSUME IInv, NEW id \in Ids, Release(id)
  PROVE  IInv'
<1>1. /\ TypeOK
      /\ decisions[id] \in Decisions
      /\ IsFiniteSet(ReservedTokens)
      /\ IsFiniteSet(IdsWith("queue"))
  BY DEF IInv, TypeOK
<1>2. CASE ReleaseUnknown(id)
  BY <1>2, TableUntouched DEF ReleaseUnknown, Raised, Replies
<1>3. CASE ReleaseShed(id)
  BY <1>3, TableUntouched DEF ReleaseShed, Raised, Replies
<1>4. CASE ReleaseAdmitted(id)
  <2>1. /\ decisions[id].action = "admit"
        /\ decisions' = [decisions EXCEPT ![id] = Absent]
        /\ reply' \in Replies
    BY <1>4 DEF ReleaseAdmitted, Forget, Released, Replies
  <2>2. decisions[id].reserved_tokens \in Nat
    BY <1>1, <2>1, DecisionShape, PolicyAssumption
  <2>3. /\ IsFiniteSet(ReservedTokens')
        /\ Cardinality(ReservedTokens')
             = Cardinality(ReservedTokens) - decisions[id].reserved_tokens
        /\ Cardinality(ReservedTokens') \in Nat
    BY <1>1, <2>1, ReservedShrinks, FS_CardinalityType
  <2>4. /\ live_tokens' = live_tokens - decisions[id].reserved_tokens
        /\ queued_requests' = queued_requests
    BY <1>4 DEF ReleaseAdmitted
  <2>5. Absent \in Decisions /\ Absent.action = "none"
    BY Recordable DEF Absent, Decision
  <2>6. IdsWith("queue")' = IdsWith("queue")
    BY <1>1, <2>1, <2>5, QueueKept
  <2>7. live_tokens' = Cardinality(ReservedTokens') /\ live_tokens' <= MaxLiveTokens
    BY <2>2, <2>3, <2>4, PolicyAssumption DEF IInv, TypeOK, LiveTokensBacked
  <2>8. TypeOK'
    BY <1>1, <2>1, <2>3, <2>4, <2>5, <2>7 DEF TypeOK
  <2> QED
    BY <2>3, <2>4, <2>6, <2>7, <2>8 DEF IInv, LiveTokensBacked, QueueSlotsBacked
<1>5. CASE ReleaseQueued(id)
  <2>1. /\ decisions[id].action = "queue"
        /\ decisions' = [decisions EXCEPT ![id] = Absent]
        /\ reply' \in Replies
    BY <1>5 DEF ReleaseQueued, Forget, Released, Replies
  <2>2. /\ IsFiniteSet(IdsWith("queue")')
        /\ Cardinality(IdsWith("queue")') = Cardinality(IdsWith("queue")) - 1
        /\ Cardinality(IdsWith("queue")') \in Nat
    BY <1>1, <2>1, QueueShrinks
  <2>3. /\ queued_requests' = queued_requests - 1
        /\ live_tokens' = live_tokens
    BY <1>5 DEF ReleaseQueued
  <2>4. Absent \in Decisions /\ Absent.action = "none"
    BY Recordable DEF Absent, Decision
  <2>5. ReservedTokens' = ReservedTokens
    BY <1>1, <2>1, <2>4, ReservedKept
  <2>6. queued_requests' = Cardinality(IdsWith("queue")') /\ queued_requests' <= MaxQueuedRequests
    BY <2>2, <2>3, PolicyAssumption DEF IInv, TypeOK, QueueSlotsBacked
  <2>7. TypeOK'
    BY <1>1, <2>1, <2>2, <2>3, <2>4, <2>6 DEF TypeOK
  <2> QED
    BY <2>2, <2>3, <2>5, <2>6, <2>7 DEF IInv, LiveTokensBacked, QueueSlotsBacked
<1> QED
  BY <1>2, <1>3, <1>4, <1>5 DEF Release

LEMMA NextIInv == IInv /\ [Next]_vars => IInv'
<1> SUFFICES ASSUME IInv, [Next]_vars PROVE IInv'
  OBVIOUS
<1>1. CASE Next
  <2>1. CASE \E request \in Requests, now \in Times, estimate \in Waits :
               Decide(request, now, estimate)
    BY <2>1, DecideIInv
  <2>2. CASE \E id \in Ids : Release(id)
    BY <2>2, ReleaseIInv
  <2> QED
    BY <1>1, <2>1, <2>2 DEF Next
<1>2. CASE UNCHANGED vars
  <2>1. reply' \in Replies
    BY <1>2 DEF vars, IInv, TypeOK, Replies, Decisions
  <2> QED
    BY <1>2, <2>1, TableUntouched DEF vars
<1> QED
  BY <1>1, <1>2

THEOREM Invariance == Spec => []IInv
BY InitIInv, NextIInv, PTL DEF Spec

-----------------------------------------------------------------------------
(* Every variable of the controller keeps its type under every sequence of   *)
(* calls of decide() and release().                                          *)
THEOREM TypeCorrect == Spec => []TypeOK
<1>1. IInv => TypeOK
  BY DEF IInv
<1> QED
  BY <1>1, Invariance, PTL

(* The running counters of admission.py always equal a recount of the table. *)
THEOREM CountersBacked == Spec => []CountersMatchTable
<1>1. IInv => CountersMatchTable
  BY DEF IInv, CountersMatchTable
<1> QED
  BY <1>1, Invariance, PTL

(* The reservations and queue slots granted by decide() and not yet released *)
(* never exceed the policy, whatever the policy and the requests are.        *)
THEOREM PolicyRespected == Spec => []WithinPolicy
<1>1. IInv => WithinPolicy
  BY DEF IInv, WithinPolicy, LiveTokensBacked, QueueSlotsBacked
<1> QED
  BY <1>1, Invariance, PTL

-----------------------------------------------------------------------------
(* What a step may never do. *)

(* A step leaves the table alone, fills one absent entry, or forgets one     *)
(* entry that held something.                                                *)
LEMMA OneEntry ==
  ASSUME IInv, Next
  PROVE  \/ UNCHANGED decisions
         \/ \E id \in Ids : \E d \in Decisions \ {Absent} :
              /\ decisions[id] = Absent
              /\ decisions' = [decisions EXCEPT ![id] = d]
         \/ \E id \in Ids : decisions[id].action \in {"admit", "queue"} /\ Forget(id)
<1>1. ASSUME NEW request \in Requests, NEW now \in Times, NEW estimate \in Waits,
             Decide(request, now, estimate)
      PROVE  \/ UNCHANGED decisions
             \/ \E id \in Ids : \E d \in Decisions \ {Absent} :
                  /\ decisions[id] = Absent
                  /\ decisions' = [decisions EXCEPT ![id] = d]
  <2>1. request.identifier \in Ids /\ MaximumLiveTokens(request) \in Int
    BY RequestType
  <2>2. CASE Replay(request) \/ RejectCall(request, estimate)
    BY <2>2 DEF Replay, RejectCall
  <2>3. CASE \/ ShedOversize(request, estimate)
             \/ ShedLate(request, now, estimate)
             \/ ShedFull(request, now, estimate)
    <3>1. PICK reason \in {"bound", "deadline", "full"} :
            /\ decisions[request.identifier] = Absent
            /\ decisions' = [decisions EXCEPT ![request.identifier] = Decision("shed", 0, reason)]
      BY <2>3 DEF ShedOversize, ShedLate, ShedFull, Schedulable, Judged, Known, Record
    <3>2. Decision("shed", 0, reason) \in Decisions \ {Absent}
      BY Recordable DEF Decision, Absent
    <3> QED
      BY <2>1, <3>1, <3>2
  <2>4. CASE Admit(request, now, estimate)
    <3>1. /\ decisions[request.identifier] = Absent
          /\ decisions' = [decisions EXCEPT ![request.identifier]
                                        = Admitting(MaximumLiveTokens(request))]
          /\ MaximumLiveTokens(request) \in 1..MaxTokensPerRequest
      BY <2>1, <2>4, PolicyAssumption
         DEF Admit, Schedulable, Judged, Valid, WithinBound, Known, Record
    <3>2. Admitting(MaximumLiveTokens(request)) \in Decisions \ {Absent}
      BY <3>1, Recordable DEF Admitting, Decision, Absent
    <3> QED
      BY <2>1, <3>1, <3>2
  <2>5. CASE Enqueue(request, now, estimate)
    <3>1. /\ decisions[request.identifier] = Absent
          /\ decisions' = [decisions EXCEPT ![request.identifier] = Queueing]
      BY <2>5 DEF Enqueue, Schedulable, Judged, Known, Record
    <3>2. Queueing \in Decisions \ {Absent}
      BY Recordable DEF Queueing, Decision, Absent
    <3> QED
      BY <2>1, <3>1, <3>2
  <2> QED
    BY <1>1, <2>2, <2>3, <2>4, <2>5 DEF Decide
<1>2. ASSUME NEW id \in Ids, Release(id)
      PROVE  \/ UNCHANGED decisions
             \/ decisions[id].action \in {"admit", "queue"} /\ Forget(id)
  BY <1>2 DEF Release, ReleaseUnknown, ReleaseShed, ReleaseAdmitted, ReleaseQueued
<1> QED
  BY <1>1, <1>2 DEF Next

(* A request once shed is shed for good: no sequence of retries and releases *)
(* lets it be judged again.                                                  *)
THEOREM ShedIsPermanent == Spec => ShedPermanent
<1> DEFINE Kept == \A id \in Ids : decisions[id] \in Shedding => decisions'[id] = decisions[id]
<1>1. IInv /\ [Next]_vars => [Kept]_vars
  <2> SUFFICES ASSUME IInv, Next, NEW id \in Ids, decisions[id] \in Shedding
               PROVE  decisions'[id] = decisions[id]
    BY DEF vars
  <2>1. decisions[id].action = "shed" /\ decisions[id] # Absent
    BY DEF Shedding, Decision, Absent
  <2> QED
    BY <2>1, OneEntry DEF IInv, TypeOK, Forget
<1> QED
  BY <1>1, Invariance, PTL DEF Spec, ShedPermanent

(* A decision outlives every call except the release of its own identifier,  *)
(* and that release touches no other entry.                                  *)
THEOREM DecisionsAreSticky == Spec => DecisionsStick
<1> DEFINE Stuck == \A id \in Ids :
                      (Known(id) /\ decisions'[id] # decisions[id]) =>
                         /\ reply' = Released(id)
                         /\ decisions' = [decisions EXCEPT ![id] = Absent]
<1>1. IInv /\ [Next]_vars => [Stuck]_vars
  <2> SUFFICES ASSUME IInv, Next, NEW id \in Ids, Known(id), decisions'[id] # decisions[id]
               PROVE  reply' = Released(id) /\ decisions' = [decisions EXCEPT ![id] = Absent]
    BY DEF vars
  <2>1. decisions[id] # Absent /\ decisions \in [Ids -> Decisions]
    BY DEF Known, IInv, TypeOK
  <2>2. PICK other \in Ids : Forget(other)
    BY <2>1, OneEntry
  <2>3. other = id
    BY <2>1, <2>2 DEF Forget
  <2> QED
    BY <2>2, <2>3 DEF Forget
<1> QED
  BY <1>1, Invariance, PTL DEF Spec, DecisionsStick

(* A request is queued, or shed for want of room, only if its footprint does *)
(* not fit beside the reservations in the table.                             *)
THEOREM RoomIsUsed == Spec => NoRoomWasted
<1> DEFINE Used == \A id \in Ids :
                     (~Known(id) /\ decisions'[id].reason \in {"queued", "full"}) =>
                        Cardinality(ReservedTokens) + reply'.asked > MaxLiveTokens
<1>1. IInv /\ [Next]_vars => [Used]_vars
  <2> SUFFICES ASSUME IInv, Next, NEW id \in Ids, ~Known(id),
                      decisions'[id].reason \in {"queued", "full"}
               PROVE  Cardinality(ReservedTokens) + reply'.asked > MaxLiveTokens
    BY DEF vars
  <2>1. /\ decisions \in [Ids -> Decisions]
        /\ decisions[id] = Absent
        /\ live_tokens \in Int
        /\ live_tokens = Cardinality(ReservedTokens)
    BY DEF IInv, TypeOK, Known, LiveTokensBacked
  <2>2. decisions'[id] # decisions[id]
    BY <2>1 DEF Absent, Decision
  <2>3. ASSUME NEW request \in Requests, NEW now \in Times, NEW estimate \in Waits,
               Decide(request, now, estimate)
        PROVE  ~Fits(request) /\ reply'.asked = MaximumLiveTokens(request)
    <3>1. CASE Replay(request) \/ RejectCall(request, estimate)
      BY <2>2, <3>1 DEF Replay, RejectCall
    <3>2. CASE ShedOversize(request, estimate)
      BY <2>1, <2>2, <3>2 DEF ShedOversize, Record, Decision
    <3>3. CASE ShedLate(request, now, estimate)
      BY <2>1, <2>2, <3>3 DEF ShedLate, Record, Decision
    <3>4. CASE Admit(request, now, estimate)
      BY <2>1, <2>2, <3>4 DEF Admit, Record, Admitting, Decision
    <3>5. CASE Enqueue(request, now, estimate) \/ ShedFull(request, now, estimate)
      BY <3>5 DEF Enqueue, ShedFull, Record, Returned
    <3> QED
      BY <2>3, <3>1, <3>2, <3>3, <3>4, <3>5 DEF Decide
  <2>4. ASSUME NEW other \in Ids, Release(other) PROVE FALSE
    BY <2>1, <2>2, <2>4
       DEF Release, ReleaseUnknown, ReleaseShed, ReleaseAdmitted, ReleaseQueued, Forget
  <2>5. PICK request \in Requests : ~Fits(request) /\ reply'.asked = MaximumLiveTokens(request)
    BY <2>3, <2>4 DEF Next
  <2> QED
    BY <2>1, <2>5, RequestType, PolicyAssumption DEF Fits
<1> QED
  BY <1>1, Invariance, PTL DEF Spec, NoRoomWasted

-----------------------------------------------------------------------------
(* The controller implements the ledger. *)

(* The decisions, read as entries of the ledger's book. *)
LEMMA EntryShape ==
  /\ EntryOf(Absent) = Ledger!Open
  /\ EntryOf(Queueing) = Ledger!Waiting
  /\ \A d \in Shedding : EntryOf(d) = Ledger!Refused
  /\ \A n : EntryOf(Admitting(n)) = Ledger!Holding(n)
BY DEF EntryOf, StateName, Absent, Queueing, Shedding, Admitting, Decision,
       Ledger!Open, Ledger!Waiting, Ledger!Refused, Ledger!Holding

LEMMA BookShape ==
  ASSUME TypeOK, NEW id \in Ids
  PROVE  /\ Book[id] = EntryOf(decisions[id])
         /\ Book[id].state = "holding" <=> decisions[id].action = "admit"
         /\ Book[id].tokens = decisions[id].reserved_tokens
         /\ Book[id] = Ledger!Open <=> decisions[id] = Absent
         /\ Book[id] = Ledger!Waiting <=> decisions[id].action = "queue"
         /\ Book[id] = Ledger!Refused <=> decisions[id].action = "shed"
<1>1. decisions[id] \in Decisions
  BY DEF TypeOK
<1>2. Book[id] = EntryOf(decisions[id])
  BY DEF Book
<1>3. CASE decisions[id] = Absent \/ decisions[id] = Queueing
  BY <1>2, <1>3 DEF EntryOf, StateName, Absent, Queueing, Decision,
                    Ledger!Open, Ledger!Waiting, Ledger!Refused
<1>4. CASE decisions[id] \in Shedding
  BY <1>2, <1>4 DEF EntryOf, StateName, Absent, Shedding, Decision,
                    Ledger!Open, Ledger!Waiting, Ledger!Refused
<1>5. CASE decisions[id].action = "admit"
  BY <1>2, <1>5 DEF EntryOf, StateName, Absent, Decision,
                    Ledger!Open, Ledger!Waiting, Ledger!Refused
<1> QED
  BY <1>1, <1>3, <1>4, <1>5, DecisionShape

(* The ledger counts with the same function. *)
LEMMA SameCount == \A S : Ledger!Cardinality(S) = Cardinality(S)
BY DEF Cardinality, Ledger!Cardinality

(* The ledger's recounts are the recounts of the table. *)
LEMMA Recounts ==
  ASSUME TypeOK
  PROVE  /\ Ledger!HeldTokens = ReservedTokens
         /\ Ledger!WaitingIds = IdsWith("queue")
<1>1. {i \in Ids : Book[i].state = "holding"} = IdsWith("admit")
  BY BookShape DEF IdsWith
<1>2. \A id \in Ids : Book[id].tokens = decisions[id].reserved_tokens
  BY BookShape
<1>3. Ledger!HeldTokens = ReservedTokens
  BY <1>1, <1>2 DEF Ledger!HeldTokens, ReservedTokens, IdsWith
<1>4. Ledger!WaitingIds = IdsWith("queue")
  BY BookShape DEF Ledger!WaitingIds, IdsWith
<1> QED
  BY <1>3, <1>4

LEMMA LedgerRecord ==
  ASSUME TypeOK, NEW request \in Requests, NEW d \in Decisions,
         ~Known(request.identifier), Record(request, d)
  PROVE  Ledger!Record(request.identifier, EntryOf(d))
<1> DEFINE id == request.identifier
<1>1. id \in Ids
  BY RequestType
<1>2. Book[id] = Ledger!Open
  BY <1>1, BookShape DEF Known
<1>3. decisions' = [decisions EXCEPT ![id] = d] /\ decisions \in [Ids -> Decisions]
  BY DEF Record, TypeOK
<1>4. Book' = [Book EXCEPT ![id] = EntryOf(d)]
  BY <1>1, <1>3 DEF Book
<1>5. Book'[id] = EntryOf(d)
  BY <1>1, <1>4 DEF Book
<1>6. Answer' = [told |-> "entry", id |-> id, entry |-> EntryOf(d)]
  BY DEF Record, Returned, Answer
<1> QED
  BY <1>2, <1>4, <1>5, <1>6 DEF Ledger!Record, Ledger!Told

LEMMA DecideRefines ==
  ASSUME IInv, NEW request \in Requests, NEW now \in Times, NEW estimate \in Waits,
         Decide(request, now, estimate)
  PROVE  Ledger!Next
<1> DEFINE id == request.identifier
           n  == MaximumLiveTokens(request)
<1>1. TypeOK /\ id \in Ids /\ n \in Int
  BY RequestType DEF IInv
<1>2. /\ Ledger!HeldTokens = ReservedTokens
      /\ Ledger!WaitingIds = IdsWith("queue")
  BY <1>1, Recounts
<1>3. CASE Replay(request)
  <2>1. Book[id] # Ledger!Open
    BY <1>1, <1>3, BookShape DEF Replay, Known
  <2>2. Book' = Book
    BY <1>3 DEF Replay, Book
  <2>3. Answer' = [told |-> "entry", id |-> id, entry |-> EntryOf(decisions[id])]
    BY <1>3 DEF Replay, Returned, Answer
  <2>4. Book'[id] = EntryOf(decisions[id])
    BY <1>1, <2>2, BookShape
  <2>5. Ledger!Repeat(id)
    BY <2>1, <2>2, <2>3, <2>4 DEF Ledger!Repeat, Ledger!Told
  <2> QED
    BY <1>1, <2>5 DEF Ledger!Next
<1>4. CASE RejectCall(request, estimate)
  <2>1. Book[id] = Ledger!Open
    BY <1>1, <1>4, BookShape DEF RejectCall, Known
  <2>2. Book' = Book /\ Answer' = [told |-> "error", id |-> id]
    BY <1>4 DEF RejectCall, Raised, Answer, Book
  <2>3. Ledger!Fail(id)
    BY <2>1, <2>2 DEF Ledger!Fail, Ledger!Failed
  <2> QED
    BY <1>1, <2>3 DEF Ledger!Next
<1>5. CASE \/ ShedOversize(request, estimate)
           \/ ShedLate(request, now, estimate)
           \/ ShedFull(request, now, estimate)
  <2>1. PICK reason \in {"bound", "deadline", "full"} :
          ~Known(id) /\ Record(request, Decision("shed", 0, reason))
    BY <1>5 DEF ShedOversize, ShedLate, ShedFull, Schedulable, Judged
  <2>2. Decision("shed", 0, reason) \in Shedding
    BY DEF Shedding
  <2>3. Ledger!Record(id, EntryOf(Decision("shed", 0, reason)))
    BY <1>1, <2>1, Recordable, LedgerRecord
  <2>4. Ledger!Refuse(id)
    BY <2>2, <2>3, EntryShape DEF Ledger!Refuse
  <2> QED
    BY <1>1, <2>4 DEF Ledger!Next
<1>6. CASE Admit(request, now, estimate)
  <2>1. n \in 1..MaxTokensPerRequest
    BY <1>1, <1>6, PolicyAssumption
       DEF Admit, Schedulable, Judged, Valid, WithinBound
  <2>2. ~Known(id) /\ Record(request, Admitting(n))
    BY <1>6 DEF Admit, Schedulable, Judged
  <2>3. Ledger!Record(id, Ledger!Holding(n))
    BY <1>1, <2>1, <2>2, Recordable, LedgerRecord, EntryShape
  <2>4. Ledger!Fits(n)
    BY <1>2, <1>6, SameCount DEF Admit, Fits, Ledger!Fits, IInv, LiveTokensBacked
  <2>5. Ledger!Grant(id, n)
    BY <2>1, <2>3, <2>4 DEF Ledger!Grant
  <2> QED
    BY <1>1, <2>1, <2>5 DEF Ledger!Next
<1>7. CASE Enqueue(request, now, estimate)
  <2>1. n \in 1..MaxTokensPerRequest
    BY <1>1, <1>7, PolicyAssumption
       DEF Enqueue, Schedulable, Judged, Valid, WithinBound
  <2>2. ~Known(id) /\ Record(request, Queueing)
    BY <1>7 DEF Enqueue, Schedulable, Judged
  <2>3. Ledger!Record(id, Ledger!Waiting)
    BY <1>1, <2>2, Recordable, LedgerRecord, EntryShape
  <2>4. ~Ledger!Fits(n)
    BY <1>2, <1>7, SameCount DEF Enqueue, Fits, Ledger!Fits, IInv, LiveTokensBacked
  <2>5. Cardinality(Ledger!WaitingIds) < MaxQueuedRequests
    BY <1>2, <1>7 DEF Enqueue, SlotFree, IInv, QueueSlotsBacked
  <2>6. Ledger!Park(id, n)
    BY <2>1, <2>3, <2>4, <2>5, SameCount DEF Ledger!Park
  <2> QED
    BY <1>1, <2>1, <2>6 DEF Ledger!Next
<1> QED
  BY <1>3, <1>4, <1>5, <1>6, <1>7 DEF Decide

LEMMA ReleaseRefines ==
  ASSUME IInv, NEW id \in Ids, Release(id)
  PROVE  Ledger!Next
<1>1. TypeOK
  BY DEF IInv
<1>2. CASE ReleaseUnknown(id) \/ ReleaseShed(id)
  <2>1. Book[id] \in {Ledger!Open, Ledger!Refused}
    BY <1>1, <1>2, BookShape DEF ReleaseUnknown, ReleaseShed, Known
  <2>2. Book' = Book /\ Answer' = [told |-> "error", id |-> id]
    BY <1>2 DEF ReleaseUnknown, ReleaseShed, Raised, Answer, Book
  <2>3. Ledger!Fail(id)
    BY <2>1, <2>2 DEF Ledger!Fail, Ledger!Failed
  <2> QED
    BY <2>3 DEF Ledger!Next
<1>3. CASE ReleaseAdmitted(id) \/ ReleaseQueued(id)
  <2>1. decisions[id].action \in {"admit", "queue"} /\ Forget(id)
    BY <1>3 DEF ReleaseAdmitted, ReleaseQueued
  <2>2. decisions[id] # Absent
    BY <2>1 DEF Absent, Decision
  <2>3. Book[id] \notin {Ledger!Open, Ledger!Refused}
    BY <1>1, <2>1, <2>2, BookShape
  <2>4. Book' = [Book EXCEPT ![id] = EntryOf(Absent)]
    BY <1>1, <2>1 DEF Forget, Book, TypeOK
  <2>5. Answer' = [told |-> "settled", id |-> id]
    BY <2>1 DEF Forget, Released, Answer
  <2>6. Ledger!Settle(id)
    BY <2>3, <2>4, <2>5, EntryShape DEF Ledger!Settle, Ledger!Settled
  <2> QED
    BY <2>6 DEF Ledger!Next
<1> QED
  BY <1>2, <1>3 DEF Release

(* Every behaviour of the controller, its replies included, is a behaviour   *)
(* of the ledger that recounts instead of keeping counters.                  *)
THEOREM Refinement == Spec => ImplementsLedger
<1>1. Init => Ledger!Init
  <2> SUFFICES ASSUME Init PROVE Ledger!Init
    OBVIOUS
  <2>1. Book = [id \in Ids |-> Ledger!Open]
    BY EntryShape DEF Init, Book
  <2>2. Answer = Ledger!Nothing
    BY DEF Init, NoReply, Answer, Ledger!Nothing
  <2> QED
    BY <2>1, <2>2 DEF Ledger!Init
<1>2. IInv /\ [Next]_vars => [Ledger!Next]_(Ledger!vars)
  <2> SUFFICES ASSUME IInv, [Next]_vars PROVE [Ledger!Next]_(Ledger!vars)
    OBVIOUS
  <2>1. CASE \E request \in Requests, now \in Times, estimate \in Waits :
               Decide(request, now, estimate)
    BY <2>1, DecideRefines
  <2>2. CASE \E id \in Ids : Release(id)
    BY <2>2, ReleaseRefines
  <2>3. CASE UNCHANGED vars
    BY <2>3 DEF vars, Ledger!vars, Book, Answer
  <2> QED
    BY <2>1, <2>2, <2>3 DEF Next
<1> QED
  BY <1>1, <1>2, Invariance, PTL DEF Spec, ImplementsLedger, Ledger!Spec

====
