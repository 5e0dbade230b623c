---- MODULE Admission ----
(***************************************************************************)
(* AdmissionController of src/inference_platform/admission.py: one action  *)
(* per way a call of decide() or release() can end.  The program runs one  *)
(* call at a time, so a call is one step.                                  *)
(*                                                                         *)
(* The table _decisions is a total function with the value Absent for a    *)
(* missing key.  Reason texts are abbreviated to the boundary they name.   *)
(* Times and token counts are integers; the code compares floats.          *)
(***************************************************************************)
EXTENDS Integers, FiniteSets

CONSTANTS
  Ids,                  \* request identifiers
  BlankIds,             \* those that are blank once stripped
  MaxLiveTokens,        \* AdmissionPolicy.max_live_tokens
  MaxQueuedRequests,    \* AdmissionPolicy.max_queued_requests
  MaxTokensPerRequest,  \* AdmissionPolicy.max_tokens_per_request
  TokenCounts,          \* token counts a request may carry
  Times,                \* clock readings and deadlines
  Waits                 \* queue estimates

(* The constructor raises for any other policy. *)
ASSUME PolicyAssumption ==
  /\ MaxLiveTokens \in Nat \ {0}
  /\ MaxTokensPerRequest \in Nat \ {0}
  /\ MaxQueuedRequests \in Nat

ASSUME InputAssumption ==
  /\ BlankIds \subseteq Ids
  /\ TokenCounts \subseteq Int
  /\ Times \subseteq Int
  /\ Waits \subseteq Int

VARIABLES
  live_tokens,      \* self.live_tokens
  queued_requests,  \* self.queued_requests
  decisions,        \* self._decisions
  reply             \* how the last call ended, as its caller sees it

vars == <<live_tokens, queued_requests, decisions, reply>>

-----------------------------------------------------------------------------
(* Requests and decisions *)

Requests ==
  [identifier : Ids, prompt_tokens : TokenCounts,
   max_output_tokens : TokenCounts, deadline_at : Times]

MaximumLiveTokens(request) == request.prompt_tokens + request.max_output_tokens

Decision(action, reserved, reason) ==
  [action |-> action, reserved_tokens |-> reserved, reason |-> reason]

Absent == Decision("none", 0, "none")

Admitting(n) == Decision("admit", n, "fits")
Queueing     == Decision("queue", 0, "queued")
Shedding     == {Decision("shed", 0, reason) : reason \in {"bound", "deadline", "full"}}

Decisions == {Absent, Queueing} \cup Shedding
               \cup {Admitting(n) : n \in 1..MaxTokensPerRequest}

Known(id) == decisions[id] # Absent

IdsWith(action) == {id \in Ids : decisions[id].action = action}

-----------------------------------------------------------------------------
(* What the call returns or raises.  "asked" is the footprint the caller    *)
(* named in this call, which a replay does not look at.                     *)

NoReply == [call |-> "none"]

Returned(request, decision) ==
  [call |-> "decide", identifier |-> request.identifier,
   asked |-> MaximumLiveTokens(request), decision |-> decision]

Raised(id, error) == [call |-> "error", identifier |-> id, error |-> error]

Released(id) == [call |-> "release", identifier |-> id]

-----------------------------------------------------------------------------
(* decide() *)

(* The four validation errors, in one guard: each raises ValueError. *)
Valid(request, estimate) ==
  /\ request.identifier \notin BlankIds
  /\ request.prompt_tokens >= 0
  /\ request.max_output_tokens >= 0
  /\ MaximumLiveTokens(request) > 0
  /\ estimate >= 0

(* Mutated form: compares only the prompt with the bound. *)
PromptWithinBound(request) == request.prompt_tokens <= MaxTokensPerRequest

WithinBound(request) == MaximumLiveTokens(request) <= MaxTokensPerRequest

OnTime(request, now, estimate) == now + estimate <= request.deadline_at

(* Mutated form: compares against the free budget with < instead of <=. *)
FitsStrictly(request) == live_tokens + MaximumLiveTokens(request) < MaxLiveTokens

(* Mutated form: forgets the request's own footprint. *)
FitsWithoutItself(request) == live_tokens <= MaxLiveTokens

Fits(request) == live_tokens + MaximumLiveTokens(request) <= MaxLiveTokens

(* Mutated form: the bound counts one slot too many. *)
SlotFreeOffByOne == queued_requests <= MaxQueuedRequests

SlotFree == queued_requests < MaxQueuedRequests

(* Line 122: whatever was decided is recorded and returned. *)
Record(request, decision) ==
  /\ decisions' = [decisions EXCEPT ![request.identifier] = decision]
  /\ reply' = Returned(request, decision)

(* Mutated form: the replay is judged again when it had been shed. *)
ReplayRejudgesShed(request) ==
  /\ Known(request.identifier)
  /\ LET decision == IF decisions[request.identifier] \in Shedding /\ SlotFree
                       THEN Queueing ELSE decisions[request.identifier]
     IN  /\ decisions' = [decisions EXCEPT ![request.identifier] = decision]
         /\ reply' = Returned(request, decision)
         /\ queued_requests' = Cardinality({id \in Ids : decisions'[id] = Queueing})
  /\ UNCHANGED live_tokens

(* Mutated form: a retry of an admitted request resizes its reservation. *)
ReplayResizes(request) ==
  /\ Known(request.identifier)
  /\ LET held == decisions[request.identifier].reserved_tokens
         resized == IF held > 0 /\ MaximumLiveTokens(request) \in 1..held
                      THEN Admitting(MaximumLiveTokens(request))
                      ELSE decisions[request.identifier]
     IN  /\ decisions' = [decisions EXCEPT ![request.identifier] = resized]
         /\ live_tokens' = live_tokens - held + resized.reserved_tokens
         /\ reply' = Returned(request, resized)
  /\ UNCHANGED queued_requests

(* A known identifier is answered from the table, before anything else. *)
Replay(request) ==
  /\ Known(request.identifier)
  /\ reply' = Returned(request, decisions[request.identifier])
  /\ UNCHANGED <<live_tokens, queued_requests, decisions>>

RejectCall(request, estimate) ==
  /\ ~Known(request.identifier)
  /\ ~Valid(request, estimate)
  /\ reply' = Raised(request.identifier, "ValueError")
  /\ UNCHANGED <<live_tokens, queued_requests, decisions>>

(* A new, well formed request. *)
Judged(request, estimate) ==
  /\ ~Known(request.identifier)
  /\ Valid(request, estimate)

ShedOversize(request, estimate) ==
  /\ Judged(request, estimate)
  /\ ~WithinBound(request)
  /\ Record(request, Decision("shed", 0, "bound"))
  /\ UNCHANGED <<live_tokens, queued_requests>>

ShedLate(request, now, estimate) ==
  /\ Judged(request, estimate)
  /\ WithinBound(request)
  /\ ~OnTime(request, now, estimate)
  /\ Record(request, Decision("shed", 0, "deadline"))
  /\ UNCHANGED <<live_tokens, queued_requests>>

(* A request that passed the bound and the deadline. *)
Schedulable(request, now, estimate) ==
  /\ Judged(request, estimate)
  /\ WithinBound(request)
  /\ OnTime(request, now, estimate)

Admit(request, now, estimate) ==
  /\ Schedulable(request, now, estimate)
  /\ Fits(request)
  /\ live_tokens' = live_tokens + MaximumLiveTokens(request)
  /\ Record(request, Admitting(MaximumLiveTokens(request)))
  /\ UNCHANGED queued_requests

Enqueue(request, now, estimate) ==
  /\ Schedulable(request, now, estimate)
  /\ ~Fits(request)
  /\ SlotFree
  /\ queued_requests' = queued_requests + 1
  /\ Record(request, Queueing)
  /\ UNCHANGED live_tokens

ShedFull(request, now, estimate) ==
  /\ Schedulable(request, now, estimate)
  /\ ~Fits(request)
  /\ ~SlotFree
  /\ Record(request, Decision("shed", 0, "full"))
  /\ UNCHANGED <<live_tokens, queued_requests>>

Decide(request, now, estimate) ==
  \/ Replay(request)
  \/ RejectCall(request, estimate)
  \/ ShedOversize(request, estimate)
  \/ ShedLate(request, now, estimate)
  \/ Admit(request, now, estimate)
  \/ Enqueue(request, now, estimate)
  \/ ShedFull(request, now, estimate)

-----------------------------------------------------------------------------
(* release() *)

ReleaseUnknown(id) ==
  /\ ~Known(id)
  /\ reply' = Raised(id, "KeyError")
  /\ UNCHANGED <<live_tokens, queued_requests, decisions>>

ReleaseShed(id) ==
  /\ decisions[id].action = "shed"
  /\ reply' = Raised(id, "ValueError")
  /\ UNCHANGED <<live_tokens, queued_requests, decisions>>

Forget(id) ==
  /\ decisions' = [decisions EXCEPT ![id] = Absent]
  /\ reply' = Released(id)

ReleaseAdmitted(id) ==
  /\ decisions[id].action = "admit"
  /\ Forget(id)
  /\ live_tokens' = live_tokens - decisions[id].reserved_tokens
  /\ UNCHANGED queued_requests

(* Mutated form: the slot is never given back. *)
ReleaseQueuedKeepsSlot(id) ==
  /\ decisions[id].action = "queue"
  /\ Forget(id)
  /\ UNCHANGED <<live_tokens, queued_requests>>

ReleaseQueued(id) ==
  /\ decisions[id].action = "queue"
  /\ Forget(id)
  /\ queued_requests' = queued_requests - 1
  /\ UNCHANGED live_tokens

Release(id) ==
  \/ ReleaseUnknown(id)
  \/ ReleaseShed(id)
  \/ ReleaseAdmitted(id)
  \/ ReleaseQueued(id)

-----------------------------------------------------------------------------
Init ==
  /\ live_tokens = 0
  /\ queued_requests = 0
  /\ decisions = [id \in Ids |-> Absent]
  /\ reply = NoReply

Next ==
  \/ \E request \in Requests, now \in Times, estimate \in Waits :
       Decide(request, now, estimate)
  \/ \E id \in Ids : Release(id)

Spec == Init /\ [][Next]_vars

-----------------------------------------------------------------------------
(* Safety *)

Replies ==
  {NoReply}
    \cup [call : {"decide"}, identifier : Ids, asked : Int, decision : Decisions \ {Absent}]
    \cup [call : {"error"}, identifier : Ids, error : {"ValueError", "KeyError"}]
    \cup [call : {"release"}, identifier : Ids]

(* Every variable has its type; in particular no recorded reservation is     *)
(* larger than the per-request bound, and no counter goes negative.          *)
TypeOK ==
  /\ live_tokens \in Nat
  /\ queued_requests \in Nat
  /\ decisions \in [Ids -> Decisions]
  /\ reply \in Replies

(* The tokens promised to admitted requests, each named by its holder.       *)
ReservedTokens ==
  UNION {{id} \X (1..decisions[id].reserved_tokens) : id \in IdsWith("admit")}

LiveTokensBacked == live_tokens = Cardinality(ReservedTokens)

QueueSlotsBacked == queued_requests = Cardinality(IdsWith("queue"))

(* Both counters are running sums kept by decide() and release(); they must  *)
(* equal what the table holds after any sequence of calls: replays, failed   *)
(* calls, releases out of order and identifiers used again.                  *)
CountersMatchTable == LiveTokensBacked /\ QueueSlotsBacked

(* What is promised never exceeds the policy, recounted from the table and   *)
(* not from the counters the admission test reads.                           *)
WithinPolicy ==
  /\ Cardinality(ReservedTokens) <= MaxLiveTokens
  /\ Cardinality(IdsWith("queue")) <= MaxQueuedRequests

(* A rejection is permanent (docstrings of decide and release): once a       *)
(* request was shed no later call, retry or release changes its entry.       *)
ShedPermanent ==
  [][\A id \in Ids : decisions[id] \in Shedding => decisions'[id] = decisions[id]]_vars

(* A decision given to a caller stays what it was until a release of that    *)
(* very identifier succeeds; nothing else is disturbed by that release.      *)
DecisionsStick ==
  [][\A id \in Ids :
       (Known(id) /\ decisions'[id] # decisions[id]) =>
          /\ reply' = Released(id)
          /\ decisions' = [decisions EXCEPT ![id] = Absent]]_vars

(* Nobody is queued, or shed for lack of room, while the request would have  *)
(* fitted beside the reservations that are really in the table.              *)
NoRoomWasted ==
  [][\A id \in Ids :
       (~Known(id) /\ decisions'[id].reason \in {"queued", "full"}) =>
          Cardinality(ReservedTokens) + reply'.asked > MaxLiveTokens]_vars

-----------------------------------------------------------------------------
(* Refinement: the table read as the book of AdmissionLedger, the reply as   *)
(* its answer.  The counters have no counterpart there.                      *)

StateName == [none |-> "open", admit |-> "holding", queue |-> "waiting", shed |-> "refused"]

EntryOf(decision) ==
  [state |-> StateName[decision.action], tokens |-> decision.reserved_tokens]

Book == [id \in Ids |-> EntryOf(decisions[id])]

Answer ==
  CASE reply.call = "none"    -> [told |-> "nothing"]
    [] reply.call = "decide"  -> [told |-> "entry", id |-> reply.identifier,
                                  entry |-> EntryOf(reply.decision)]
    [] reply.call = "error"   -> [told |-> "error", id |-> reply.identifier]
    [] reply.call = "release" -> [told |-> "settled", id |-> reply.identifier]

Ledger == INSTANCE AdmissionLedger
            WITH TokenBudget <- MaxLiveTokens, Slots <- MaxQueuedRequests,
                 RequestBound <- MaxTokensPerRequest, book <- Book, answer <- Answer

(* The controller, counters and all, does nothing that the ledger would not  *)
(* do, and tells its callers what the ledger would tell them.                *)
ImplementsLedger == Ledger!Spec

-----------------------------------------------------------------------------
(* What the repository's own text says of queueing.                          *)

(* admission.py:4-7: immediate capacity gone, only a bounded queue; anything *)
(* else is "deliberately shed rather than accepted and silently abandoned".  *)
(* A queued request could then run at least on an empty system.              *)
QueuedCanEverRun ==
  [][\A id \in Ids :
       (~Known(id) /\ decisions'[id] = Queueing) => reply'.asked <= MaxLiveTokens]_vars

====
