---- MODULE Batching ----
(***************************************************************************)
(* simulate_batching of src/inference_platform/batching.py: one step is    *)
(* one turn of its while loop (lines 80-107), or the return.  The          *)
(* arguments, which the code validates before the loop, are chosen in Init *)
(* and never change.  Identifiers are numbers; the code sorts strings.     *)
(***************************************************************************)
EXTENDS Integers, Sequences, FiniteSets, FiniteSetsExt

CONSTANTS
  Ids,         \* identifiers of the submitted requests
  Arrivals,    \* arrival steps a request may have
  Outputs,     \* output lengths a request may have
  Capacities   \* batch capacities

(* The validation of lines 60-69: every other argument raises. *)
ASSUME ArgumentAssumption ==
  /\ Ids # {} /\ Ids \subseteq Int /\ IsFiniteSet(Ids)
  /\ Arrivals \subseteq Nat
  /\ Outputs \subseteq Nat \ {0}
  /\ Capacities \subseteq Nat \ {0}

VARIABLES
  arrival_step,   \* requests: identifier -> arrival step
  output_tokens,  \* requests: identifier -> tokens to generate
  capacity,
  mode,           \* "static" or "continuous"
  pending,        \* not yet arrived, in arrival order
  waiting,        \* arrived, not in service
  active,         \* identifier -> tokens left, 0 when not in service
  first_service,  \* identifier -> step, NoStep before service
  completed,      \* identifier -> completion step, NoStep before
  step,
  result          \* what the call returned

arguments == <<arrival_step, output_tokens, capacity, mode>>
vars == <<arguments, pending, waiting, active, first_service, completed, step, result>>

NoStep == -1

Running == [status |-> "running"]

-----------------------------------------------------------------------------
(* One turn of the loop. *)

InService == {id \in Ids : active[id] > 0}

(* The sort key of line 72. *)
Earlier(a, b) ==
  \/ arrival_step[a] < arrival_step[b]
  \/ arrival_step[a] = arrival_step[b] /\ a < b

InOrder ==
  [i \in 1..Cardinality(Ids) |->
     CHOOSE id \in Ids : Cardinality({other \in Ids : Earlier(other, id)}) = i - 1]

(* Lines 81-82: the head of pending that has arrived moves to waiting. *)
Arrived ==
  LET all(n) == \A i \in 1..n : arrival_step[pending[i]] <= step
  IN  SubSeq(pending, 1, Max({n \in 0..Len(pending) : all(n)}))

Later == SubSeq(pending, Len(Arrived) + 1, Len(pending))

Queue == waiting \o Arrived

(* Mutated form: the modes are swapped. *)
MayFillSwapped == mode = "static" \/ InService = {}

MayFill == mode = "continuous" \/ InService = {}

(* Mutated form: one request too many is taken. *)
OneTooMany == IF MayFill THEN Min({Len(Queue), capacity - Cardinality(InService) + 1}) ELSE 0

(* Mutated form: a lane is kept free beside a running batch. *)
OneTooFew ==
  IF MayFill THEN Min({Len(Queue), Max({capacity - Cardinality(InService) - 1, 0})}) ELSE 0

(* Lines 84-89: how many requests leave the head of the queue for a lane. *)
Taken == IF MayFill THEN Min({Len(Queue), capacity - Cardinality(InService)}) ELSE 0

(* Mutated form: the youngest waiting requests are served first. *)
JoiningLast == {Queue[i] : i \in (Len(Queue) - Taken + 1)..Len(Queue)}

Joining == {Queue[i] : i \in 1..Taken}

Batch == InService \cup Joining

TokensLeft(id) == IF id \in Joining THEN output_tokens[id] ELSE active[id]

Unfinished == pending # <<>> \/ waiting # <<>> \/ InService # {}

(* The part every turn has in common: arrivals, then the filling of lanes. *)
Fill ==
  /\ result = Running
  /\ Unfinished
  /\ pending' = Later
  /\ waiting' = SubSeq(Queue, Taken + 1, Len(Queue))
  /\ first_service' = [id \in Ids |-> IF id \in Joining THEN step ELSE first_service[id]]
  /\ UNCHANGED arguments

(* Lines 91-93: nothing in service, so jump to the next arrival.  The index  *)
(* into an empty list would raise; here the call would never return.         *)
Jump ==
  /\ Fill
  /\ Batch = {}
  /\ Later # <<>>
  /\ step' = arrival_step[Head(Later)]
  /\ UNCHANGED <<active, completed, result>>

(* Lines 95-107: every member of the batch emits one token. *)
Decode ==
  /\ Fill
  /\ Batch # {}
  /\ active' = [id \in Ids |-> IF id \in Batch THEN TokensLeft(id) - 1 ELSE 0]
  /\ completed' = [id \in Ids |->
                     IF id \in Batch /\ TokensLeft(id) = 1 THEN step + 1 ELSE completed[id]]
  /\ step' = step + 1
  /\ UNCHANGED result

FirstArrival == Min({arrival_step[id] : id \in Ids})

(* Mutated form: the span is measured from step zero. *)
Makespan0 == step

Makespan == step - FirstArrival

TotalWait == SumFunction([id \in Ids |-> first_service[id] - arrival_step[id]])

(* Lines 109-113. *)
Return ==
  /\ result = Running
  /\ ~Unfinished
  /\ result' = [status |-> "returned", makespan_steps |-> Makespan, total_wait_steps |-> TotalWait]
  /\ UNCHANGED <<arguments, pending, waiting, active, first_service, completed, step>>

-----------------------------------------------------------------------------
Init ==
  /\ arrival_step \in [Ids -> Arrivals]
  /\ output_tokens \in [Ids -> Outputs]
  /\ capacity \in Capacities
  /\ mode \in {"static", "continuous"}
  /\ pending = InOrder
  /\ waiting = <<>>
  /\ active = [id \in Ids |-> 0]
  /\ first_service = [id \in Ids |-> NoStep]
  /\ completed = [id \in Ids |-> NoStep]
  /\ step = FirstArrival
  /\ result = Running

Next == Jump \/ Decode \/ Return

(* A call that is not over goes on: the simulator is one running loop. *)
Spec == Init /\ [][Next]_vars /\ WF_vars(Next)

-----------------------------------------------------------------------------
(* Safety *)

(* The members of the batch that decodes at step s, as the result reports it. *)
DecodedAt(s) ==
  {id \in Ids : first_service[id] \in 0..s /\ (completed[id] = NoStep \/ s < completed[id])}

StepsSoFar == FirstArrival..(step - 1)

(* No step ever decodes more requests than the batch has lanes. *)
WithinCapacity == \A s \in StepsSoFar : Cardinality(DecodedAt(s)) <= capacity

(* First come, first served (line 72): a request is never served before one  *)
(* that arrived earlier, through jumps, refills and drained batches alike.   *)
FirstComeFirstServed ==
  \A a, b \in Ids :
    (Earlier(a, b) /\ first_service[b] # NoStep) =>
      first_service[a] \in 0..first_service[b]

(* Static mode admits work only when the whole batch drained                 *)
(* (batching.py:3): two requests start together, or one after the other ends. *)
StaticBatchesDrain ==
  mode = "static" =>
    \A a, b \in Ids :
      (first_service[a] # NoStep /\ first_service[a] < first_service[b]) =>
        completed[a] \in 0..first_service[b]

(* Continuous mode leaves no lane idle while work waits (batching.py:49):     *)
(* at every step a request spent waiting, all lanes were decoding.           *)
NoLaneIdle ==
  mode = "continuous" =>
    \A id \in Ids : \A s \in StepsSoFar :
      (arrival_step[id] <= s /\ (first_service[id] = NoStep \/ s < first_service[id])) =>
        Cardinality(DecodedAt(s)) = capacity

(* The reported span runs from the first arrival to the last completion      *)
(* (batching.py:53-54), and no time at all passes for a request unseen.      *)
SpanIsFirstArrivalToLastCompletion ==
  result.status = "returned" =>
    /\ \A id \in Ids : completed[id] # NoStep
    /\ result.makespan_steps = Max({completed[id] : id \in Ids}) - FirstArrival
    /\ result.total_wait_steps =
         Cardinality(UNION {{id} \X (arrival_step[id]..(first_service[id] - 1)) : id \in Ids})

====
