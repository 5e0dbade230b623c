---- MODULE BatchingCompare ----
(***************************************************************************)
(* Two calls of simulate_batching on the same workload, one after the      *)
(* other, as examples/03_continuous_batching.py and the tests make them:   *)
(* continuous and then static batching, or one mode and then the same mode *)
(* on the workload shifted by a number of steps.                           *)
(***************************************************************************)
EXTENDS Batching

CONSTANT Shift   \* steps by which the second workload starts later

ASSUME ShiftAssumption == Shift \in Nat \ {0}

VARIABLES
  earlier,   \* what the first call did, or NoCall while it runs
  shifted    \* whether the second call gets the shifted workload

compareVars == <<vars, earlier, shifted>>

NoCall == [status |-> "none"]

CompareInit ==
  /\ Init
  /\ earlier = NoCall
  /\ shifted \in BOOLEAN
  /\ ~shifted => mode = "continuous"

Call ==
  /\ Next
  /\ UNCHANGED <<earlier, shifted>>

(* The first call returned; the second starts from the loop's initial state. *)
CallAgain ==
  /\ earlier = NoCall
  /\ result.status = "returned"
  /\ earlier' = [status |-> "returned", result |-> result, first_service |-> first_service]
  /\ arrival_step' = [id \in Ids |-> arrival_step[id] + IF shifted THEN Shift ELSE 0]
  /\ mode' = IF shifted THEN mode ELSE "static"
  /\ UNCHANGED <<output_tokens, capacity, shifted>>
  /\ pending' = InOrder
  /\ waiting' = <<>>
  /\ active' = [id \in Ids |-> 0]
  /\ first_service' = [id \in Ids |-> NoStep]
  /\ completed' = [id \in Ids |-> NoStep]
  /\ step' = FirstArrival + IF shifted THEN Shift ELSE 0
  /\ result' = Running

CompareNext == Call \/ CallAgain

(* The caller waits for both results, and a call is one running loop.        *)
CompareSpec == CompareInit /\ [][CompareNext]_compareVars /\ WF_compareVars(CompareNext)

-----------------------------------------------------------------------------
BothReturned == earlier.status = "returned" /\ result.status = "returned"

(* Continuous batching serves no request later than static batching does,    *)
(* whatever the mix of lengths and arrivals, and so neither its span nor its *)
(* total wait is larger (the comparison lesson 3 draws from one workload).   *)
ContinuousNeverLater ==
  (BothReturned /\ ~shifted) =>
    /\ \A id \in Ids : earlier.first_service[id] <= first_service[id]
    /\ earlier.result.makespan_steps <= result.makespan_steps
    /\ earlier.result.total_wait_steps <= result.total_wait_steps

(* A workload that starts later is comparable (batching.py:53-54): shifting  *)
(* it shifts every service and changes neither the span nor the waits.       *)
ShiftChangesNothing ==
  (BothReturned /\ shifted) =>
    /\ \A id \in Ids : first_service[id] = earlier.first_service[id] + Shift
    /\ result = earlier.result

(* No workload, in either mode, makes a call loop for ever or index into an  *)
(* empty list of pending requests: both calls return.                        *)
BothCallsReturn == <>BothReturned

====
