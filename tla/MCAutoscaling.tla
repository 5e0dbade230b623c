---- MODULE MCAutoscaling ----
(***************************************************************************)
(* Small instances of Autoscaling.  One replica serves 2 tokens a second   *)
(* and drains 3 in the drain time, so the three loads demand nothing, two  *)
(* replicas (rounded up), and more than the ceiling.                       *)
(***************************************************************************)
EXTENDS Autoscaling

Load(arrival, queued) == [arrival |-> arrival, queued |-> queued]

MCLoads == {Load(0, 0), Load(3, 0), Load(3, 4)}

(* Two loads, for the longer histories. *)
MCTwoLoads == {Load(0, 0), Load(3, 4)}

(* Changing from the first to the second lowers the ceiling and raises the   *)
(* floor of a running fleet.                                                 *)
MCBounds == {[min |-> 1, max |-> 3], [min |-> 2, max |-> 2]}

====
