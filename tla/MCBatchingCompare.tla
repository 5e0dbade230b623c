---- MODULE MCBatchingCompare ----
(* Every workload of four requests on one to three lanes.  Arrivals come    *)
(* together, apart, and far enough apart for the loop to jump.              *)
EXTENDS BatchingCompare

MCIds        == 1..4
MCArrivals   == {0, 1, 4}
MCOutputs    == {1, 3}
MCCapacities == {1, 2, 3}

====
