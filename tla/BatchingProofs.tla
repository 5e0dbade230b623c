---- MODULE BatchingProofs ----
(***************************************************************************)
(* Theorems about Batching and BatchingCompare, for every workload, every  *)
(* number of lanes and every shift.                                        *)
(*                                                                         *)
(* The inductive invariant says three things.  The line of requests that   *)
(* were never served, waiting and pending together, is sorted and is all   *)
(* of them (LineOK).  A request that was served decodes without a pause    *)
(* from its first service on, so its first service and its output length   *)
(* say everything about it (ServedOK).  And no step of the past took more  *)
(* than the lanes, or less than the mode allowed (History).                *)
(*                                                                         *)
(* Two calls are compared through what a finished call leaves, its         *)
(* schedule.  The rules a schedule obeys determine it.                     *)
(***************************************************************************)
EXTENDS BatchingCompare, CommonLemmas, SequenceTheorems

Line == waiting \o pending

(* The requests a schedule has in service at step s. *)
Decoding(fs, s) ==
  {id \in Ids : fs[id] # NoStep /\ fs[id] <= s /\ s < fs[id] + output_tokens[id]}

Starting(fs, s) == {id \in Ids : fs[id] = s}

ArgumentsOK ==
  /\ arrival_step \in [Ids -> Nat]
  /\ output_tokens \in [Ids -> Nat \ {0}]
  /\ capacity \in Nat \ {0}
  /\ mode \in {"static", "continuous"}
  /\ step \in Nat

LineOK ==
  /\ waiting \in Seq(Ids) /\ pending \in Seq(Ids)
  /\ \A i, j \in 1..Len(Line) : i < j => Earlier(Line[i], Line[j])
  /\ {Line[i] : i \in 1..Len(Line)} = {id \in Ids : first_service[id] = NoStep}
  /\ \A i \in 1..Len(waiting) : arrival_step[waiting[i]] < step
  /\ \A i \in 1..Len(pending) : step <= arrival_step[pending[i]]

Untouched(id) == first_service[id] = NoStep /\ active[id] = 0 /\ completed[id] = NoStep

Started(id) ==
  /\ first_service[id] \in Nat
  /\ arrival_step[id] <= first_service[id] /\ first_service[id] < step

InProgress(id) ==
  /\ Started(id)
  /\ active[id] = first_service[id] + output_tokens[id] - step
  /\ active[id] > 0 /\ completed[id] = NoStep

Done(id) ==
  /\ Started(id)
  /\ active[id] = 0 /\ completed[id] = first_service[id] + output_tokens[id]
  /\ completed[id] <= step

ServedOK ==
  /\ first_service \in [Ids -> Nat \cup {NoStep}]
  /\ \A id \in Ids : Untouched(id) \/ InProgress(id) \/ Done(id)

History ==
  /\ \A s \in 0..(step - 1) : Cardinality(Decoding(first_service, s)) <= capacity
  /\ \A id \in Ids : \A s \in 0..(step - 1) :
       (arrival_step[id] <= s /\ (first_service[id] = NoStep \/ s < first_service[id])) =>
         IF mode = "continuous" THEN Cardinality(Decoding(first_service, s)) = capacity
         ELSE \/ Decoding(first_service, s) \ Starting(first_service, s) # {}
              \/ Cardinality(Starting(first_service, s)) = capacity

Drained ==
  mode = "static" =>
    \A a, b \in Ids :
      (first_service[a] # NoStep /\ first_service[a] < first_service[b]) =>
        first_service[a] + output_tokens[a] <= first_service[b]

Ending == ~Unfinished => \E id \in Ids : completed[id] = step

ResultOK ==
  \/ result = Running
  \/ /\ ~Unfinished
     /\ result = [status |-> "returned", makespan_steps |-> Makespan, total_wait_steps |-> TotalWait]

IInv ==
  /\ ArgumentsOK /\ LineOK /\ ServedOK /\ FirstComeFirstServed
  /\ History /\ Drained /\ Ending /\ ResultOK

-----------------------------------------------------------------------------
(* What a finished call leaves. *)

Ends(fs) == {fs[id] + output_tokens[id] : id \in Ids}

Schedule(arrival, m, fs) ==
  /\ fs \in [Ids -> Nat]
  /\ \A id \in Ids : arrival[id] <= fs[id]
  /\ \A a, b \in Ids :
       (arrival[a] < arrival[b] \/ (arrival[a] = arrival[b] /\ a < b)) => fs[a] <= fs[b]
  /\ \A id \in Ids : Cardinality(Decoding(fs, fs[id])) <= capacity
  /\ \A id \in Ids : \A s \in Nat : (arrival[id] <= s /\ s < fs[id]) =>
       IF m = "continuous" THEN Cardinality(Decoding(fs, s)) = capacity
       ELSE Decoding(fs, s) \ Starting(fs, s) # {} \/ Cardinality(Starting(fs, s)) = capacity
  /\ m = "static" => \A a, b \in Ids : fs[a] < fs[b] => fs[a] + output_tokens[a] <= fs[b]

Outcome(arrival, fs) ==
  [status           |-> "returned",
   makespan_steps   |-> Max(Ends(fs)) - Min({arrival[id] : id \in Ids}),
   total_wait_steps |-> SumFunction([id \in Ids |-> fs[id] - arrival[id]])]

(* The workload of the first call, seen from the second. *)
FirstWorkload == [id \in Ids |-> arrival_step[id] - IF shifted THEN Shift ELSE 0]

Earliest ==
  IF earlier = NoCall THEN ~shifted => mode = "continuous"
  ELSE /\ ~shifted => mode = "static"
       /\ FirstWorkload \in [Ids -> Nat]
       /\ earlier = [status |-> "returned", result |-> earlier.result,
                     first_service |-> earlier.first_service]
       /\ Schedule(FirstWorkload, IF shifted THEN mode ELSE "continuous", earlier.first_service)
       /\ earlier.result = Outcome(FirstWorkload, earlier.first_service)

CompareInv == IInv /\ shifted \in BOOLEAN /\ Earliest

-----------------------------------------------------------------------------
(* The sort of line 72. *)

(* The order of one workload, and the requests in that order. *)
ComesFirst(arrival, a, b) == arrival[a] < arrival[b] \/ (arrival[a] = arrival[b] /\ a < b)

Sorted(arrival) ==
  [i \in 1..Cardinality(Ids) |->
     CHOOSE id \in Ids : Cardinality({other \in Ids : ComesFirst(arrival, other, id)}) = i - 1]

LEMMA SortedIsSorted ==
  ASSUME NEW arrival \in [Ids -> Nat]
  PROVE  /\ Sorted(arrival) \in Seq(Ids)
         /\ \A i, j \in 1..Len(Sorted(arrival)) :
              i < j => ComesFirst(arrival, Sorted(arrival)[i], Sorted(arrival)[j])
         /\ {Sorted(arrival)[i] : i \in 1..Len(Sorted(arrival))} = Ids
<1> DEFINE n == Cardinality(Ids)
           first == {pair \in Ids \X Ids : ComesFirst(arrival, pair[1], pair[2])}
           list == Listing(Ids, first)
<1>1. IsFiniteSet(Ids) /\ Ids \subseteq Int /\ n \in Nat
  BY ArgumentAssumption, FS_CardinalityType
<1>2. \A a, b \in Ids : <<a, b>> \in first <=> ComesFirst(arrival, a, b)
  OBVIOUS
<1>3. Orders(first, Ids)
  <2> HIDE DEF first
  <2> QED
    BY <1>1, <1>2 DEF Orders, ComesFirst
<1>4. \A id \in Ids : Before(id, Ids, first) = {other \in Ids : ComesFirst(arrival, other, id)}
  <2> HIDE DEF first
  <2> QED
    BY <1>2 DEF Before
<1> HIDE DEF first
<1>5. Sorted(arrival) = list
  <2>1. \A i \in 1..n :
          (CHOOSE id \in Ids : Cardinality(Before(id, Ids, first)) = i - 1)
            = CHOOSE id \in Ids : Cardinality({other \in Ids : ComesFirst(arrival, other, id)}) = i - 1
    BY <1>4
  <2> QED
    BY <2>1 DEF Sorted, Listing
<1>6. /\ list \in [1..n -> Ids]
      /\ \A i, j \in 1..n : i < j => <<list[i], list[j]>> \in first
      /\ \A id \in Ids : \E i \in 1..n : list[i] = id
  BY <1>1, <1>3, ListingSorts
<1> HIDE DEF list, n
<1>7. list \in Seq(Ids) /\ Len(list) = n
  BY <1>1, <1>6
<1>8. {list[i] : i \in 1..Len(list)} = Ids
  BY <1>6, <1>7
<1>9. \A i, j \in 1..n : i < j => ComesFirst(arrival, list[i], list[j])
  BY <1>2, <1>6
<1> QED
  BY <1>5, <1>7, <1>8, <1>9

LEMMA SameOrderSameList ==
  ASSUME NEW f, NEW g, \A a, b \in Ids : ComesFirst(f, a, b) <=> ComesFirst(g, a, b)
  PROVE  Sorted(f) = Sorted(g)
<1> DEFINE place(h, id) == Cardinality({other \in Ids : ComesFirst(h, other, id)})
           at(h, i) == CHOOSE id \in Ids : place(h, id) = i - 1
<1>1. \A id \in Ids : {other \in Ids : ComesFirst(f, other, id)}
                         = {other \in Ids : ComesFirst(g, other, id)}
  OBVIOUS
<1>2. \A id \in Ids : place(f, id) = place(g, id)
  BY <1>1
<1>3. \A i : at(f, i) = at(g, i)
  <2> HIDE DEF place
  <2> QED
    BY <1>2
<1>4. /\ Sorted(f) = [i \in 1..Cardinality(Ids) |-> at(f, i)]
      /\ Sorted(g) = [i \in 1..Cardinality(Ids) |-> at(g, i)]
  BY Zenon DEF Sorted
<1> HIDE DEF at
<1> QED
  BY <1>3, <1>4

(* Waiting and pending requests, one after the other. *)
LEMMA LineType ==
  ASSUME LineOK
  PROVE  /\ Line \in Seq(Ids) /\ Len(waiting) \in Nat /\ Len(pending) \in Nat
         /\ Len(Line) = Len(waiting) + Len(pending)
         /\ \A i \in 1..Len(waiting) : Line[i] = waiting[i]
         /\ \A i \in 1..Len(pending) : Line[Len(waiting) + i] = pending[i]
<1>1. waiting \in Seq(Ids) /\ pending \in Seq(Ids)
  BY DEF LineOK
<1>2. Len(waiting) \in Nat /\ Len(pending) \in Nat
  BY <1>1, LenProperties
<1> QED
  BY <1>1, <1>2, ConcatProperties DEF Line

(* What the result reports of a past step is what the schedule says of it.   *)
LEMMA DecodedIsDecoding ==
  ASSUME ArgumentsOK, ServedOK, NEW s \in 0..(step - 1)
  PROVE  DecodedAt(s) = Decoding(first_service, s)
<1>1. step \in Nat /\ \A id \in Ids : output_tokens[id] \in Nat \ {0}
  BY DEF ArgumentsOK
<1>2. ASSUME NEW id \in Ids
      PROVE  id \in DecodedAt(s) <=> id \in Decoding(first_service, s)
  <2>1. CASE Untouched(id)
    BY <1>1, <2>1 DEF Untouched, DecodedAt, Decoding, NoStep
  <2>2. CASE InProgress(id)
    BY <1>1, <2>2 DEF InProgress, Started, DecodedAt, Decoding, NoStep
  <2>3. CASE Done(id)
    BY <1>1, <2>3 DEF Done, Started, DecodedAt, Decoding, NoStep
  <2> QED
    BY <2>1, <2>2, <2>3 DEF ServedOK
<1> QED
  BY <1>2 DEF DecodedAt, Decoding

(* Who is in service now was so in the last step. *)
LEMMA InServiceIsDecoding ==
  ASSUME ArgumentsOK, ServedOK
  PROVE  InService = {id \in Decoding(first_service, step) : first_service[id] < step}
<1>1. step \in Nat /\ \A id \in Ids : output_tokens[id] \in Nat \ {0}
  BY DEF ArgumentsOK
<1>2. ASSUME NEW id \in Ids
      PROVE  active[id] > 0 <=> id \in Decoding(first_service, step) /\ first_service[id] < step
  <2>1. CASE Untouched(id)
    BY <1>1, <2>1 DEF Untouched, Decoding, NoStep
  <2>2. CASE InProgress(id)
    BY <1>1, <2>2 DEF InProgress, Started, Decoding, NoStep
  <2>3. CASE Done(id)
    BY <1>1, <2>3 DEF Done, Started, Decoding, NoStep
  <2> QED
    BY <2>1, <2>2, <2>3 DEF ServedOK
<1> QED
  BY <1>2 DEF InService, Decoding

LEMMA LanesSuffice ==
  ASSUME ArgumentsOK, ServedOK, History
  PROVE  /\ IsFiniteSet(InService)
         /\ Cardinality(InService) \in 0..capacity
<1>1. IsFiniteSet(Ids) /\ InService \in SUBSET Ids
  BY ArgumentAssumption DEF InService
<1>2. IsFiniteSet(InService) /\ Cardinality(InService) \in Nat
  BY <1>1, FS_Subset, FS_CardinalityType
<1>3. capacity \in Nat /\ step \in Nat
  BY DEF ArgumentsOK
<1>4. CASE InService = {}
  BY <1>2, <1>3, <1>4, FS_EmptySet
<1>5. CASE InService # {}
  <2> DEFINE last == step - 1
  <2>1. InService \subseteq Decoding(first_service, last) /\ last \in 0..(step - 1)
    <3>1. ASSUME NEW id \in InService
          PROVE  id \in Decoding(first_service, last) /\ last \in 0..(step - 1)
      <4>1. id \in Decoding(first_service, step) /\ first_service[id] < step /\ id \in Ids
        BY InServiceIsDecoding DEF Decoding
      <4>2. first_service[id] \in Nat /\ output_tokens[id] \in Nat
        BY <4>1 DEF Decoding, ServedOK, Untouched, InProgress, Done, Started, ArgumentsOK
      <4> QED
        BY <1>3, <4>1, <4>2 DEF Decoding
    <3> QED
      BY <1>5, <3>1
  <2> HIDE DEF last
  <2>2. IsFiniteSet(Decoding(first_service, last))
    BY <1>1, FS_Subset DEF Decoding
  <2>3. Cardinality(InService) <= Cardinality(Decoding(first_service, last))
    BY <2>1, <2>2, FS_Subset
  <2>4. Cardinality(Decoding(first_service, last)) <= capacity
    BY <2>1 DEF History
  <2>5. Cardinality(Decoding(first_service, last)) \in Nat
    BY <2>2, FS_CardinalityType
  <2> QED
    BY <1>2, <1>3, <2>3, <2>4, <2>5
<1> QED
  BY <1>4, <1>5

-----------------------------------------------------------------------------
(* Filling the lanes. *)

(* Lines 81-82: a prefix of pending has arrived, and nothing after it has.   *)
LEMMA ArrivedIsPrefix ==
  ASSUME ArgumentsOK, LineOK
  PROVE  \E n \in 0..Len(pending) :
           /\ Arrived = SubSeq(pending, 1, n) /\ Len(Arrived) = n
           /\ Arrived \in Seq(Ids)
           /\ \A i \in 1..n : arrival_step[pending[i]] <= step
           /\ \A i \in (n + 1)..Len(pending) : step < arrival_step[pending[i]]
<1> DEFINE all(n) == \A i \in 1..n : arrival_step[pending[i]] <= step
           prefixes == {n \in 0..Len(pending) : all(n)}
           n == Max(prefixes)
<1>1. pending \in Seq(Ids) /\ Len(pending) \in Nat
  BY LineType DEF LineOK
<1>2. n \in prefixes /\ \A m \in prefixes : m <= n
  <2>1. prefixes \in SUBSET Int /\ prefixes # {} /\ \A m \in prefixes : m <= Len(pending)
    <3>1. 0 \in prefixes
      BY <1>1
    <3> QED
      BY <1>1, <3>1
  <2>2. Len(pending) \in Int
    BY <1>1
  <2> HIDE DEF prefixes
  <2> QED
    BY <2>1, <2>2, MaxExists
<1>3. n \in 0..Len(pending) /\ all(n)
  BY <1>2
<1>4. Arrived = SubSeq(pending, 1, n)
  BY DEF Arrived
<1>5. step \in Nat /\ \A i \in 1..Len(pending) : arrival_step[pending[i]] \in Nat
  BY <1>1, ElementOfSeq DEF ArgumentsOK
<1>6. ASSUME NEW i \in (n + 1)..Len(pending)
      PROVE  step < arrival_step[pending[i]]
  <2>1. n + 1 \in 1..Len(pending) /\ n + 1 \notin prefixes /\ i \in 1..Len(pending)
    <3>1. n + 1 \in prefixes => n + 1 <= n
      BY <1>2
    <3> HIDE DEF n, prefixes
    <3> QED
      BY <1>1, <1>3, <1>6, <3>1
  <2>2. ~all(n + 1)
    BY <1>1, <2>1
  <2> HIDE DEF n
  <2>3. step < arrival_step[pending[n + 1]]
    <3>1. PICK j \in 1..(n + 1) : ~(arrival_step[pending[j]] <= step)
      BY <2>2
    <3>2. j = n + 1
      BY <1>3, <3>1
    <3> QED
      BY <1>5, <2>1, <3>1, <3>2
  <2>4. arrival_step[pending[n + 1]] <= arrival_step[pending[i]]
    <3>1. /\ Len(waiting) + (n + 1) \in 1..Len(Line) /\ Len(waiting) + i \in 1..Len(Line)
          /\ Line[Len(waiting) + (n + 1)] = pending[n + 1] /\ Line[Len(waiting) + i] = pending[i]
      BY <1>1, <1>3, <2>1, LineType
    <3>2. CASE i = n + 1
      BY <1>5, <2>1, <3>2
    <3>3. CASE i # n + 1
      <4>1. Len(waiting) + (n + 1) < Len(waiting) + i
        BY <1>1, <1>3, <1>6, <3>3, LineType
      <4>2. Earlier(pending[n + 1], pending[i])
        BY <3>1, <4>1 DEF LineOK
      <4> QED
        BY <1>5, <2>1, <4>2 DEF Earlier
    <3> QED
      BY <3>2, <3>3
  <2>5. arrival_step[pending[n + 1]] \in Nat /\ arrival_step[pending[i]] \in Nat /\ step \in Nat
    BY <1>5, <2>1
  <2> QED
    BY <2>3, <2>4, <2>5
<1> HIDE DEF n
<1>7. Arrived \in Seq(Ids) /\ Len(Arrived) = n
  <2>1. \A i \in 1..n : pending[i] \in Ids
    BY <1>1, <1>3, ElementOfSeq
  <2> QED
    BY <1>1, <1>3, <1>4, <2>1, SubSeqProperties
<1> QED
  BY <1>3, <1>4, <1>6, <1>7

(* The queue is the part of the line that has arrived. *)
LEMMA QueueIsPrefix ==
  ASSUME ArgumentsOK, LineOK
  PROVE  /\ Queue \in Seq(Ids) /\ Len(Queue) \in Len(waiting)..Len(Line)
         /\ \A i \in 1..Len(Queue) : Queue[i] = Line[i] /\ arrival_step[Line[i]] <= step
         /\ \A i \in (Len(Queue) + 1)..Len(Line) : step < arrival_step[Line[i]]
         /\ Later \in Seq(Ids) /\ Len(Later) = Len(Line) - Len(Queue)
         /\ \A i \in 1..Len(Later) : Later[i] = Line[Len(Queue) + i]
<1>1. PICK n \in 0..Len(pending) :
        /\ Arrived = SubSeq(pending, 1, n) /\ Len(Arrived) = n
        /\ Arrived \in Seq(Ids)
        /\ \A i \in 1..n : arrival_step[pending[i]] <= step
        /\ \A i \in (n + 1)..Len(pending) : step < arrival_step[pending[i]]
  BY ArrivedIsPrefix
<1>2. /\ waiting \in Seq(Ids) /\ pending \in Seq(Ids)
      /\ Len(waiting) \in Nat /\ Len(pending) \in Nat
      /\ Len(Line) = Len(waiting) + Len(pending)
      /\ \A i \in 1..Len(waiting) : Line[i] = waiting[i]
      /\ \A i \in 1..Len(pending) : Line[Len(waiting) + i] = pending[i]
  BY LineType DEF LineOK
<1>3. /\ Queue \in Seq(Ids) /\ Len(Queue) = Len(waiting) + n
      /\ \A i \in 1..(Len(waiting) + n) :
           Queue[i] = IF i <= Len(waiting) THEN waiting[i] ELSE Arrived[i - Len(waiting)]
  BY <1>1, <1>2, ConcatProperties DEF Queue
<1>4. \A i \in 1..n : Arrived[i] = pending[i]
  <2>1. \A i \in 1..n : pending[i] \in Ids
    BY <1>2, ElementOfSeq
  <2> QED
    BY <1>1, <1>2, <2>1, SubSeqProperties
<1>5. step \in Nat /\ \A id \in Ids : arrival_step[id] \in Nat
  BY DEF ArgumentsOK
<1>6. ASSUME NEW i \in 1..Len(Queue)
      PROVE  Queue[i] = Line[i] /\ arrival_step[Line[i]] <= step
  <2>1. CASE i <= Len(waiting)
    <3>1. i \in 1..Len(waiting)
      BY <1>2, <2>1
    <3>2. Queue[i] = waiting[i] /\ Line[i] = waiting[i] /\ waiting[i] \in Ids
      BY <1>2, <1>3, <2>1, <3>1, ElementOfSeq
    <3>3. arrival_step[waiting[i]] < step
      BY <3>1 DEF LineOK
    <3> QED
      BY <1>5, <3>2, <3>3
  <2>2. CASE ~(i <= Len(waiting))
    <3> DEFINE j == i - Len(waiting)
    <3>1. j \in 1..n /\ j \in 1..Len(pending) /\ Len(waiting) + j = i
      BY <1>2, <1>3, <2>2
    <3> HIDE DEF j
    <3>2. Queue[i] = pending[j]
      BY <1>3, <1>4, <2>2, <3>1 DEF j
    <3>3. Line[i] = pending[j]
      BY <1>2, <3>1
    <3> QED
      BY <1>1, <3>1, <3>2, <3>3
  <2> QED
    BY <2>1, <2>2
<1>7. ASSUME NEW i \in (Len(Queue) + 1)..Len(Line)
      PROVE  step < arrival_step[Line[i]]
  <2> DEFINE j == i - Len(waiting)
  <2>1. j \in (n + 1)..Len(pending) /\ j \in 1..Len(pending) /\ Len(waiting) + j = i
    BY <1>2, <1>3
  <2> HIDE DEF j
  <2>2. Line[i] = pending[j]
    BY <1>2, <2>1
  <2> QED
    BY <1>1, <2>1, <2>2
<1>8. /\ Later \in Seq(Ids) /\ Len(Later) = Len(pending) - n
      /\ \A i \in 1..(Len(pending) - n) : Later[i] = pending[n + i]
  <2>1. \A i \in (n + 1)..Len(pending) : pending[i] \in Ids
    BY <1>2, ElementOfSeq
  <2>2. Later = SubSeq(pending, n + 1, Len(pending))
    BY <1>1 DEF Later
  <2> QED
    BY <1>1, <1>2, <2>1, <2>2, SubSeqProperties
<1>9. \A i \in 1..Len(Later) : Later[i] = Line[Len(Queue) + i]
  BY <1>2, <1>3, <1>8
<1>10. Len(Queue) \in Len(waiting)..Len(Line) /\ Len(Later) = Len(Line) - Len(Queue)
  BY <1>2, <1>3, <1>8
<1> QED
  BY <1>3, <1>6, <1>7, <1>8, <1>9, <1>10

(* Lines 84-89: no more than the free lanes, and all of them while the mode  *)
(* lets requests in and any wait.                                            *)
LEMMA TakenFits ==
  ASSUME ArgumentsOK, LineOK, ServedOK, History
  PROVE  /\ Taken \in 0..Len(Queue)
         /\ Cardinality(InService) + Taken <= capacity
         /\ (MayFill /\ Taken < Len(Queue)) => Cardinality(InService) + Taken = capacity
         /\ ~MayFill => Taken = 0
<1> DEFINE q == Len(Queue)
           free == capacity - Cardinality(InService)
<1>1. q \in Nat
  BY QueueIsPrefix, LenProperties
<1>2. capacity \in Nat /\ Cardinality(InService) \in Nat /\ free \in Nat
  BY LanesSuffice DEF ArgumentsOK
<1>3. Taken = IF MayFill THEN IF q <= free THEN q ELSE free ELSE 0
  <2>1. Min({q, free}) = IF q <= free THEN q ELSE free
    <3> HIDE DEF q, free
    <3> QED
      BY <1>1, <1>2, MinOfTwo
  <2> QED
    BY <2>1 DEF Taken
<1> QED
  BY <1>1, <1>2, <1>3

LEMMA LineDiffers ==
  ASSUME ArgumentsOK, LineOK, NEW i \in 1..Len(Line), NEW j \in 1..Len(Line), Line[i] = Line[j]
  PROVE  i = j
<1>1. Line \in Seq(Ids) /\ Len(Line) \in Nat
  BY LineType, LenProperties
<1>2. Line[i] \in Ids
  BY <1>1, ElementOfSeq
<1>3. arrival_step[Line[i]] \in Nat /\ Line[i] \in Int
  BY <1>2, ArgumentAssumption DEF ArgumentsOK
<1>4. ~Earlier(Line[i], Line[i])
  BY <1>3 DEF Earlier
<1> QED
  BY <1>1, <1>4 DEF LineOK

(* The requests that join were never served, and each takes a lane.          *)
LEMMA JoiningFacts ==
  ASSUME ArgumentsOK, LineOK, ServedOK, History
  PROVE  /\ Joining = {Line[i] : i \in 1..Taken}
         /\ \A id \in Joining : id \in Ids /\ Untouched(id)
         /\ IsFiniteSet(Batch)
         /\ Cardinality(Joining) = Taken
         /\ Cardinality(Batch) = Cardinality(InService) + Taken
<1>1. Taken \in 0..Len(Queue) /\ Len(Queue) \in Nat /\ Len(Queue) <= Len(Line) /\ Len(Line) \in Nat
  BY TakenFits, QueueIsPrefix, LineType, LenProperties
<1>2. \A i \in 1..Taken : i \in 1..Len(Queue) /\ i \in 1..Len(Line) /\ Queue[i] = Line[i]
  BY <1>1, QueueIsPrefix
<1>3. Joining = {Line[i] : i \in 1..Taken}
  BY <1>2 DEF Joining
<1>4. \A id \in Joining : id \in Ids /\ Untouched(id)
  <2>1. \A id \in Joining : id \in Ids /\ first_service[id] = NoStep
    BY <1>2, <1>3 DEF LineOK
  <2> QED
    BY <2>1 DEF ServedOK, InProgress, Done, Started, NoStep
<1>5. IsFiniteSet(Joining) /\ Cardinality(Joining) = Taken
  <2> DEFINE taken == [i \in 1..Taken |-> Line[i]]
  <2>1. taken \in Surjection(1..Taken, Joining)
    BY <1>3 DEF Surjection
  <2>2. taken \in Injection(1..Taken, Joining)
    <3>1. \A i, j \in 1..Taken : taken[i] = taken[j] => i = j
      BY <1>2, LineDiffers
    <3> QED
      BY <1>3, <3>1 DEF Injection, IsInjective
  <2>3. IsFiniteSet(1..Taken) /\ Cardinality(1..Taken) = Taken
    BY <1>1, FS_Interval
  <2> HIDE DEF taken
  <2> QED
    BY <2>1, <2>2, <2>3, FS_Surjection
<1>6. InService \cap Joining = {}
  BY <1>4 DEF InService, Untouched
<1>7. /\ IsFiniteSet(InService) /\ Cardinality(InService) \in Nat
      /\ IsFiniteSet(InService \cup Joining)
      /\ Cardinality(InService \cup Joining)
           = Cardinality(InService) + Cardinality(Joining) - Cardinality(InService \cap Joining)
  BY <1>5, LanesSuffice, FS_Union
<1>8. Cardinality(InService \cap Joining) = 0
  BY <1>6, FS_EmptySet
<1> QED
  BY <1>1, <1>3, <1>4, <1>5, <1>7, <1>8 DEF Batch

(* What is left of the line once the lanes are filled. *)
LEMMA FillLine ==
  ASSUME ArgumentsOK, LineOK, ServedOK, History, Fill
  PROVE  /\ waiting' \in Seq(Ids) /\ Len(waiting') = Len(Queue) - Taken
         /\ pending' \in Seq(Ids) /\ Len(pending') = Len(Line) - Len(Queue)
         /\ Line' \in Seq(Ids) /\ Len(Line') = Len(Line) - Taken
         /\ \A i \in 1..Len(Line') : Line'[i] = Line[Taken + i]
         /\ \A i \in 1..Len(waiting') : waiting'[i] = Line[Taken + i]
         /\ \A i \in 1..Len(pending') : pending'[i] = Line[Len(Queue) + i]
<1> DEFINE q == Len(Queue)
           t == Taken
<1>1. /\ Queue \in Seq(Ids) /\ q \in Nat /\ t \in 0..q
      /\ Len(Line) \in Nat /\ q <= Len(Line)
  BY TakenFits, QueueIsPrefix, LineType, LenProperties
<1>2. waiting' = SubSeq(Queue, t + 1, q) /\ pending' = Later
  BY DEF Fill
<1>3. /\ waiting' \in Seq(Ids) /\ Len(waiting') = q - t
      /\ \A i \in 1..(q - t) : waiting'[i] = Queue[t + i]
  <2>1. \A i \in (t + 1)..q : Queue[i] \in Ids
    BY <1>1, ElementOfSeq
  <2> HIDE DEF q, t
  <2> QED
    BY <1>1, <1>2, <2>1, SubSeqProperties
<1>4. \A i \in 1..(q - t) : waiting'[i] = Line[t + i]
  <2>1. \A i \in 1..(q - t) : t + i \in 1..q
    BY <1>1
  <2> QED
    BY <1>3, <2>1, QueueIsPrefix
<1>5. /\ pending' \in Seq(Ids) /\ Len(pending') = Len(Line) - q
      /\ \A i \in 1..(Len(Line) - q) : pending'[i] = Line[q + i]
  BY <1>2, QueueIsPrefix
<1>6. Line' = waiting' \o pending'
  BY DEF Line
<1> HIDE DEF q, t
<1>7. /\ Line' \in Seq(Ids) /\ Len(Line') = Len(waiting') + Len(pending')
      /\ \A i \in 1..(Len(waiting') + Len(pending')) :
           Line'[i] = IF i <= Len(waiting') THEN waiting'[i] ELSE pending'[i - Len(waiting')]
  BY <1>3, <1>5, <1>6, ConcatProperties
<1>8. Len(Line') = Len(Line) - t
  BY <1>1, <1>3, <1>5, <1>7
<1>9. ASSUME NEW i \in 1..Len(Line')
      PROVE  Line'[i] = Line[t + i]
  <2>1. CASE i <= q - t
    <3>1. i \in 1..(q - t)
      BY <1>1, <2>1
    <3>2. Line'[i] = waiting'[i]
      BY <1>3, <1>7, <2>1
    <3> QED
      BY <1>4, <3>1, <3>2
  <2>2. CASE ~(i <= q - t)
    <3> DEFINE j == i - (q - t)
    <3>1. j \in 1..(Len(Line) - q) /\ q + j = t + i
      BY <1>1, <1>3, <1>5, <1>8, <2>2
    <3>2. Line'[i] = pending'[j]
      BY <1>3, <1>7, <2>2
    <3> HIDE DEF j
    <3> QED
      BY <1>5, <3>1, <3>2
  <2> QED
    BY <2>1, <2>2
<1> QED
  BY <1>3, <1>4, <1>5, <1>7, <1>8, <1>9 DEF q, t

LEMMA FillKeepsLine ==
  ASSUME ArgumentsOK, LineOK, ServedOK, History, Fill,
         Len(waiting') > 0 => step < step',
         \A i \in 1..Len(pending') : step' <= arrival_step[pending'[i]],
         step' \in Nat
  PROVE  LineOK'
<1>1. /\ Taken \in 0..Len(Queue) /\ Len(Queue) \in Nat /\ Len(Queue) <= Len(Line)
      /\ Len(Line) \in Nat
  BY TakenFits, QueueIsPrefix, LineType, LenProperties
<1>2. /\ waiting' \in Seq(Ids) /\ pending' \in Seq(Ids)
      /\ Len(Line') = Len(Line) - Taken
      /\ \A i \in 1..Len(Line') : Line'[i] = Line[Taken + i]
      /\ Len(waiting') = Len(Queue) - Taken
      /\ \A i \in 1..Len(waiting') : waiting'[i] = Line[Taken + i]
  BY FillLine
<1>3. arrival_step' = arrival_step /\ step \in Nat /\ \A id \in Ids : arrival_step[id] \in Nat
  BY DEF Fill, arguments, ArgumentsOK
<1>4. \A i \in 1..Len(Line') : Taken + i \in 1..Len(Line)
  BY <1>1, <1>2
<1>5. ASSUME NEW i \in 1..Len(Line'), NEW j \in 1..Len(Line'), i < j
      PROVE  Earlier(Line[i], Line[j])'
  <2>1. Taken + i < Taken + j
    BY <1>1, <1>5
  <2>2. Earlier(Line[Taken + i], Line[Taken + j])
    BY <1>4, <2>1 DEF LineOK
  <2> QED
    BY <1>2, <1>3, <2>2 DEF Earlier
<1>6. {Line'[i] : i \in 1..Len(Line')} = {id \in Ids : first_service'[id] = NoStep}
  <2>1. first_service' = [id \in Ids |-> IF id \in Joining THEN step ELSE first_service[id]]
    BY DEF Fill
  <2>2. \A id \in Ids : first_service'[id] = NoStep <=> (first_service[id] = NoStep /\ id \notin Joining)
    BY <1>3, <2>1, JoiningFacts DEF NoStep
  <2>3. ASSUME NEW i \in 1..Len(Line')
        PROVE  Line'[i] \in Ids /\ first_service'[Line'[i]] = NoStep
    <3>1. Line'[i] = Line[Taken + i] /\ Taken + i \in 1..Len(Line)
      BY <1>2, <1>4
    <3>2. Line[Taken + i] \in Ids /\ first_service[Line[Taken + i]] = NoStep
      BY <3>1 DEF LineOK
    <3>3. Line[Taken + i] \notin Joining
      <4> SUFFICES ASSUME Line[Taken + i] \in Joining PROVE FALSE
        OBVIOUS
      <4>1. PICK j \in 1..Taken : Line[Taken + i] = Line[j]
        BY JoiningFacts
      <4>2. j \in 1..Len(Line) /\ j # Taken + i
        BY <1>1
      <4> QED
        BY <3>1, <4>1, <4>2, LineDiffers
    <3> QED
      BY <2>2, <3>1, <3>2, <3>3
  <2>4. ASSUME NEW id \in Ids, first_service'[id] = NoStep
        PROVE  \E i \in 1..Len(Line') : Line'[i] = id
    <3>1. first_service[id] = NoStep /\ id \notin Joining
      BY <2>2, <2>4
    <3>2. PICK k \in 1..Len(Line) : Line[k] = id
      BY <3>1 DEF LineOK
    <3>3. k \notin 1..Taken
      BY <3>1, <3>2, JoiningFacts
    <3>4. k - Taken \in 1..Len(Line') /\ Taken + (k - Taken) = k
      BY <1>1, <1>2, <3>3
    <3> QED
      BY <1>2, <3>2, <3>4
  <2> QED
    BY <2>3, <2>4
<1>7. ASSUME NEW i \in 1..Len(waiting')
      PROVE  arrival_step'[waiting'[i]] < step'
  <2>1. Taken + i \in 1..Len(Queue) /\ step < step' /\ Taken + i \in 1..Len(Line)
    BY <1>1, <1>2
  <2>2. arrival_step[Line[Taken + i]] <= step
    BY <2>1, QueueIsPrefix
  <2>3. Line[Taken + i] \in Ids
    BY <2>1 DEF LineOK
  <2> QED
    BY <1>2, <1>3, <2>1, <2>2, <2>3
<1>8. \A i \in 1..Len(pending') : step' <= arrival_step'[pending'[i]]
  BY <1>3
<1> QED
  BY <1>2, <1>5, <1>6, <1>7, <1>8 DEF LineOK

(* First come, first served. *)
LEMMA FillKeepsOrder ==
  ASSUME ArgumentsOK, LineOK, ServedOK, History, FirstComeFirstServed, Fill
  PROVE  FirstComeFirstServed'
<1>1. /\ arrival_step' = arrival_step /\ step \in Nat
      /\ first_service' = [id \in Ids |-> IF id \in Joining THEN step ELSE first_service[id]]
  BY DEF Fill, arguments, ArgumentsOK
<1> SUFFICES ASSUME NEW a \in Ids, NEW b \in Ids, Earlier(a, b), first_service'[b] # NoStep
             PROVE  first_service'[a] \in 0..first_service'[b]
  BY <1>1 DEF FirstComeFirstServed, Earlier
<1>2. CASE b \in Joining
  <2>1. CASE first_service[a] = NoStep
    <3>1. PICK i \in 1..Len(Line) : Line[i] = a
      BY <2>1 DEF LineOK
    <3>2. PICK j \in 1..Taken : Line[j] = b
      BY <1>2, JoiningFacts
    <3>3. /\ Taken \in Nat /\ Len(Line) \in Nat /\ j \in 1..Len(Line)
      BY TakenFits, QueueIsPrefix, LineType, LenProperties
    <3>4. i <= j
      <4>1. SUFFICES ASSUME j < i PROVE FALSE
        BY <3>3
      <4>2. Earlier(b, a)
        BY <3>1, <3>2, <3>3, <4>1 DEF LineOK
      <4>3. arrival_step[a] \in Nat /\ arrival_step[b] \in Nat /\ a \in Int /\ b \in Int
        BY ArgumentAssumption DEF ArgumentsOK
      <4> QED
        BY <4>2, <4>3 DEF Earlier
    <3>5. i \in 1..Taken
      BY <3>3, <3>4
    <3>6. a \in Joining
      BY <3>1, <3>5, JoiningFacts
    <3> QED
      BY <1>1, <1>2, <3>6
  <2>2. CASE first_service[a] # NoStep
    <3>1. first_service[a] \in Nat /\ first_service[a] < step /\ a \notin Joining
      BY <2>2, JoiningFacts DEF ServedOK, Untouched, InProgress, Done, Started
    <3> QED
      BY <1>1, <1>2, <3>1
  <2> QED
    BY <2>1, <2>2
<1>3. CASE b \notin Joining
  <2>1. first_service'[b] = first_service[b] /\ first_service[b] # NoStep
    BY <1>1, <1>3
  <2>2. first_service[a] \in 0..first_service[b]
    BY <2>1 DEF FirstComeFirstServed
  <2>3. a \notin Joining
    BY <2>2, JoiningFacts DEF Untouched, NoStep
  <2> QED
    BY <1>1, <2>1, <2>2, <2>3
<1> QED
  BY <1>2, <1>3

(* A request that joins starts now; every other keeps its first service.     *)
LEMMA FillServes ==
  ASSUME ArgumentsOK, LineOK, ServedOK, History, Fill
  PROVE  /\ first_service' \in [Ids -> Nat \cup {NoStep}]
         /\ \A id \in Joining : first_service[id] = NoStep /\ first_service'[id] = step
         /\ \A id \in Ids \ Joining : first_service'[id] = first_service[id]
         /\ \A id \in Ids : first_service[id] = NoStep \/ first_service[id] \in 0..(step - 1)
         /\ Joining \subseteq Ids /\ InService \subseteq Ids /\ InService \cap Joining = {}
         /\ arrival_step' = arrival_step /\ output_tokens' = output_tokens
         /\ capacity' = capacity /\ mode' = mode
<1>1. /\ first_service' = [id \in Ids |-> IF id \in Joining THEN step ELSE first_service[id]]
      /\ arrival_step' = arrival_step /\ output_tokens' = output_tokens
      /\ capacity' = capacity /\ mode' = mode
  BY DEF Fill, arguments
<1>2. step \in Nat
  BY DEF ArgumentsOK
<1>3. \A id \in Ids : first_service[id] = NoStep \/ first_service[id] \in 0..(step - 1)
  BY <1>2 DEF ServedOK, Untouched, InProgress, Done, Started
<1>4. \A id \in Joining : id \in Ids /\ Untouched(id)
  BY JoiningFacts
<1>5. first_service' \in [Ids -> Nat \cup {NoStep}]
  BY <1>1, <1>2, <1>3
<1>6. InService \subseteq Ids /\ InService \cap Joining = {}
  BY <1>4 DEF InService, Untouched
<1> QED
  BY <1>1, <1>3, <1>4, <1>5, <1>6 DEF Untouched

(* Filling changes no step of the past, and the batch is what decodes now.   *)
LEMMA FillSchedule ==
  ASSUME ArgumentsOK, LineOK, ServedOK, History, Fill
  PROVE  /\ \A s \in 0..(step - 1) :
              /\ Decoding(first_service', s) = Decoding(first_service, s)
              /\ Starting(first_service', s) = Starting(first_service, s)
         /\ Decoding(first_service', step) = Batch
         /\ Starting(first_service', step) = Joining
<1>1. step \in Nat /\ \A id \in Ids : output_tokens[id] \in Nat \ {0}
  BY DEF ArgumentsOK
<1>2. /\ \A id \in Joining : first_service[id] = NoStep /\ first_service'[id] = step
      /\ \A id \in Ids \ Joining : first_service'[id] = first_service[id]
      /\ \A id \in Ids : first_service[id] = NoStep \/ first_service[id] \in 0..(step - 1)
      /\ Joining \subseteq Ids /\ InService \subseteq Ids
  BY FillServes
<1>3. ASSUME NEW s \in 0..(step - 1)
      PROVE  /\ Decoding(first_service', s) = Decoding(first_service, s)
             /\ Starting(first_service', s) = Starting(first_service, s)
  <2>1. ASSUME NEW id \in Ids
        PROVE  /\ id \in Decoding(first_service', s) <=> id \in Decoding(first_service, s)
               /\ id \in Starting(first_service', s) <=> id \in Starting(first_service, s)
    BY <1>1, <1>2, <1>3 DEF Decoding, Starting, NoStep
  <2> QED
    BY <2>1 DEF Decoding, Starting
<1>4. ASSUME NEW id \in Ids
      PROVE  /\ id \in Decoding(first_service', step) <=> id \in Batch
             /\ id \in Starting(first_service', step) <=> id \in Joining
  <2>1. CASE id \in Joining
    BY <1>1, <1>2, <2>1 DEF Decoding, Starting, Batch, NoStep
  <2>2. CASE id \notin Joining
    <3>1. id \in InService <=> id \in Decoding(first_service, step) /\ first_service[id] < step
      BY InServiceIsDecoding
    <3> QED
      BY <1>1, <1>2, <2>2, <3>1 DEF Decoding, Starting, Batch, NoStep
  <2> QED
    BY <2>1, <2>2
<1>5. Decoding(first_service', step) = Batch /\ Starting(first_service', step) = Joining
  BY <1>2, <1>4 DEF Decoding, Starting, Batch
<1> QED
  BY <1>3, <1>5

(* Whoever waits although it has arrived was left in the queue, so that the  *)
(* lanes are full or, in static mode, an old batch is still running.         *)
LEMMA LeftWaiting ==
  ASSUME ArgumentsOK, LineOK, ServedOK, History, Fill,
         NEW id \in Ids, first_service'[id] = NoStep, arrival_step[id] <= step
  PROVE  /\ Len(waiting') > 0
         /\ MayFill => Cardinality(Batch) = capacity
         /\ ~MayFill => Joining = {} /\ InService # {} /\ mode = "static"
<1>1. first_service[id] = NoStep /\ id \notin Joining
  BY FillServes DEF NoStep, ArgumentsOK
<1>2. PICK k \in 1..Len(Line) : Line[k] = id
  BY <1>1 DEF LineOK
<1>3. /\ Taken \in 0..Len(Queue) /\ Len(Queue) \in Nat /\ Len(Queue) <= Len(Line)
      /\ Len(Line) \in Nat
  BY TakenFits, QueueIsPrefix, LineType, LenProperties
<1>4. k \notin 1..Taken
  BY <1>1, <1>2, JoiningFacts
<1>5. k <= Len(Queue)
  <2>1. SUFFICES ASSUME Len(Queue) < k PROVE FALSE
    BY <1>3
  <2>2. k \in (Len(Queue) + 1)..Len(Line)
    BY <1>3, <2>1
  <2>3. step < arrival_step[id]
    BY <1>2, <2>2, QueueIsPrefix
  <2>4. step \in Nat /\ arrival_step[id] \in Nat
    BY DEF ArgumentsOK
  <2> QED
    BY <2>3, <2>4
<1>6. Taken < Len(Queue)
  BY <1>3, <1>4, <1>5
<1>7. Len(waiting') > 0
  BY <1>3, <1>6, FillLine
<1>8. MayFill => Cardinality(Batch) = capacity
  BY <1>6, TakenFits, JoiningFacts
<1>9. ASSUME ~MayFill PROVE Joining = {} /\ InService # {} /\ mode = "static"
  <2>1. Joining = {}
    BY <1>9, TakenFits, JoiningFacts
  <2> QED
    BY <1>9, <2>1 DEF MayFill, ArgumentsOK
<1> QED
  BY <1>7, <1>8, <1>9

(* The history up to and including the step that decodes now.                *)
PastOf(fs, s) ==
  /\ Cardinality(Decoding(fs, s)) <= capacity
  /\ \A id \in Ids : (arrival_step[id] <= s /\ (fs[id] = NoStep \/ s < fs[id])) =>
       IF mode = "continuous" THEN Cardinality(Decoding(fs, s)) = capacity
       ELSE Decoding(fs, s) \ Starting(fs, s) # {} \/ Cardinality(Starting(fs, s)) = capacity

LEMMA FillHistory ==
  ASSUME ArgumentsOK, LineOK, ServedOK, History, Fill, NEW s \in 0..step
  PROVE  PastOf(first_service', s)
<1>1. step \in Nat /\ capacity \in Nat
  BY DEF ArgumentsOK
<1>2. /\ \A id \in Joining : first_service[id] = NoStep /\ first_service'[id] = step
      /\ \A id \in Ids \ Joining : first_service'[id] = first_service[id]
      /\ \A id \in Ids : first_service[id] = NoStep \/ first_service[id] \in 0..(step - 1)
      /\ InService \cap Joining = {}
  BY FillServes
<1>3. CASE s < step
  <2>1. /\ Decoding(first_service', s) = Decoding(first_service, s)
        /\ Starting(first_service', s) = Starting(first_service, s)
        /\ s \in 0..(step - 1)
    BY <1>1, <1>3, FillSchedule
  <2>2. \A id \in Ids : (first_service'[id] = NoStep \/ s < first_service'[id])
          => (first_service[id] = NoStep \/ s < first_service[id])
    BY <1>2
  <2> QED
    BY <2>1, <2>2 DEF PastOf, History
<1>4. CASE s = step
  <2>1. Decoding(first_service', s) = Batch /\ Starting(first_service', s) = Joining
    BY <1>4, FillSchedule
  <2>2. Cardinality(Batch) <= capacity
    BY TakenFits, JoiningFacts
  <2>3. ASSUME NEW id \in Ids, arrival_step[id] <= s,
               first_service'[id] = NoStep \/ s < first_service'[id]
        PROVE  IF mode = "continuous" THEN Cardinality(Batch) = capacity
               ELSE Batch \ Joining # {} \/ Cardinality(Joining) = capacity
    <3>1. first_service'[id] = NoStep
      BY <1>1, <1>2, <1>4, <2>3 DEF NoStep
    <3>2. CASE MayFill
      <4>1. Cardinality(Batch) = capacity
        BY <1>4, <2>3, <3>1, <3>2, LeftWaiting
      <4>2. mode # "continuous" => Batch = Joining
        BY <3>2 DEF MayFill, Batch
      <4> QED
        BY <4>1, <4>2
    <3>3. CASE ~MayFill
      <4>1. Joining = {} /\ InService # {} /\ mode = "static"
        BY <1>4, <2>3, <3>1, <3>3, LeftWaiting
      <4> QED
        BY <4>1 DEF Batch
    <3> QED
      BY <3>2, <3>3
  <2> QED
    BY <2>1, <2>2, <2>3 DEF PastOf
<1> QED
  BY <1>1, <1>3, <1>4

LEMMA FillDrains ==
  ASSUME ArgumentsOK, LineOK, ServedOK, History, Drained, Fill
  PROVE  Drained'
<1>1. /\ step \in Nat
      /\ \A id \in Joining : first_service[id] = NoStep /\ first_service'[id] = step
      /\ \A id \in Ids \ Joining : first_service'[id] = first_service[id]
      /\ \A id \in Ids : first_service[id] = NoStep \/ first_service[id] \in 0..(step - 1)
      /\ output_tokens' = output_tokens /\ mode' = mode
  BY FillServes DEF ArgumentsOK
<1> SUFFICES ASSUME mode = "static", NEW a \in Ids, NEW b \in Ids,
                    first_service'[a] # NoStep, first_service'[a] < first_service'[b]
             PROVE  first_service'[a] + output_tokens[a] <= first_service'[b]
  BY <1>1 DEF Drained
<1>2. a \notin Joining
  BY <1>1 DEF NoStep
<1>3. CASE b \in Joining
  <2>1. InService = {}
    BY <1>3, TakenFits, JoiningFacts DEF MayFill
  <2>2. Done(a)
    BY <1>1, <1>2, <2>1 DEF ServedOK, Untouched, InProgress, InService
  <2> QED
    BY <1>1, <1>2, <1>3, <2>2 DEF Done
<1>4. CASE b \notin Joining
  BY <1>1, <1>2, <1>4 DEF Drained
<1> QED
  BY <1>3, <1>4

(* What one turn needs of the state it starts in. *)
TurnInv ==
  ArgumentsOK /\ LineOK /\ ServedOK /\ FirstComeFirstServed /\ History /\ Drained

-----------------------------------------------------------------------------
(* The jump. *)

(* Nobody was ready, so nobody waits, and the step jumped to is no later than *)
(* any arrival to come.                                                       *)
LEMMA JumpFacts ==
  ASSUME TurnInv, Jump
  PROVE  /\ InService = {} /\ Joining = {}
         /\ Len(waiting') = 0 /\ Len(pending') \in Nat /\ Len(pending') > 0
         /\ step' \in Nat /\ step < step'
         /\ \A i \in 1..Len(pending') : step' <= arrival_step[pending'[i]]
<1>1. Fill /\ Batch = {} /\ Later # <<>> /\ step' = arrival_step[Head(Later)]
  BY DEF Jump
<1>2. InService = {} /\ Joining = {} /\ MayFill
  BY <1>1 DEF Batch, MayFill
<1>3. /\ Taken \in 0..Len(Queue) /\ Len(Queue) \in Nat /\ Len(Queue) <= Len(Line)
      /\ Len(Line) \in Nat
  BY TakenFits, QueueIsPrefix, LineType, LenProperties DEF TurnInv
<1>4. Len(waiting') = 0
  <2>1. Cardinality(Batch) = 0
    BY <1>1, FS_EmptySet
  <2>2. Taken < Len(Queue) => Cardinality(Batch) = capacity
    BY <1>2, TakenFits, JoiningFacts DEF TurnInv
  <2>3. capacity # 0
    BY DEF TurnInv, ArgumentsOK
  <2>4. Taken = Len(Queue)
    BY <1>3, <2>1, <2>2, <2>3
  <2> QED
    BY <1>1, <1>3, <2>4, FillLine DEF TurnInv
<1>5. /\ Later \in Seq(Ids) /\ Len(Later) = Len(Line) - Len(Queue) /\ Len(Later) \in Nat
      /\ Len(Later) > 0 /\ Head(Later) = Later[1]
  <2>1. Later \in Seq(Ids) /\ Len(Later) = Len(Line) - Len(Queue)
    BY QueueIsPrefix DEF TurnInv
  <2> QED
    BY <1>1, <2>1, LenProperties, EmptySeq, HeadTailProperties
<1>6. /\ Len(pending') = Len(Later) /\ Line \in Seq(Ids)
      /\ \A i \in 1..Len(pending') :
           pending'[i] = Line[Len(Queue) + i] /\ Later[i] = Line[Len(Queue) + i]
  BY <1>1, <1>5, FillLine, QueueIsPrefix, LineType DEF TurnInv
<1> DEFINE first == Len(Queue) + 1
<1>7. /\ step' = arrival_step[Line[first]] /\ first \in (Len(Queue) + 1)..Len(Line)
      /\ first \in 1..Len(Line) /\ Line[first] \in Ids
  <2>1. 1 \in 1..Len(pending')
    BY <1>5, <1>6
  <2>2. Head(Later) = Line[first]
    BY <1>5, <1>6, <2>1
  <2>3. first \in (Len(Queue) + 1)..Len(Line) /\ first \in 1..Len(Line)
    BY <1>3, <1>5
  <2>4. Line[first] \in Ids
    BY <1>6, <2>3, ElementOfSeq
  <2> QED
    BY <1>1, <2>2, <2>3, <2>4
<1>8. step < step' /\ step' \in Nat
  BY <1>7, QueueIsPrefix DEF TurnInv, ArgumentsOK
<1>9. ASSUME NEW i \in 1..Len(pending')
      PROVE  step' <= arrival_step[pending'[i]]
  <2> DEFINE k == Len(Queue) + i
  <2>1. pending'[i] = Line[k] /\ k \in 1..Len(Line) /\ (k = first \/ first < k)
    BY <1>3, <1>5, <1>6
  <2>2. CASE k = first
    BY <1>7, <1>8, <2>1, <2>2
  <2>3. CASE first < k
    <3> HIDE DEF k, first
    <3>1. Earlier(Line[first], Line[k])
      BY <1>7, <2>1, <2>3 DEF TurnInv, LineOK
    <3>2. Line[k] \in Ids
      BY <1>6, <2>1, ElementOfSeq
    <3>3. arrival_step[Line[first]] \in Nat /\ arrival_step[Line[k]] \in Nat
      BY <1>7, <3>2 DEF TurnInv, ArgumentsOK
    <3> QED
      BY <1>7, <2>1, <3>1, <3>3 DEF Earlier
  <2> HIDE DEF k, first
  <2> QED
    BY <2>1, <2>2, <2>3
<1> QED
  BY <1>2, <1>4, <1>5, <1>6, <1>8, <1>9

LEMMA JumpKeepsHistory ==
  ASSUME TurnInv, Jump
  PROVE  History'
<1>1. /\ Fill /\ InService = {} /\ Joining = {}
      /\ Len(waiting') = 0 /\ step' \in Nat /\ step < step'
      /\ \A i \in 1..Len(pending') : step' <= arrival_step[pending'[i]]
  BY JumpFacts DEF Jump
<1>2. /\ \A id \in Ids : first_service'[id] = first_service[id]
      /\ \A id \in Ids : first_service[id] = NoStep \/ first_service[id] \in 0..(step - 1)
      /\ output_tokens' = output_tokens /\ mode' = mode
      /\ arrival_step' = arrival_step /\ capacity' = capacity
  BY <1>1, FillServes DEF TurnInv
<1>3. step \in Nat /\ capacity \in Nat /\ \A id \in Ids : arrival_step[id] \in Nat
  BY DEF TurnInv, ArgumentsOK
<1>4. ASSUME NEW s \in 0..(step' - 1)
      PROVE  PastOf(first_service', s)
  <2>1. CASE s \in 0..step
    BY <1>1, <2>1, FillHistory DEF TurnInv
  <2>2. CASE s \notin 0..step
    <3>1. s \in Nat /\ step < s /\ s < step'
      BY <1>1, <1>3, <1>4, <2>2
    <3>2. Decoding(first_service', s) = {}
      <4>1. ASSUME NEW id \in Decoding(first_service', s)
            PROVE  FALSE
        <5>1. id \in Ids /\ first_service[id] # NoStep /\ s < first_service[id] + output_tokens[id]
          BY <1>2, <4>1 DEF Decoding
        <5>2. Done(id)
          BY <1>1, <5>1 DEF TurnInv, ServedOK, Untouched, InProgress, InService
        <5>3. first_service[id] \in Nat /\ output_tokens[id] \in Nat
          BY <5>1, <5>2 DEF Done, Started, TurnInv, ArgumentsOK
        <5> QED
          BY <1>3, <3>1, <5>1, <5>2, <5>3 DEF Done
      <4> QED
        BY <4>1
    <3>3. Cardinality(Decoding(first_service', s)) = 0
      BY <3>2, FS_EmptySet
    <3>4. ASSUME NEW id \in Ids, arrival_step[id] <= s,
                 first_service'[id] = NoStep \/ s < first_service'[id]
          PROVE  FALSE
      <4>1. first_service'[id] = NoStep
        BY <1>2, <1>3, <3>1, <3>4
      <4>2. LineOK'
        BY <1>1, FillKeepsLine DEF TurnInv
      <4>3. PICK i \in 1..Len(Line') : Line'[i] = id
        BY <4>1, <4>2 DEF LineOK
      <4>4. Line' = pending'
        <5>1. waiting' \in Seq(Ids) /\ pending' \in Seq(Ids)
          BY <1>1, FillLine DEF TurnInv
        <5>2. waiting' = <<>>
          BY <1>1, <5>1, EmptySeq
        <5>3. Line' = waiting' \o pending'
          BY DEF Line
        <5> QED
          BY <5>1, <5>2, <5>3, ConcatEmptySeq
      <4>5. step' <= arrival_step[id]
        BY <1>1, <4>3, <4>4
      <4> QED
        BY <1>1, <1>3, <3>1, <3>4, <4>5
    <3> QED
      BY <1>3, <3>3, <3>4 DEF PastOf
  <2> QED
    BY <2>1, <2>2
<1>5. \A s \in 0..(step' - 1) : PastOf(first_service', s)
  BY <1>4
<1> QED
  BY <1>2, <1>5 DEF History, PastOf, Decoding, Starting

LEMMA JumpKeeps ==
  ASSUME IInv, Jump
  PROVE  IInv'
<1>1. TurnInv
  BY DEF IInv, TurnInv
<1>2. /\ Fill /\ InService = {} /\ Joining = {}
      /\ Len(waiting') = 0 /\ Len(pending') \in Nat /\ Len(pending') > 0
      /\ step' \in Nat /\ step < step'
      /\ \A i \in 1..Len(pending') : step' <= arrival_step[pending'[i]]
      /\ active' = active /\ completed' = completed /\ result' = result /\ result = Running
  BY <1>1, JumpFacts DEF Jump, Fill
<1>3. /\ first_service' \in [Ids -> Nat \cup {NoStep}]
      /\ \A id \in Ids : first_service'[id] = first_service[id]
      /\ output_tokens' = output_tokens /\ mode' = mode
      /\ arrival_step' = arrival_step /\ capacity' = capacity
  BY <1>1, <1>2, FillServes DEF TurnInv
<1>4. ArgumentsOK'
  BY <1>1, <1>2, <1>3 DEF TurnInv, ArgumentsOK
<1>5. LineOK'
  BY <1>1, <1>2, FillKeepsLine DEF TurnInv
<1>6. ServedOK'
  <2>1. ASSUME NEW id \in Ids PROVE Untouched(id)' \/ Done(id)'
    <3>1. Untouched(id) \/ Done(id)
      BY <1>1, <1>2 DEF TurnInv, ServedOK, InProgress, InService
    <3>2. CASE Untouched(id)
      BY <1>2, <1>3, <3>2 DEF Untouched
    <3>3. CASE Done(id)
      <4>1. output_tokens[id] \in Nat /\ step \in Nat
        BY <1>1 DEF TurnInv, ArgumentsOK
      <4> QED
        BY <1>2, <1>3, <3>3, <4>1 DEF Done, Started
    <3> QED
      BY <3>1, <3>2, <3>3
  <2> QED
    BY <1>3, <2>1 DEF ServedOK
<1>7. FirstComeFirstServed' /\ Drained'
  BY <1>1, <1>2, FillKeepsOrder, FillDrains DEF TurnInv
<1>8. History'
  BY <1>1, JumpKeepsHistory
<1>9. Ending'
  <2>1. pending' # <<>>
    BY <1>2, EmptySeq
  <2> QED
    BY <2>1 DEF Ending, Unfinished
<1>10. ResultOK'
  BY <1>2 DEF ResultOK
<1> QED
  BY <1>4, <1>5, <1>6, <1>7, <1>8, <1>9, <1>10 DEF IInv

-----------------------------------------------------------------------------
(* One token for every member of the batch, and the return. *)

LEMMA DecodeKeepsServed ==
  ASSUME TurnInv, Decode
  PROVE  ServedOK'
<1>1. /\ Fill /\ step' = step + 1
      /\ active' = [id \in Ids |-> IF id \in Batch THEN TokensLeft(id) - 1 ELSE 0]
      /\ completed' = [id \in Ids |->
                         IF id \in Batch /\ TokensLeft(id) = 1 THEN step + 1 ELSE completed[id]]
  BY DEF Decode
<1>2. /\ first_service' \in [Ids -> Nat \cup {NoStep}]
      /\ \A id \in Joining : first_service[id] = NoStep /\ first_service'[id] = step
      /\ \A id \in Ids \ Joining : first_service'[id] = first_service[id]
      /\ output_tokens' = output_tokens /\ arrival_step' = arrival_step
  BY <1>1, FillServes DEF TurnInv
<1>3. /\ step \in Nat
      /\ \A id \in Ids : output_tokens[id] \in Nat \ {0} /\ arrival_step[id] \in Nat
  BY DEF TurnInv, ArgumentsOK
<1>4. ASSUME NEW id \in Ids
      PROVE  Untouched(id)' \/ InProgress(id)' \/ Done(id)'
  <2>1. CASE id \in Joining
    <3>1. id \in Batch /\ TokensLeft(id) = output_tokens[id] /\ completed[id] = NoStep
      BY <2>1, JoiningFacts DEF Batch, TokensLeft, TurnInv, Untouched
    <3>2. arrival_step[id] <= step
      <4>1. PICK i \in 1..Taken : id = Queue[i]
        BY <2>1 DEF Joining
      <4>2. i \in 1..Len(Queue)
        BY TakenFits, QueueIsPrefix, LineType, LenProperties DEF TurnInv
      <4> QED
        BY <4>1, <4>2, QueueIsPrefix DEF TurnInv
    <3>3. Started(id)'
      BY <1>1, <1>2, <1>3, <2>1, <3>2 DEF Started
    <3>4. /\ active'[id] = output_tokens[id] - 1
          /\ completed'[id] = IF output_tokens[id] = 1 THEN step + 1 ELSE NoStep
      BY <1>1, <3>1
    <3>5. CASE output_tokens[id] = 1
      BY <1>1, <1>2, <1>3, <2>1, <3>3, <3>4, <3>5 DEF Done
    <3>6. CASE output_tokens[id] # 1
      BY <1>1, <1>2, <1>3, <2>1, <3>3, <3>4, <3>6 DEF InProgress
    <3> QED
      BY <3>5, <3>6
  <2>2. CASE id \notin Joining
    <3>1. CASE Untouched(id)
      <4>1. id \notin Batch
        BY <2>2, <3>1 DEF Batch, InService, Untouched
      <4> QED
        BY <1>1, <1>2, <2>2, <3>1, <4>1 DEF Untouched
    <3>2. CASE InProgress(id)
      <4>1. id \in Batch /\ TokensLeft(id) = active[id]
        BY <2>2, <3>2 DEF Batch, InService, InProgress, TokensLeft
      <4>2. Started(id)'
        BY <1>1, <1>2, <1>3, <2>2, <3>2 DEF Started, InProgress
      <4>3. /\ active'[id] = active[id] - 1
            /\ completed'[id] = IF active[id] = 1 THEN step + 1 ELSE NoStep
        BY <1>1, <3>2, <4>1 DEF InProgress
      <4>4. first_service[id] \in Nat /\ first_service'[id] = first_service[id]
        BY <1>2, <2>2, <3>2 DEF InProgress, Started
      <4>5. /\ active[id] = first_service[id] + output_tokens[id] - step
            /\ active[id] \in Nat \ {0}
        BY <1>3, <3>2, <4>4 DEF InProgress
      <4>6. CASE active[id] = 1
        <5>1. active'[id] = 0 /\ completed'[id] = step + 1
          BY <4>3, <4>6
        <5>2. step + 1 = first_service[id] + output_tokens[id]
          BY <1>3, <4>4, <4>5, <4>6
        <5> QED
          BY <1>1, <1>2, <1>3, <4>2, <4>4, <5>1, <5>2 DEF Done
      <4>7. CASE active[id] # 1
        BY <1>1, <1>2, <1>3, <4>2, <4>3, <4>4, <4>5, <4>7 DEF InProgress
      <4> QED
        BY <4>6, <4>7
    <3>3. CASE Done(id)
      <4>1. id \notin Batch
        BY <2>2, <3>3 DEF Batch, InService, Done
      <4>2. first_service[id] \in Nat /\ first_service'[id] = first_service[id]
        BY <1>2, <2>2, <3>3 DEF Done, Started
      <4> QED
        BY <1>1, <1>2, <1>3, <3>3, <4>1, <4>2 DEF Done, Started
    <3> QED
      BY <3>1, <3>2, <3>3 DEF TurnInv, ServedOK
  <2> QED
    BY <2>1, <2>2
<1> QED
  BY <1>2, <1>4 DEF ServedOK

LEMMA DecodeKeeps ==
  ASSUME IInv, Decode
  PROVE  IInv'
<1>1. TurnInv
  BY DEF IInv, TurnInv
<1>2. /\ Fill /\ step' = step + 1 /\ Batch # {} /\ result' = result /\ result = Running
      /\ active' = [id \in Ids |-> IF id \in Batch THEN TokensLeft(id) - 1 ELSE 0]
      /\ completed' = [id \in Ids |->
                         IF id \in Batch /\ TokensLeft(id) = 1 THEN step + 1 ELSE completed[id]]
  BY DEF Decode, Fill
<1>3. /\ output_tokens' = output_tokens /\ mode' = mode
      /\ arrival_step' = arrival_step /\ capacity' = capacity
      /\ Joining \subseteq Ids /\ InService \subseteq Ids
  BY <1>1, <1>2, FillServes DEF TurnInv
<1>4. step \in Nat /\ step' \in Nat /\ step < step'
  BY <1>1, <1>2 DEF TurnInv, ArgumentsOK
<1>5. ArgumentsOK'
  BY <1>1, <1>3, <1>4 DEF TurnInv, ArgumentsOK
<1>6. LineOK'
  <2>1. ASSUME NEW i \in 1..Len(pending')
        PROVE  step' <= arrival_step[pending'[i]]
    <3> DEFINE k == Len(Queue) + i
    <3>1. /\ pending' \in Seq(Ids) /\ Len(pending') = Len(Line) - Len(Queue)
          /\ pending'[i] = Line[k]
      BY <1>1, <1>2, FillLine DEF TurnInv
    <3>2. k \in (Len(Queue) + 1)..Len(Line)
      BY <1>1, <3>1, QueueIsPrefix, LineType, LenProperties DEF TurnInv
    <3>3. step < arrival_step[Line[k]]
      BY <1>1, <3>2, QueueIsPrefix DEF TurnInv
    <3> HIDE DEF k
    <3>4. arrival_step[pending'[i]] \in Nat
      BY <1>1, <3>1, ElementOfSeq DEF TurnInv, ArgumentsOK
    <3> QED
      BY <1>2, <1>4, <3>1, <3>3, <3>4
  <2> QED
    BY <1>1, <1>2, <1>4, <2>1, FillKeepsLine DEF TurnInv
<1>7. ServedOK'
  BY <1>1, DecodeKeepsServed
<1>8. FirstComeFirstServed' /\ Drained'
  BY <1>1, <1>2, FillKeepsOrder, FillDrains DEF TurnInv
<1>9. History'
  <2>1. \A s \in 0..(step' - 1) : PastOf(first_service', s)
    <3>1. \A s \in 0..(step' - 1) : s \in 0..step
      BY <1>2, <1>4
    <3> QED
      BY <1>1, <1>2, <3>1, FillHistory DEF TurnInv
  <2> QED
    BY <1>3, <2>1 DEF History, PastOf, Decoding, Starting
<1>10. Ending'
  <2> SUFFICES ASSUME InService' = {} PROVE \E id \in Ids : completed'[id] = step'
    BY DEF Ending, Unfinished
  <2>1. PICK id \in Ids : id \in Batch
    BY <1>2, <1>3 DEF Batch
  <2>2. TokensLeft(id) \in Nat \ {0}
    BY <1>1, <2>1 DEF Batch, TokensLeft, InService, TurnInv, ArgumentsOK,
         ServedOK, Untouched, InProgress, Done, Started
  <2>3. ~(active'[id] > 0)
    BY <2>1 DEF InService
  <2>4. TokensLeft(id) = 1
    BY <1>2, <2>1, <2>2, <2>3
  <2> QED
    BY <1>2, <2>1, <2>4
<1>11. ResultOK'
  BY <1>2 DEF ResultOK
<1> QED
  BY <1>5, <1>6, <1>7, <1>8, <1>9, <1>10, <1>11 DEF IInv

(* Steps that leave the call where it is. *)
callState == <<arguments, pending, waiting, active, first_service, completed, step>>

LEMMA SameCallKeeps ==
  ASSUME IInv, UNCHANGED callState
  PROVE  /\ (ArgumentsOK /\ LineOK /\ ServedOK /\ FirstComeFirstServed)'
         /\ (History /\ Drained /\ Ending)'
         /\ Unfinished' = Unfinished /\ Makespan' = Makespan /\ TotalWait' = TotalWait
<1> USE DEF callState, arguments
<1>1. (ArgumentsOK /\ LineOK)'
  <2>1. ArgumentsOK'
    BY DEF IInv, ArgumentsOK
  <2>2. Line' = Line
    BY DEF Line
  <2>3. LineOK'
    BY <2>2 DEF IInv, LineOK, Earlier
  <2> QED
    BY <2>1, <2>3
<1>2. (ServedOK /\ FirstComeFirstServed)'
  BY DEF IInv, ServedOK, Untouched, InProgress, Done, Started, FirstComeFirstServed, Earlier
<1>3. (History /\ Drained)'
  BY DEF IInv, History, Drained, Decoding, Starting
<1>4. Ending' /\ Unfinished' = Unfinished
  BY DEF IInv, Ending, Unfinished, InService
<1>5. Makespan' = Makespan /\ TotalWait' = TotalWait
  BY DEF Makespan, FirstArrival, TotalWait
<1> QED
  BY <1>1, <1>2, <1>3, <1>4, <1>5

LEMMA ReturnKeeps ==
  ASSUME IInv, Return
  PROVE  IInv'
<1>1. UNCHANGED callState /\ ~Unfinished
      /\ result' = [status |-> "returned", makespan_steps |-> Makespan,
                    total_wait_steps |-> TotalWait]
  BY DEF Return, callState
<1>2. ResultOK'
  BY <1>1, SameCallKeeps DEF ResultOK
<1> QED
  BY <1>1, <1>2, SameCallKeeps DEF IInv

LEMMA StutterKeeps ==
  ASSUME IInv, UNCHANGED vars
  PROVE  IInv'
<1>1. UNCHANGED callState /\ result' = result
  BY DEF vars, callState
<1>2. ResultOK'
  BY <1>1, SameCallKeeps DEF ResultOK, IInv
<1> QED
  BY <1>1, <1>2, SameCallKeeps DEF IInv

LEMMA NextKeeps ==
  ASSUME IInv, [Next]_vars
  PROVE  IInv'
BY JumpKeeps, DecodeKeeps, ReturnKeeps, StutterKeeps DEF Next

-----------------------------------------------------------------------------
(* A call that starts. *)

Fresh ==
  /\ arrival_step \in [Ids -> Nat] /\ output_tokens \in [Ids -> Nat \ {0}]
  /\ capacity \in Nat \ {0} /\ mode \in {"static", "continuous"}
  /\ pending = InOrder /\ waiting = <<>>
  /\ active = [id \in Ids |-> 0]
  /\ first_service = [id \in Ids |-> NoStep] /\ completed = [id \in Ids |-> NoStep]
  /\ step = FirstArrival /\ result = Running

LEMMA FirstArrivalIsFirst ==
  ASSUME NEW arrival \in [Ids -> Nat]
  PROVE  /\ Min({arrival[id] : id \in Ids}) \in {arrival[id] : id \in Ids}
         /\ Min({arrival[id] : id \in Ids}) \in Nat
         /\ \A a \in Ids : Min({arrival[id] : id \in Ids}) <= arrival[a]
<1> DEFINE all == {arrival[id] : id \in Ids}
<1>1. all \in SUBSET Nat /\ all # {} /\ \A id \in Ids : arrival[id] \in all
  BY ArgumentAssumption
<1> HIDE DEF all
<1>2. Min(all) \in all /\ \A x \in all : Min(all) <= x
  BY <1>1, MinExists
<1> QED
  BY <1>1, <1>2 DEF all

LEMMA FreshLine ==
  ASSUME Fresh
  PROVE  LineOK /\ pending # <<>>
<1>1. arrival_step \in [Ids -> Nat] /\ step = FirstArrival
  BY DEF Fresh
<1>2. pending = Sorted(arrival_step)
  BY DEF Fresh, InOrder, Sorted, Earlier, ComesFirst
<1>3. /\ pending \in Seq(Ids)
      /\ \A i, j \in 1..Len(pending) : i < j => Earlier(pending[i], pending[j])
      /\ {pending[i] : i \in 1..Len(pending)} = Ids
  <2> DEFINE sorted == Sorted(arrival_step)
  <2>1. /\ sorted \in Seq(Ids)
        /\ \A i, j \in 1..Len(sorted) : i < j => ComesFirst(arrival_step, sorted[i], sorted[j])
        /\ {sorted[i] : i \in 1..Len(sorted)} = Ids
    BY <1>1, SortedIsSorted
  <2>2. \A a, b : ComesFirst(arrival_step, a, b) <=> Earlier(a, b)
    BY DEF ComesFirst, Earlier
  <2> HIDE DEF sorted
  <2>3. pending = sorted
    BY <1>2 DEF sorted
  <2> QED
    BY <2>1, <2>2, <2>3
<1>4. waiting = <<>> /\ waiting \in Seq(Ids) /\ Len(waiting) = 0
  BY EmptySeq DEF Fresh
<1>5. Line = pending
  BY <1>3, <1>4, ConcatEmptySeq DEF Line
<1>6. {id \in Ids : first_service[id] = NoStep} = Ids
  BY DEF Fresh
<1>7. ASSUME NEW i \in 1..Len(pending)
      PROVE  step <= arrival_step[pending[i]]
  BY <1>1, <1>3, FirstArrivalIsFirst, ElementOfSeq DEF FirstArrival
<1>8. pending # <<>>
  <2>1. PICK id \in Ids : TRUE
    BY ArgumentAssumption
  <2>2. PICK i \in 1..Len(pending) : pending[i] = id
    BY <1>3, <2>1
  <2> QED
    BY <2>2, EmptySeq
<1> QED
  BY <1>3, <1>4, <1>5, <1>6, <1>7, <1>8 DEF LineOK

LEMMA FreshHolds == Fresh => IInv
<1> SUFFICES ASSUME Fresh PROVE IInv
  OBVIOUS
<1>1. /\ arrival_step \in [Ids -> Nat] /\ step = FirstArrival /\ step \in Nat
      /\ \A id \in Ids : step <= arrival_step[id]
  BY FirstArrivalIsFirst DEF Fresh, FirstArrival
<1>2. first_service = [id \in Ids |-> NoStep] /\ \A id \in Ids : first_service[id] = NoStep
  BY DEF Fresh
<1>3. ArgumentsOK
  BY <1>1 DEF Fresh, ArgumentsOK
<1>4. LineOK /\ pending # <<>>
  BY FreshLine
<1>5. ServedOK
  BY <1>2 DEF ServedOK, Untouched, Fresh
<1>6. FirstComeFirstServed /\ Drained
  BY <1>2 DEF FirstComeFirstServed, Drained
<1>7. History
  <2>1. ASSUME NEW s \in 0..(step - 1)
        PROVE  /\ Cardinality(Decoding(first_service, s)) <= capacity
               /\ \A id \in Ids : ~(arrival_step[id] <= s)
    <3>1. Decoding(first_service, s) = {}
      BY <1>2 DEF Decoding
    <3>2. Cardinality(Decoding(first_service, s)) = 0
      BY <3>1, FS_EmptySet
    <3> QED
      BY <1>1, <3>2 DEF Fresh
  <2> QED
    BY <2>1 DEF History
<1>8. Ending
  BY <1>4 DEF Ending, Unfinished
<1>9. ResultOK
  BY DEF ResultOK, Fresh
<1> QED
  BY <1>3, <1>4, <1>5, <1>6, <1>7, <1>8, <1>9 DEF IInv

LEMMA InitHolds == Init => IInv
<1>1. Init => Fresh
  BY ArgumentAssumption DEF Init, Fresh
<1> QED
  BY <1>1, FreshHolds

-----------------------------------------------------------------------------
(* What a finished call leaves. *)

LEMMA FinishedIsSchedule ==
  ASSUME IInv, ~Unfinished
  PROVE  /\ \A id \in Ids : Done(id)
         /\ Schedule(arrival_step, mode, first_service)
<1>1. /\ arrival_step \in [Ids -> Nat] /\ step \in Nat /\ capacity \in Nat
      /\ output_tokens \in [Ids -> Nat \ {0}] /\ mode \in {"static", "continuous"}
  BY DEF IInv, ArgumentsOK
<1>2. ASSUME NEW id \in Ids PROVE Done(id)
  <2>1. ~Untouched(id)
    <3> SUFFICES ASSUME first_service[id] = NoStep PROVE FALSE
      BY DEF Untouched
    <3>1. PICK i \in 1..Len(Line) : Line[i] = id
      BY DEF IInv, LineOK
    <3>2. Len(waiting) = 0 /\ Len(pending) = 0
      BY EmptySeq DEF Unfinished
    <3> QED
      BY <3>1, <3>2, LineType DEF IInv
  <2> QED
    BY <2>1 DEF IInv, ServedOK, InProgress, Unfinished, InService
<1>3. /\ first_service \in [Ids -> Nat]
      /\ \A id \in Ids : arrival_step[id] <= first_service[id] /\ first_service[id] < step
      /\ \A id \in Ids : first_service[id] # NoStep
  BY <1>1, <1>2 DEF Done, Started, IInv, ServedOK, NoStep
<1>4. ASSUME NEW a \in Ids, NEW b \in Ids, Earlier(a, b)
      PROVE  first_service[a] <= first_service[b]
  BY <1>3, <1>4 DEF IInv, FirstComeFirstServed
<1>5. \A id \in Ids : first_service[id] \in 0..(step - 1)
  BY <1>1, <1>3
<1>6. \A id \in Ids : Cardinality(Decoding(first_service, first_service[id])) <= capacity
  BY <1>5 DEF IInv, History
<1>7. ASSUME NEW id \in Ids, NEW s \in Nat, arrival_step[id] <= s, s < first_service[id]
      PROVE  IF mode = "continuous" THEN Cardinality(Decoding(first_service, s)) = capacity
             ELSE \/ Decoding(first_service, s) \ Starting(first_service, s) # {}
                  \/ Cardinality(Starting(first_service, s)) = capacity
  <2>1. s \in 0..(step - 1)
    BY <1>1, <1>3, <1>7
  <2> QED
    BY <1>7, <2>1 DEF IInv, History
<1>8. mode = "static" =>
        \A a, b \in Ids : first_service[a] < first_service[b] =>
          first_service[a] + output_tokens[a] <= first_service[b]
  BY <1>3 DEF IInv, Drained
<1>9. Schedule(arrival_step, mode, first_service)
  BY <1>3, <1>4, <1>6, <1>7, <1>8 DEF Schedule, Earlier
<1> QED
  BY <1>2, <1>9

(* The last step of a call is its last completion. *)
LEMMA FinishedSpan ==
  ASSUME IInv, ~Unfinished
  PROVE  /\ {completed[id] : id \in Ids} = Ends(first_service)
         /\ step = Max(Ends(first_service))
         /\ [status |-> "returned", makespan_steps |-> Makespan,
             total_wait_steps |-> TotalWait] = Outcome(arrival_step, first_service)
<1>1. \A id \in Ids : completed[id] = first_service[id] + output_tokens[id] /\ completed[id] <= step
  BY FinishedIsSchedule DEF Done
<1>2. {completed[id] : id \in Ids} = Ends(first_service)
  BY <1>1 DEF Ends
<1>3. Ends(first_service) \in SUBSET Int /\ step \in Int
  <2>1. \A id \in Ids : first_service[id] + output_tokens[id] \in Int
    BY FinishedIsSchedule DEF Done, Started, IInv, ArgumentsOK
  <2> QED
    BY <2>1 DEF Ends, IInv, ArgumentsOK
<1>4. step \in Ends(first_service) /\ \A x \in Ends(first_service) : x <= step
  BY <1>1, <1>2 DEF IInv, Ending
<1>5. step = Max(Ends(first_service))
  <2>1. Max(Ends(first_service)) \in Ends(first_service)
    BY <1>3, <1>4, MaxExists
  <2>2. step <= Max(Ends(first_service))
    BY <1>3, <1>4, MaxExists
  <2> QED
    BY <1>3, <1>4, <2>1, <2>2
<1> QED
  BY <1>2, <1>5 DEF Makespan, TotalWait, Outcome, FirstArrival

-----------------------------------------------------------------------------
(* The rules determine the schedule. *)

(* Of the requests that break a claim, one comes before all the others.      *)
LEMMA FirstOffender ==
  ASSUME NEW arrival \in [Ids -> Nat], NEW bad \in SUBSET Ids, bad # {}
  PROVE  \E id \in bad : \A other \in Ids : ComesFirst(arrival, other, id) => other \notin bad
<1> DEFINE soonest == {id \in bad : \A other \in bad : arrival[id] <= arrival[other]}
<1>1. IsFiniteSet(Ids) /\ Ids \subseteq Int
  BY ArgumentAssumption
<1>2. soonest # {}
  <2> DEFINE arrivals == {arrival[id] : id \in bad}
  <2>1. arrivals \in SUBSET Nat /\ arrivals # {}
    OBVIOUS
  <2> HIDE DEF arrivals
  <2>2. Min(arrivals) \in arrivals /\ \A x \in arrivals : Min(arrivals) <= x
    BY <2>1, MinExists
  <2>3. PICK id \in bad : Min(arrivals) = arrival[id]
    BY <2>2 DEF arrivals
  <2>4. \A other \in bad : arrival[id] <= arrival[other]
    BY <2>2, <2>3 DEF arrivals
  <2> QED
    BY <2>4
<1> DEFINE negated == {-id : id \in soonest}
<1>3. /\ negated \in SUBSET Int /\ negated # {} /\ IsFiniteSet(negated)
  <2>1. IsFiniteSet(soonest)
    BY <1>1, FS_Subset
  <2>2. IsFiniteSet(negated)
    <3> HIDE DEF soonest
    <3> DEFINE flip == [id \in soonest |-> -id]
    <3>1. flip \in Surjection(soonest, negated)
      BY DEF Surjection
    <3> HIDE DEF flip, negated
    <3> QED
      BY <2>1, <3>1, FS_Surjection
  <2>3. soonest \subseteq Int
    BY <1>1
  <2> HIDE DEF soonest
  <2>4. negated \subseteq Int
    <3>1. \A x \in soonest : -x \in Int
      BY <2>3
    <3> QED
      BY <3>1
  <2>5. negated # {}
    <3>1. PICK x \in soonest : TRUE
      BY <1>2
    <3>2. -x \in negated
      OBVIOUS
    <3> QED
      BY <3>2
  <2> QED
    BY <2>2, <2>4, <2>5
<1> DEFINE id == -Max(negated)
<1>4. Max(negated) \in negated /\ \A x \in negated : x <= Max(negated)
  <2> HIDE DEF negated
  <2> QED
    BY <1>3, FiniteMaxExists
<1>5. id \in soonest /\ \A other \in soonest : id <= other
  <2> HIDE DEF soonest
  <2>1. \A x \in soonest : x \in Int
    BY <1>1 DEF soonest
  <2>2. PICK x \in soonest : Max(negated) = -x
    BY <1>4
  <2>3. \A other \in soonest : -other <= -x
    BY <1>4, <2>2
  <2>4. id = x
    BY <2>1, <2>2
  <2> QED
    BY <2>1, <2>2, <2>3, <2>4
<1> HIDE DEF id
<1>6. ASSUME NEW other \in Ids, ComesFirst(arrival, other, id), other \in bad
      PROVE  FALSE
  <2>1. id \in bad /\ id \in Int /\ other \in Int /\ arrival[id] <= arrival[other]
    BY <1>1, <1>5, <1>6
  <2>2. arrival[id] = arrival[other] /\ other < id
    BY <1>6, <2>1 DEF ComesFirst
  <2>3. other \in soonest
    BY <1>5, <1>6, <2>2
  <2> QED
    BY <1>5, <2>1, <2>2, <2>3
<1> QED
  BY <1>5, <1>6

LEMMA OrderIsTotal ==
  ASSUME NEW arrival \in [Ids -> Nat], NEW a \in Ids, NEW b \in Ids, a # b
  PROVE  ComesFirst(arrival, a, b) \/ ComesFirst(arrival, b, a)
BY ArgumentAssumption DEF ComesFirst

(* One request more than a full set of lanes is too many. *)
LEMMA OneMoreIsTooMany ==
  ASSUME ArgumentsOK, NEW full \in SUBSET Ids, NEW more \in SUBSET Ids,
         NEW id \in more, id \notin full, full \subseteq more,
         Cardinality(full) = capacity
  PROVE  ~(Cardinality(more) <= capacity)
<1>1. IsFiniteSet(more) /\ full # more
  BY ArgumentAssumption, FS_Subset
<1>2. Cardinality(full) <= Cardinality(more) /\ Cardinality(full) # Cardinality(more)
  BY <1>1, FS_Subset
<1>3. Cardinality(more) \in Nat /\ capacity \in Nat
  BY <1>1, FS_CardinalityType DEF ArgumentsOK
<1> QED
  BY <1>2, <1>3

(* Continuous batching serves nobody later than any schedule that keeps the  *)
(* arrival order and the lanes, static or not.  The first request it would   *)
(* serve later met full lanes at the step the other schedule started it; the *)
(* requests in those lanes came before it, so the other schedule has them    *)
(* still in service, and one lane too many.                                  *)
LEMMA ContinuousIsEarliest ==
  ASSUME ArgumentsOK, NEW arrival \in [Ids -> Nat], NEW m, NEW c, NEW f,
         Schedule(arrival, "continuous", c), Schedule(arrival, m, f)
  PROVE  \A id \in Ids : c[id] <= f[id]
<1> DEFINE bad == {id \in Ids : ~(c[id] <= f[id])}
<1>1. SUFFICES ASSUME bad # {} PROVE FALSE
  OBVIOUS
<1>2. c \in [Ids -> Nat] /\ f \in [Ids -> Nat]
  BY DEF Schedule
<1>3. PICK id \in bad : \A other \in Ids : ComesFirst(arrival, other, id) => other \notin bad
  <2>1. bad \in SUBSET Ids
    OBVIOUS
  <2> HIDE DEF bad
  <2> QED
    BY <1>1, <2>1, FirstOffender
<1>4. id \in Ids /\ f[id] < c[id] /\ f[id] \in Nat
  BY <1>2
<1>5. Cardinality(Decoding(c, f[id])) = capacity
  BY <1>4 DEF Schedule
<1>6. ASSUME NEW b \in Decoding(c, f[id])
      PROVE  b \in Decoding(f, f[id]) /\ b # id
  <2>1. /\ b \in Ids /\ c[b] <= f[id] /\ f[id] < c[b] + output_tokens[b]
        /\ c[b] \in Nat /\ f[b] \in Nat /\ output_tokens[b] \in Nat
    BY <1>2, <1>6 DEF Decoding, ArgumentsOK
  <2>2. b # id /\ ~(c[id] <= c[b])
    BY <1>2, <1>4, <2>1
  <2>3. ComesFirst(arrival, b, id)
    BY <1>4, <2>1, <2>2, OrderIsTotal DEF Schedule, ComesFirst
  <2>4. c[b] <= f[b]
    BY <1>3, <2>1, <2>3
  <2>5. f[b] <= f[id]
    BY <1>4, <2>1, <2>3 DEF Schedule, ComesFirst
  <2> QED
    BY <1>4, <2>1, <2>2, <2>4, <2>5 DEF Decoding, NoStep
<1>7. id \in Decoding(f, f[id])
  BY <1>4 DEF Decoding, NoStep, ArgumentsOK
<1>8. Cardinality(Decoding(f, f[id])) <= capacity
  BY <1>4 DEF Schedule
<1>9. Decoding(c, f[id]) \subseteq Ids /\ Decoding(f, f[id]) \subseteq Ids
  BY DEF Decoding
<1> QED
  BY <1>5, <1>6, <1>7, <1>8, <1>9, OneMoreIsTooMany

(* Of two static schedules, neither serves a request before the other while  *)
(* they agree on those that came before it.                                  *)
LEMMA StaticNeverEarlier ==
  ASSUME ArgumentsOK, NEW arrival \in [Ids -> Nat], NEW f, NEW g, NEW id \in Ids,
         Schedule(arrival, "static", f), Schedule(arrival, "static", g),
         \A other \in Ids : ComesFirst(arrival, other, id) => f[other] = g[other]
  PROVE  ~(f[id] < g[id])
<1> SUFFICES ASSUME f[id] < g[id] PROVE FALSE
  OBVIOUS
<1> DEFINE t == f[id]
<1>1. f \in [Ids -> Nat] /\ g \in [Ids -> Nat] /\ t \in Nat
  BY DEF Schedule
<1>2. ASSUME NEW b \in Ids, g[b] <= t
      PROVE  f[b] = g[b] /\ b # id
  <2>1. b # id /\ ~(g[id] <= g[b])
    BY <1>1, <1>2
  <2>2. ComesFirst(arrival, b, id)
    BY <2>1, OrderIsTotal DEF Schedule, ComesFirst
  <2> QED
    BY <2>1, <2>2
<1>3. Decoding(g, t) \ Starting(g, t) # {} \/ Cardinality(Starting(g, t)) = capacity
  BY <1>1 DEF Schedule
<1>4. CASE Decoding(g, t) \ Starting(g, t) # {}
  <2>1. PICK b \in Ids : g[b] <= t /\ g[b] # t /\ t < g[b] + output_tokens[b]
    BY <1>4 DEF Decoding, Starting
  <2>2. f[b] < f[id] /\ f[b] = g[b]
    BY <1>1, <1>2, <2>1
  <2>3. f[b] + output_tokens[b] <= f[id]
    BY <2>2 DEF Schedule
  <2>4. output_tokens[b] \in Nat /\ f[b] \in Nat
    BY <1>1 DEF ArgumentsOK
  <2> QED
    BY <1>1, <2>1, <2>2, <2>3, <2>4
<1>5. CASE Cardinality(Starting(g, t)) = capacity
  <2>1. ASSUME NEW b \in Starting(g, t)
        PROVE  b \in Ids /\ f[b] = t /\ b # id
    BY <1>1, <1>2, <2>1 DEF Starting
  <2>2. \A b \in Ids : f[b] = t => b \in Decoding(f, t)
    BY <1>1 DEF Decoding, NoStep, ArgumentsOK
  <2>3. Cardinality(Decoding(f, t)) <= capacity
    BY DEF Schedule
  <2>4. Starting(g, t) \subseteq Ids /\ Decoding(f, t) \subseteq Ids
    BY DEF Starting, Decoding
  <2> HIDE DEF t
  <2>5. id \in Decoding(f, t)
    BY <2>2 DEF t
  <2> QED
    BY <1>5, <2>1, <2>2, <2>3, <2>4, <2>5, OneMoreIsTooMany
<1> QED
  BY <1>3, <1>4, <1>5

LEMMA ScheduleIsUnique ==
  ASSUME ArgumentsOK, NEW arrival \in [Ids -> Nat], NEW m \in {"static", "continuous"},
         NEW f, NEW g, Schedule(arrival, m, f), Schedule(arrival, m, g)
  PROVE  f = g
<1>1. f \in [Ids -> Nat] /\ g \in [Ids -> Nat]
  BY DEF Schedule
<1>2. CASE m = "continuous"
  <2>1. \A id \in Ids : f[id] <= g[id] /\ g[id] <= f[id]
    BY <1>2, ContinuousIsEarliest
  <2>2. \A id \in Ids : f[id] = g[id]
    BY <1>1, <2>1
  <2> QED
    BY <1>1, <2>2
<1>3. CASE m = "static"
  <2> DEFINE bad == {id \in Ids : f[id] # g[id]}
  <2>1. ASSUME bad # {} PROVE FALSE
    <3>1. PICK id \in bad : \A other \in Ids : ComesFirst(arrival, other, id) => other \notin bad
      <4>1. bad \in SUBSET Ids
        OBVIOUS
      <4> HIDE DEF bad
      <4> QED
        BY <2>1, <4>1, FirstOffender
    <3>2. id \in Ids /\ \A other \in Ids : ComesFirst(arrival, other, id) => f[other] = g[other]
      BY <3>1
    <3>3. ~(f[id] < g[id]) /\ ~(g[id] < f[id])
      BY <1>3, <3>2, StaticNeverEarlier
    <3> QED
      BY <1>1, <3>1, <3>3
  <2> QED
    BY <1>1, <2>1
<1> QED
  BY <1>2, <1>3

(* A schedule of a workload, shifted, is one of the shifted workload.        *)
Delayed(f) == [id \in Ids |-> f[id] + Shift]

LEMMA DelayedSchedule ==
  ASSUME ArgumentsOK, NEW arrival \in [Ids -> Nat], NEW m, NEW f, Schedule(arrival, m, f)
  PROVE  Schedule(Delayed(arrival), m, Delayed(f))
<1>1. /\ f \in [Ids -> Nat] /\ Shift \in Nat
      /\ Delayed(f) \in [Ids -> Nat] /\ Delayed(arrival) \in [Ids -> Nat]
      /\ \A id \in Ids : Delayed(f)[id] = f[id] + Shift
      /\ \A id \in Ids : Delayed(arrival)[id] = arrival[id] + Shift
      /\ \A id \in Ids : output_tokens[id] \in Nat
  BY ShiftAssumption DEF Schedule, Delayed, ArgumentsOK
<1>2. ASSUME NEW s \in Nat
      PROVE  /\ Decoding(Delayed(f), s + Shift) = Decoding(f, s)
             /\ Starting(Delayed(f), s + Shift) = Starting(f, s)
  <2>1. ASSUME NEW id \in Ids
        PROVE  /\ id \in Decoding(Delayed(f), s + Shift) <=> id \in Decoding(f, s)
               /\ id \in Starting(Delayed(f), s + Shift) <=> id \in Starting(f, s)
    BY <1>1 DEF Decoding, Starting, NoStep
  <2> QED
    BY <2>1 DEF Decoding, Starting
<1>3. \A id \in Ids : Delayed(arrival)[id] <= Delayed(f)[id]
  BY <1>1 DEF Schedule
<1>4. ASSUME NEW a \in Ids, NEW b \in Ids, ComesFirst(Delayed(arrival), a, b)
      PROVE  Delayed(f)[a] <= Delayed(f)[b]
  <2>1. ComesFirst(arrival, a, b)
    BY <1>1, <1>4 DEF ComesFirst
  <2> QED
    BY <1>1, <2>1 DEF Schedule, ComesFirst
<1>5. \A id \in Ids : Cardinality(Decoding(Delayed(f), Delayed(f)[id])) <= capacity
  BY <1>1, <1>2 DEF Schedule
<1>6. ASSUME NEW id \in Ids, NEW s \in Nat, Delayed(arrival)[id] <= s, s < Delayed(f)[id]
      PROVE  IF m = "continuous" THEN Cardinality(Decoding(Delayed(f), s)) = capacity
             ELSE \/ Decoding(Delayed(f), s) \ Starting(Delayed(f), s) # {}
                  \/ Cardinality(Starting(Delayed(f), s)) = capacity
  <2> DEFINE r == s - Shift
  <2>1. r \in Nat /\ r + Shift = s /\ arrival[id] <= r /\ r < f[id]
    BY <1>1, <1>6
  <2> HIDE DEF r
  <2>2. Decoding(Delayed(f), s) = Decoding(f, r) /\ Starting(Delayed(f), s) = Starting(f, r)
    BY <1>2, <2>1
  <2> QED
    BY <2>1, <2>2 DEF Schedule
<1>7. ASSUME m = "static", NEW a \in Ids, NEW b \in Ids, Delayed(f)[a] < Delayed(f)[b]
      PROVE  Delayed(f)[a] + output_tokens[a] <= Delayed(f)[b]
  <2>1. f[a] < f[b] /\ f[a] \in Nat /\ f[b] \in Nat
    BY <1>1, <1>7
  <2>2. f[a] + output_tokens[a] <= f[b]
    BY <1>7, <2>1 DEF Schedule
  <2> QED
    BY <1>1, <2>1, <2>2
<1> QED
  BY <1>1, <1>3, <1>4, <1>5, <1>6, <1>7 DEF Schedule, ComesFirst

-----------------------------------------------------------------------------
(* What the results of two calls say of each other. *)

LEMMA LastEndExists ==
  ASSUME ArgumentsOK, NEW f \in [Ids -> Nat]
  PROVE  /\ Max(Ends(f)) \in Ends(f) /\ Max(Ends(f)) \in Int
         /\ \A id \in Ids : f[id] + output_tokens[id] <= Max(Ends(f))
<1>1. \A id \in Ids : f[id] + output_tokens[id] \in Int
  BY DEF ArgumentsOK
<1>2. Ends(f) \in SUBSET Int /\ Ends(f) # {}
  BY <1>1, ArgumentAssumption DEF Ends
<1>3. IsFiniteSet(Ends(f))
  <2> DEFINE end == [id \in Ids |-> f[id] + output_tokens[id]]
  <2>1. end \in Surjection(Ids, Ends(f))
    BY DEF Surjection, Ends
  <2> HIDE DEF end
  <2> QED
    BY <2>1, ArgumentAssumption, FS_Surjection
<1>4. Max(Ends(f)) \in Ends(f) /\ \A x \in Ends(f) : x <= Max(Ends(f))
  BY <1>2, <1>3, FiniteMaxExists
<1> QED
  BY <1>2, <1>4 DEF Ends

LEMMA EarlierServiceIsBetter ==
  ASSUME ArgumentsOK, NEW arrival \in [Ids -> Nat], NEW c \in [Ids -> Nat], NEW f \in [Ids -> Nat],
         \A id \in Ids : arrival[id] <= c[id] /\ c[id] <= f[id]
  PROVE  /\ Outcome(arrival, c).makespan_steps <= Outcome(arrival, f).makespan_steps
         /\ Outcome(arrival, c).total_wait_steps <= Outcome(arrival, f).total_wait_steps
<1> DEFINE first == Min({arrival[id] : id \in Ids})
           wait(g) == [id \in Ids |-> g[id] - arrival[id]]
<1>1. first \in Nat
  BY FirstArrivalIsFirst
<1>2. Max(Ends(c)) <= Max(Ends(f))
  <2>1. Max(Ends(c)) \in Ends(c) /\ Max(Ends(c)) \in Int /\ Max(Ends(f)) \in Int
    BY LastEndExists
  <2>2. PICK id \in Ids : Max(Ends(c)) = c[id] + output_tokens[id]
    BY <2>1 DEF Ends
  <2>3. f[id] + output_tokens[id] <= Max(Ends(f))
    BY LastEndExists
  <2>4. c[id] \in Nat /\ f[id] \in Nat /\ output_tokens[id] \in Nat
    BY DEF ArgumentsOK
  <2> QED
    BY <2>1, <2>2, <2>3, <2>4
<1>3. SumFunction(wait(c)) <= SumFunction(wait(f))
  <2>1. /\ \A id \in Ids : wait(f)[id] \in Nat
        /\ \A id \in Ids : wait(c)[id] \in Int /\ wait(c)[id] <= wait(f)[id]
    OBVIOUS
  <2>2. DOMAIN wait(c) = Ids /\ DOMAIN wait(f) = Ids
    OBVIOUS
  <2> HIDE DEF wait
  <2>3. SumFunctionOnSet(wait(c), Ids) <= SumFunctionOnSet(wait(f), Ids)
    BY <2>1, ArgumentAssumption, SumGrows
  <2> QED
    BY <2>2, <2>3 DEF SumFunction
<1>4. /\ Outcome(arrival, c).makespan_steps = Max(Ends(c)) - first
      /\ Outcome(arrival, f).makespan_steps = Max(Ends(f)) - first
      /\ Outcome(arrival, c).total_wait_steps = SumFunction(wait(c))
      /\ Outcome(arrival, f).total_wait_steps = SumFunction(wait(f))
  BY DEF Outcome
<1>5. Max(Ends(c)) \in Int /\ Max(Ends(f)) \in Int
  BY LastEndExists
<1> HIDE DEF first, wait
<1> QED
  BY <1>1, <1>2, <1>3, <1>4, <1>5

LEMMA FirstArrivalMoves ==
  ASSUME NEW arrival \in [Ids -> Nat], NEW later \in [Ids -> Nat], NEW d \in Nat,
         \A id \in Ids : later[id] = arrival[id] + d
  PROVE  Min({later[id] : id \in Ids}) = Min({arrival[id] : id \in Ids}) + d
<1> DEFINE a == Min({arrival[id] : id \in Ids})
           b == Min({later[id] : id \in Ids})
<1>1. /\ a \in {arrival[id] : id \in Ids} /\ a \in Nat /\ \A id \in Ids : a <= arrival[id]
      /\ b \in {later[id] : id \in Ids} /\ b \in Nat /\ \A id \in Ids : b <= later[id]
  BY FirstArrivalIsFirst
<1> HIDE DEF a, b
<1>2. PICK x \in Ids : a = arrival[x]
  BY <1>1
<1>3. PICK y \in Ids : b = later[y]
  BY <1>1
<1>4. b <= a + d /\ a + d <= b
  BY <1>1, <1>2, <1>3
<1>5. b = a + d
  BY <1>1, <1>4
<1> QED
  BY <1>5 DEF a, b

LEMMA DelayedOutcome ==
  ASSUME ArgumentsOK, NEW arrival \in [Ids -> Nat], NEW f \in [Ids -> Nat]
  PROVE  Outcome(Delayed(arrival), Delayed(f)) = Outcome(arrival, f)
<1>1. /\ Shift \in Nat
      /\ Delayed(f) \in [Ids -> Nat] /\ Delayed(arrival) \in [Ids -> Nat]
      /\ \A id \in Ids : Delayed(f)[id] = f[id] + Shift
      /\ \A id \in Ids : Delayed(arrival)[id] = arrival[id] + Shift
  BY ShiftAssumption DEF Delayed
<1> DEFINE a == Min({arrival[id] : id \in Ids})
           b == Min({Delayed(arrival)[id] : id \in Ids})
           m == Max(Ends(f))
           n == Max(Ends(Delayed(f)))
<1>2. b = a + Shift /\ a \in Nat
  <2>1. b = a + Shift
    BY <1>1, FirstArrivalMoves
  <2> QED
    BY <2>1, FirstArrivalIsFirst
<1>3. n = m + Shift /\ m \in Int
  <2>1. /\ m \in Ends(f) /\ m \in Int
        /\ \A id \in Ids : f[id] + output_tokens[id] <= m
        /\ n \in Ends(Delayed(f)) /\ n \in Int
        /\ \A id \in Ids : Delayed(f)[id] + output_tokens[id] <= n
    BY <1>1, LastEndExists
  <2> HIDE DEF m, n
  <2>2. PICK x \in Ids : m = f[x] + output_tokens[x]
    BY <2>1 DEF Ends
  <2>3. PICK y \in Ids : n = Delayed(f)[y] + output_tokens[y]
    BY <2>1 DEF Ends
  <2>4. /\ f[x] \in Nat /\ output_tokens[x] \in Nat /\ f[y] \in Nat /\ output_tokens[y] \in Nat
    BY DEF ArgumentsOK
  <2>5. m + Shift <= n
    BY <1>1, <2>1, <2>2, <2>4
  <2>6. n <= m + Shift
    BY <1>1, <2>1, <2>3, <2>4
  <2> QED
    BY <1>1, <2>1, <2>5, <2>6
<1>4. [id \in Ids |-> Delayed(f)[id] - Delayed(arrival)[id]] = [id \in Ids |-> f[id] - arrival[id]]
  <2>1. \A id \in Ids : Delayed(f)[id] - Delayed(arrival)[id] = f[id] - arrival[id]
    BY <1>1
  <2> QED
    BY <2>1
<1>5. n - b = m - a
  <2> HIDE DEF a, b, m, n
  <2> QED
    BY <1>1, <1>2, <1>3
<1> QED
  BY <1>4, <1>5 DEF Outcome

-----------------------------------------------------------------------------
(* Two calls. *)

LEMMA CallKeeps ==
  ASSUME CompareInv, Call
  PROVE  CompareInv'
<1>1. IInv' /\ UNCHANGED <<arguments, earlier, shifted>>
  <2>1. Next /\ UNCHANGED <<earlier, shifted>> /\ UNCHANGED arguments
    BY DEF Call, Next, Jump, Decode, Return, Fill, arguments
  <2> QED
    BY <2>1, NextKeeps DEF CompareInv
<1>2. Earliest'
  BY <1>1 DEF CompareInv, Earliest, FirstWorkload, Schedule, Outcome, Ends, Decoding, Starting,
     arguments
<1> QED
  BY <1>1, <1>2 DEF CompareInv

LEMMA CallAgainIsFresh ==
  ASSUME CompareInv, CallAgain
  PROVE  Fresh'
<1> DEFINE d == IF shifted THEN Shift ELSE 0
<1>1. /\ arrival_step \in [Ids -> Nat] /\ output_tokens \in [Ids -> Nat \ {0}]
      /\ capacity \in Nat \ {0} /\ mode \in {"static", "continuous"} /\ d \in Nat
  BY ShiftAssumption DEF CompareInv, IInv, ArgumentsOK
<1>2. /\ arrival_step' = [id \in Ids |-> arrival_step[id] + d]
      /\ mode' = (IF shifted THEN mode ELSE "static")
      /\ UNCHANGED <<output_tokens, capacity, shifted>>
      /\ pending' = InOrder /\ waiting' = <<>>
      /\ active' = [id \in Ids |-> 0]
      /\ first_service' = [id \in Ids |-> NoStep] /\ completed' = [id \in Ids |-> NoStep]
      /\ step' = FirstArrival + d /\ result' = Running
  BY DEF CallAgain
<1> HIDE DEF d
<1>3. arrival_step' \in [Ids -> Nat] /\ \A id \in Ids : arrival_step'[id] = arrival_step[id] + d
  BY <1>1, <1>2
<1>4. InOrder' = InOrder
  <2>1. InOrder = Sorted(arrival_step) /\ InOrder' = Sorted(arrival_step')
    BY DEF InOrder, Sorted, Earlier, ComesFirst
  <2>2. \A a, b \in Ids : ComesFirst(arrival_step', a, b) <=> ComesFirst(arrival_step, a, b)
    BY <1>1, <1>3 DEF ComesFirst
  <2>3. Sorted(arrival_step') = Sorted(arrival_step)
    BY <2>2, SameOrderSameList
  <2> QED
    BY <2>1, <2>3
<1>5. FirstArrival' = FirstArrival + d
  BY <1>1, <1>3, FirstArrivalMoves DEF FirstArrival
<1> QED
  BY <1>1, <1>2, <1>3, <1>4, <1>5 DEF Fresh

LEMMA CallAgainRemembers ==
  ASSUME CompareInv, CallAgain
  PROVE  (shifted \in BOOLEAN /\ Earliest)'
<1> DEFINE d == IF shifted THEN Shift ELSE 0
<1>1. /\ arrival_step \in [Ids -> Nat] /\ d \in Nat
      /\ IInv /\ shifted \in BOOLEAN /\ Earliest
  BY ShiftAssumption DEF CompareInv, IInv, ArgumentsOK
<1>2. /\ earlier = NoCall /\ result.status = "returned"
      /\ earlier' = [status |-> "returned", result |-> result, first_service |-> first_service]
      /\ arrival_step' = [id \in Ids |-> arrival_step[id] + d]
      /\ mode' = (IF shifted THEN mode ELSE "static")
      /\ UNCHANGED <<output_tokens, capacity, shifted>>
  BY DEF CallAgain
<1>3. /\ ~Unfinished
      /\ result = [status |-> "returned", makespan_steps |-> Makespan,
                   total_wait_steps |-> TotalWait]
  BY <1>1, <1>2 DEF IInv, ResultOK, Running
<1>4. Schedule(arrival_step, mode, first_service) /\ result = Outcome(arrival_step, first_service)
  BY <1>1, <1>3, FinishedIsSchedule, FinishedSpan
<1>5. (IF shifted THEN mode ELSE "continuous") = mode
  BY <1>1, <1>2 DEF Earliest
<1>6. FirstWorkload' = arrival_step
  <2>1. FirstWorkload' = [id \in Ids |-> arrival_step'[id] - d]
    BY <1>2 DEF FirstWorkload
  <2> HIDE DEF d
  <2>2. \A id \in Ids : arrival_step'[id] - d = arrival_step[id]
    BY <1>1, <1>2
  <2> QED
    BY <1>1, <2>1, <2>2
<1>7. earlier' # NoCall
  BY <1>2 DEF NoCall
<1>8. Schedule(arrival_step, mode, first_service)
        <=> Schedule(FirstWorkload, IF shifted THEN mode ELSE "continuous", earlier.first_service)'
  <2>1. /\ earlier'.first_service = first_service
        /\ (IF shifted THEN mode ELSE "continuous")' = mode
    BY <1>2, <1>5
  <2> QED
    BY <1>2, <1>6, <2>1 DEF Schedule, Decoding, Starting
<1>9. Outcome(arrival_step, first_service) = Outcome(FirstWorkload, earlier.first_service)'
  <2>1. earlier'.first_service = first_service
    BY <1>2
  <2> QED
    BY <1>2, <1>6, <2>1 DEF Outcome, Ends
<1>10. ~shifted' => mode' = "static"
  BY <1>2
<1>11. /\ earlier'.result = result
       /\ earlier' = [status |-> "returned", result |-> earlier'.result,
                      first_service |-> earlier'.first_service]
  BY <1>2
<1> QED
  BY <1>1, <1>2, <1>4, <1>6, <1>7, <1>8, <1>9, <1>10, <1>11 DEF Earliest

LEMMA CompareStutterKeeps ==
  ASSUME CompareInv, UNCHANGED compareVars
  PROVE  CompareInv'
<1>1. IInv' /\ UNCHANGED <<arguments, earlier, shifted>>
  BY StutterKeeps DEF CompareInv, compareVars, vars
<1>2. Earliest'
  BY <1>1 DEF CompareInv, Earliest, FirstWorkload, Schedule, Outcome, Ends, Decoding, Starting,
     arguments
<1> QED
  BY <1>1, <1>2 DEF CompareInv

-----------------------------------------------------------------------------
(* Theorems.  Each is stated for one call, and for the two calls of the      *)
(* comparison.                                                               *)

LEMMA AlwaysIInv == Spec => []IInv
<1>1. Init => IInv
  BY InitHolds
<1>2. IInv /\ [Next]_vars => IInv'
  BY NextKeeps
<1> QED
  BY <1>1, <1>2, PTL DEF Spec

LEMMA AlwaysCompareInv == CompareSpec => []CompareInv
<1>1. CompareInit => CompareInv
  BY InitHolds DEF CompareInit, CompareInv, Earliest
<1>2. CompareInv /\ [CompareNext]_compareVars => CompareInv'
  <2>1. CompareInv /\ CallAgain => Fresh'
    BY CallAgainIsFresh
  <2>2. Fresh' => IInv'
    BY FreshHolds, PTL
  <2>3. CompareInv /\ CallAgain => (shifted \in BOOLEAN /\ Earliest)'
    BY CallAgainRemembers
  <2>4. CompareInv /\ CallAgain => CompareInv'
    BY <2>1, <2>2, <2>3 DEF CompareInv
  <2> QED
    BY <2>4, CallKeeps, CompareStutterKeeps DEF CompareNext
<1> QED
  BY <1>1, <1>2, PTL DEF CompareSpec

(* Every step that the result reports decoded no more requests than the      *)
(* batch has lanes (lines 84-89).                                            *)
THEOREM LanesAreNeverExceeded ==
  /\ Spec => []WithinCapacity
  /\ CompareSpec => []WithinCapacity
<1>1. IInv => WithinCapacity
  <2> SUFFICES ASSUME IInv, NEW s \in StepsSoFar
               PROVE  Cardinality(DecodedAt(s)) <= capacity
    BY DEF WithinCapacity
  <2>1. s \in 0..(step - 1)
    BY FirstArrivalIsFirst DEF StepsSoFar, FirstArrival, IInv, ArgumentsOK
  <2> QED
    BY <2>1, DecodedIsDecoding DEF IInv, History
<1>2. CompareInv => IInv
  BY DEF CompareInv
<1> QED
  BY <1>1, <1>2, AlwaysIInv, AlwaysCompareInv, PTL

(* No request is served before one that arrived earlier (line 72).           *)
THEOREM ArrivalOrderIsServiceOrder ==
  /\ Spec => []FirstComeFirstServed
  /\ CompareSpec => []FirstComeFirstServed
<1>1. IInv => FirstComeFirstServed
  BY DEF IInv
<1>2. CompareInv => IInv
  BY DEF CompareInv
<1> QED
  BY <1>1, <1>2, AlwaysIInv, AlwaysCompareInv, PTL

(* In static mode a batch drains before the next starts (batching.py:3).     *)
THEOREM StaticBatchesDoNotOverlap ==
  /\ Spec => []StaticBatchesDrain
  /\ CompareSpec => []StaticBatchesDrain
<1>1. IInv => StaticBatchesDrain
  <2> SUFFICES ASSUME IInv, mode = "static", NEW a \in Ids, NEW b \in Ids,
                      first_service[a] # NoStep, first_service[a] < first_service[b]
               PROVE  completed[a] \in 0..first_service[b]
    BY DEF StaticBatchesDrain
  <2>1. /\ step \in Nat /\ output_tokens[a] \in Nat
        /\ first_service[a] + output_tokens[a] <= first_service[b]
    BY DEF IInv, ArgumentsOK, Drained
  <2>2. first_service[a] \in Nat /\ ~Untouched(a)
    BY DEF IInv, ServedOK, Untouched
  <2>3. first_service[b] \in Nat /\ first_service[b] < step
    BY <2>2 DEF IInv, ServedOK, Untouched, InProgress, Done, Started, NoStep
  <2>4. ~InProgress(a)
    BY <2>1, <2>2, <2>3 DEF InProgress
  <2>5. Done(a)
    BY <2>2, <2>4 DEF IInv, ServedOK
  <2> QED
    BY <2>1, <2>2, <2>3, <2>5 DEF Done
<1>2. CompareInv => IInv
  BY DEF CompareInv
<1> QED
  BY <1>1, <1>2, AlwaysIInv, AlwaysCompareInv, PTL

(* In continuous mode all lanes decode at every step a request waits         *)
(* (batching.py:49).                                                         *)
THEOREM LanesAreKeptBusy ==
  /\ Spec => []NoLaneIdle
  /\ CompareSpec => []NoLaneIdle
<1>1. IInv => NoLaneIdle
  <2> SUFFICES ASSUME IInv, mode = "continuous", NEW id \in Ids, NEW s \in StepsSoFar,
                      arrival_step[id] <= s,
                      first_service[id] = NoStep \/ s < first_service[id]
               PROVE  Cardinality(DecodedAt(s)) = capacity
    BY DEF NoLaneIdle
  <2>1. s \in 0..(step - 1)
    BY FirstArrivalIsFirst DEF StepsSoFar, FirstArrival, IInv, ArgumentsOK
  <2> QED
    BY <2>1, DecodedIsDecoding DEF IInv, History
<1>2. CompareInv => IInv
  BY DEF CompareInv
<1> QED
  BY <1>1, <1>2, AlwaysIInv, AlwaysCompareInv, PTL

LEMMA SpanHolds == IInv => SpanIsFirstArrivalToLastCompletion
<1> SUFFICES ASSUME IInv, result.status = "returned"
             PROVE  /\ \A id \in Ids : completed[id] # NoStep
                    /\ result.makespan_steps = Max({completed[id] : id \in Ids}) - FirstArrival
                    /\ result.total_wait_steps =
                         Cardinality(UNION {{id} \X (arrival_step[id]..(first_service[id] - 1))
                                              : id \in Ids})
  BY DEF SpanIsFirstArrivalToLastCompletion
<1>1. /\ ~Unfinished
      /\ result = [status |-> "returned", makespan_steps |-> Makespan,
                   total_wait_steps |-> TotalWait]
  BY DEF IInv, ResultOK, Running
<1>2. \A id \in Ids : Done(id)
  BY <1>1, FinishedIsSchedule
<1>3. \A id \in Ids : completed[id] # NoStep
  BY <1>2 DEF Done, Started, NoStep, IInv, ArgumentsOK
<1>4. result.makespan_steps = Max({completed[id] : id \in Ids}) - FirstArrival
  BY <1>1, FinishedSpan DEF Makespan
<1> DEFINE wait == [id \in Ids |-> first_service[id] - arrival_step[id]]
           steps == [id \in Ids |-> arrival_step[id]..(first_service[id] - 1)]
<1>5. ASSUME NEW id \in Ids
      PROVE  IsFiniteSet(steps[id]) /\ Cardinality(steps[id]) = wait[id]
  <2> DEFINE a == arrival_step[id]
             b == first_service[id] - 1
  <2>1. a \in Int /\ b \in Int /\ a <= b + 1
    BY <1>2 DEF Done, Started, IInv, ArgumentsOK
  <2> HIDE DEF a, b
  <2>2. IsFiniteSet(a..b) /\ Cardinality(a..b) = IF a > b THEN 0 ELSE b - a + 1
    BY <2>1, FS_Interval
  <2>3. Cardinality(a..b) = b + 1 - a
    BY <2>1, <2>2
  <2>4. b + 1 = first_service[id]
    BY <1>2 DEF b, Done, Started
  <2>5. steps[id] = a..b /\ wait[id] = first_service[id] - a
    BY DEF a, b
  <2> HIDE DEF wait, steps
  <2>6. IsFiniteSet(steps[id])
    BY <2>2, <2>5
  <2>7. Cardinality(steps[id]) = wait[id]
    BY <2>1, <2>3, <2>4, <2>5
  <2> QED
    BY <2>6, <2>7
<1>6. DOMAIN wait = Ids /\ \A id \in Ids : steps[id] = arrival_step[id]..(first_service[id] - 1)
  OBVIOUS
<1>7. TotalWait = SumFunctionOnSet(wait, Ids)
  BY DEF TotalWait, SumFunction
<1> HIDE DEF wait, steps
<1>8. Cardinality(UNION {{id} \X steps[id] : id \in Ids}) = SumFunctionOnSet(wait, Ids)
  BY <1>5, ArgumentAssumption, SumCounts
<1>9. UNION {{id} \X steps[id] : id \in Ids}
        = UNION {{id} \X (arrival_step[id]..(first_service[id] - 1)) : id \in Ids}
  BY <1>6
<1> QED
  BY <1>1, <1>3, <1>4, <1>7, <1>8, <1>9

(* The reported span ends with the last completion, and the reported wait is *)
(* the number of steps the requests spent unserved (batching.py:53-54).      *)
THEOREM SpanAndWaitsAreCounted ==
  /\ Spec => []SpanIsFirstArrivalToLastCompletion
  /\ CompareSpec => []SpanIsFirstArrivalToLastCompletion
<1>1. CompareInv => IInv
  BY DEF CompareInv
<1> QED
  BY <1>1, SpanHolds, AlwaysIInv, AlwaysCompareInv, PTL

(* Both calls over, the second leaves a schedule of its workload and reports *)
(* what follows from it, as the first did.                                   *)
LEMMA BothSchedules ==
  ASSUME CompareInv, BothReturned
  PROVE  /\ Schedule(arrival_step, mode, first_service)
         /\ result = Outcome(arrival_step, first_service)
         /\ Schedule(FirstWorkload, IF shifted THEN mode ELSE "continuous", earlier.first_service)
         /\ earlier.result = Outcome(FirstWorkload, earlier.first_service)
         /\ FirstWorkload \in [Ids -> Nat] /\ (~shifted => mode = "static")
         /\ ArgumentsOK
<1>1. ~Unfinished /\ result = [status |-> "returned", makespan_steps |-> Makespan,
                               total_wait_steps |-> TotalWait]
  BY DEF CompareInv, IInv, ResultOK, Running, BothReturned
<1>2. earlier # NoCall
  BY DEF BothReturned, NoCall
<1>3. Schedule(arrival_step, mode, first_service) /\ result = Outcome(arrival_step, first_service)
  BY <1>1, FinishedIsSchedule, FinishedSpan DEF CompareInv
<1> QED
  BY <1>2, <1>3 DEF CompareInv, Earliest, IInv

(* On every workload continuous batching serves each request no later than   *)
(* static batching, in no longer a span, with no more waiting.               *)
THEOREM ContinuousBeatsStatic == CompareSpec => []ContinuousNeverLater
<1>1. CompareInv => ContinuousNeverLater
  <2> SUFFICES ASSUME CompareInv, BothReturned, ~shifted
               PROVE  /\ \A id \in Ids : earlier.first_service[id] <= first_service[id]
                      /\ earlier.result.makespan_steps <= result.makespan_steps
                      /\ earlier.result.total_wait_steps <= result.total_wait_steps
    BY DEF ContinuousNeverLater
  <2>1. arrival_step \in [Ids -> Nat] /\ ArgumentsOK
    BY DEF CompareInv, IInv, ArgumentsOK
  <2>2. FirstWorkload = arrival_step
    BY <2>1 DEF FirstWorkload
  <2>3. /\ Schedule(arrival_step, "continuous", earlier.first_service)
        /\ Schedule(arrival_step, mode, first_service)
    BY <2>2, BothSchedules
  <2>4. \A id \in Ids : earlier.first_service[id] <= first_service[id]
    BY <2>1, <2>3, ContinuousIsEarliest
  <2>5. /\ earlier.first_service \in [Ids -> Nat] /\ first_service \in [Ids -> Nat]
        /\ \A id \in Ids : arrival_step[id] <= earlier.first_service[id]
    BY <2>3 DEF Schedule
  <2>6. /\ earlier.result = Outcome(arrival_step, earlier.first_service)
        /\ result = Outcome(arrival_step, first_service)
    BY <2>2, BothSchedules
  <2> QED
    BY <2>1, <2>4, <2>5, <2>6, EarlierServiceIsBetter
<1> QED
  BY <1>1, AlwaysCompareInv, PTL

(* Shifting a workload shifts every service by as much and changes neither   *)
(* the span nor the waits (batching.py:53-54).                               *)
THEOREM OutcomeDoesNotDependOnTheStart == CompareSpec => []ShiftChangesNothing
<1>1. CompareInv => ShiftChangesNothing
  <2> SUFFICES ASSUME CompareInv, BothReturned, shifted
               PROVE  /\ \A id \in Ids : first_service[id] = earlier.first_service[id] + Shift
                      /\ result = earlier.result
    BY DEF ShiftChangesNothing
  <2> DEFINE first == earlier.first_service
  <2>1. /\ arrival_step \in [Ids -> Nat] /\ ArgumentsOK /\ mode \in {"static", "continuous"}
        /\ Shift \in Nat
    BY ShiftAssumption DEF CompareInv, IInv, ArgumentsOK
  <2>2. /\ FirstWorkload \in [Ids -> Nat] /\ Schedule(FirstWorkload, mode, first)
        /\ first \in [Ids -> Nat] /\ Schedule(arrival_step, mode, first_service)
    BY BothSchedules DEF Schedule
  <2>3. Delayed(FirstWorkload) = arrival_step
    <3>1. \A id \in Ids : FirstWorkload[id] + Shift = arrival_step[id]
      BY <2>1 DEF FirstWorkload
    <3> QED
      BY <2>1, <3>1 DEF Delayed
  <2>4. Schedule(arrival_step, mode, Delayed(first))
    BY <2>1, <2>2, <2>3, DelayedSchedule
  <2>5. first_service = Delayed(first)
    BY <2>1, <2>2, <2>4, ScheduleIsUnique
  <2>6. \A id \in Ids : first_service[id] = first[id] + Shift
    BY <2>5 DEF Delayed
  <2>7. result = earlier.result
    <3>1. result = Outcome(arrival_step, first_service)
      BY BothSchedules
    <3>2. earlier.result = Outcome(FirstWorkload, first)
      BY BothSchedules
    <3>3. Outcome(Delayed(FirstWorkload), Delayed(first)) = Outcome(FirstWorkload, first)
      BY <2>1, <2>2, DelayedOutcome
    <3> QED
      BY <2>3, <2>5, <3>1, <3>2, <3>3
  <2> QED
    BY <2>6, <2>7
<1> QED
  BY <1>1, AlwaysCompareInv, PTL

====
