---- MODULE AdmissionLedger ----
(***************************************************************************)
(* What admission control promises, without saying how it keeps count.     *)
(*                                                                         *)
(* A ledger has one entry per request identifier: open (never judged, or   *)
(* settled), holding some tokens, waiting in the bounded queue, or refused. *)
(* There are no counters: the capacity in use is recounted from the book   *)
(* whenever it matters.  Module Admission keeps two running counters       *)
(* instead, and is shown to implement this specification.                  *)
(***************************************************************************)
EXTENDS Integers, FiniteSets

CONSTANTS
  Ids,           \* request identifiers
  TokenBudget,   \* tokens that may be held at the same time
  Slots,         \* requests that may wait at the same time
  RequestBound   \* tokens one request may hold

VARIABLES
  book,          \* identifier -> entry
  answer         \* what the last caller was told

vars == <<book, answer>>

Open       == [state |-> "open",    tokens |-> 0]
Waiting    == [state |-> "waiting", tokens |-> 0]
Refused    == [state |-> "refused", tokens |-> 0]
Holding(n) == [state |-> "holding", tokens |-> n]

Nothing    == [told |-> "nothing"]
Told(id)   == [told |-> "entry", id |-> id, entry |-> book'[id]]
Failed(id) == [told |-> "error", id |-> id]
Settled(id) == [told |-> "settled", id |-> id]

(* Every token in use, named by its holder and a serial number. *)
HeldTokens ==
  UNION {{id} \X (1..book[id].tokens) : id \in {i \in Ids : book[i].state = "holding"}}

WaitingIds == {id \in Ids : book[id] = Waiting}

Fits(n) == Cardinality(HeldTokens) + n <= TokenBudget

Init ==
  /\ book = [id \in Ids |-> Open]
  /\ answer = Nothing

Record(id, entry) ==
  /\ book[id] = Open
  /\ book' = [book EXCEPT ![id] = entry]
  /\ answer' = Told(id)

(* Work that fits is granted all it asked for. *)
Grant(id, n) ==
  /\ n > 0
  /\ n <= RequestBound
  /\ Fits(n)
  /\ Record(id, Holding(n))

(* Work that does not fit now may wait, while there is a slot. *)
Park(id, n) ==
  /\ n > 0
  /\ n <= RequestBound
  /\ ~Fits(n)
  /\ Cardinality(WaitingIds) < Slots
  /\ Record(id, Waiting)

(* Any new request may be refused: too large, too late, or no room. *)
Refuse(id) == Record(id, Refused)

(* An identifier that was judged gets its entry read back. *)
Repeat(id) ==
  /\ book[id] # Open
  /\ UNCHANGED book
  /\ answer' = Told(id)

(* A refusal is never settled, only a hold or a wait is. *)
Settle(id) ==
  /\ book[id] \notin {Open, Refused}
  /\ book' = [book EXCEPT ![id] = Open]
  /\ answer' = Settled(id)

(* A malformed call, or a release of something not held, changes nothing. *)
Fail(id) ==
  /\ book[id] \in {Open, Refused}
  /\ UNCHANGED book
  /\ answer' = Failed(id)

Next ==
  \E id \in Ids :
    \/ \E n \in 1..RequestBound : Grant(id, n) \/ Park(id, n)
    \/ Refuse(id)
    \/ Repeat(id)
    \/ Settle(id)
    \/ Fail(id)

Spec == Init /\ [][Next]_vars

====
