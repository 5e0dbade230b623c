---- MODULE PrefixIndex ----
(***************************************************************************)
(* What prefix reuse promises, with neither keys nor a dictionary: the     *)
(* index is the set of prefixes computed so far, each inside the scope it  *)
(* was computed in, and a lookup reuses the longest of them that begins    *)
(* the requested tokens.  Module PrefixCache implements it by a digest.    *)
(***************************************************************************)
EXTENDS Integers, Sequences, SequencesExt

CONSTANTS
  Scopes,     \* the scopes a caller may name
  Prompts,    \* the token sequences a caller may name
  BlockSize

VARIABLES
  index,      \* the pairs <<scope, prefix>> computed so far
  outcome     \* what the last call reported

vars == <<index, outcome>>

Did(what) == [did |-> what]

Looked(reuse, rest) == [did |-> "lookup", reuse |-> reuse, rest |-> rest]

(* The tokens of the complete blocks at the head of a sequence. *)
CompleteBlocks(tokens) == SubSeq(tokens, 1, BlockSize * (Len(tokens) \div BlockSize))

Reusable(scope, tokens) ==
  {prefix \in Prefixes(tokens) : <<scope, prefix>> \in index}

Init ==
  /\ index = {}
  /\ outcome = Did("nothing")

(* A computed prefix is reusable from now on, as far as its complete blocks. *)
Learn(scope, tokens) ==
  /\ index' = IF CompleteBlocks(tokens) = <<>>
                THEN index ELSE index \cup {<<scope, CompleteBlocks(tokens)>>}
  /\ outcome' = Did("store")

(* A lookup reports the longest reusable prefix, and the rest as work to do. *)
Reuse(scope, tokens) ==
  /\ UNCHANGED index
  /\ \/ /\ Reusable(scope, tokens) = {}
        /\ outcome' = Looked(0, Len(tokens))
     \/ \E prefix \in Reusable(scope, tokens) :
          /\ \A other \in Reusable(scope, tokens) : Len(other) <= Len(prefix)
          /\ outcome' = Looked(Len(prefix), Len(tokens) - Len(prefix))

Fail ==
  /\ UNCHANGED index
  /\ outcome' = Did("error")

Next ==
  \/ \E scope \in Scopes, tokens \in Prompts : Learn(scope, tokens) \/ Reuse(scope, tokens)
  \/ Fail

Spec == Init /\ [][Next]_vars

====
