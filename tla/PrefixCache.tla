---- MODULE PrefixCache ----
(***************************************************************************)
(* PrefixCache of src/inference_platform/prefix_cache.py: store() and      *)
(* lookup() on one cache, called in any order by any number of callers.    *)
(*                                                                         *)
(* A scope is a value: the code only compares scopes and joins their four  *)
(* fields into the digest.  _digest is the constant Digest; joining with a *)
(* separator that the fields may contain makes two scopes share digests,   *)
(* so nothing is assumed of it across scopes.                              *)
(***************************************************************************)
EXTENDS Integers, Sequences, FiniteSetsExt

CONSTANTS
  Scopes,         \* CacheScope values
  BlankScopes,    \* those with a blank field
  Prompts,        \* token sequences callers pass
  BlockSize,      \* self.block_size
  Keys,           \* digests
  NoKey,          \* the None a miss reports
  Digest(_, _)    \* _digest(scope, tokens)

(* The constructor raises for any other block size. *)
ASSUME BlockAssumption == BlockSize \in Nat \ {0}

ASSUME InputAssumption ==
  /\ BlankScopes \subseteq Scopes
  /\ Prompts \subseteq Seq(Int)

ASSUME DigestAssumption ==
  \A scope \in Scopes, tokens \in Prompts :
    \A n \in BlockSize..Len(tokens) : Digest(scope, SubSeq(tokens, 1, n)) \in Keys

VARIABLES
  entries,   \* self._entries, <<>> for a key that is not there
  reply      \* how the last call ended

vars == <<entries, reply>>

-----------------------------------------------------------------------------
NoEntry == <<>>

Holds(scope, key) == entries[<<scope, key>>] # NoEntry

(* _validate_scope and the check for negative token ids, which both raise. *)
ValidCall(scope, tokens) ==
  /\ scope \notin BlankScopes
  /\ \A i \in 1..Len(tokens) : tokens[i] >= 0

Raised == [call |-> "error"]

Stored(scope, tokens, key) ==
  [call |-> "store", scope |-> scope, tokens |-> tokens, key |-> key]

NothingStored == [call |-> "store none"]

Answered(scope, tokens, reused, key) ==
  [call |-> "lookup", scope |-> scope, tokens |-> tokens, cache_key |-> key,
   reused_tokens |-> reused, recompute_tokens |-> Len(tokens) - reused]

-----------------------------------------------------------------------------
(* store() *)

CompleteLength(tokens) == Len(tokens) - (Len(tokens) % BlockSize)

Complete(tokens) == SubSeq(tokens, 1, CompleteLength(tokens))

(* Mutated form: the digest covers the first block only. *)
FirstBlockKey(scope, tokens) == Digest(scope, SubSeq(tokens, 1, BlockSize))

Key(scope, tokens) == Digest(scope, tokens)

StoreNothing(scope, tokens) ==
  /\ ValidCall(scope, tokens)
  /\ CompleteLength(tokens) = 0
  /\ reply' = NothingStored
  /\ UNCHANGED entries

(* Mutated form: the dictionary is addressed by the digest alone, so the     *)
(* entry shows up in every scope that is looked up.                          *)
StoreByDigest(scope, tokens) ==
  /\ ValidCall(scope, tokens)
  /\ CompleteLength(tokens) > 0
  /\ LET complete == Complete(tokens)
         key      == Key(scope, complete)
     IN  /\ entries' = [e \in DOMAIN entries |->
                          IF e[2] = key THEN complete ELSE entries[e]]
         /\ reply' = Stored(scope, tokens, key)

(* Mutated form: the key is computed before the partial block is dropped. *)
StoreKeyedByPrompt(scope, tokens) ==
  /\ ValidCall(scope, tokens)
  /\ CompleteLength(tokens) > 0
  /\ LET key == Key(scope, tokens)
     IN  /\ entries' = [entries EXCEPT ![<<scope, key>>] = Complete(tokens)]
         /\ reply' = Stored(scope, tokens, key)

Store(scope, tokens) ==
  /\ ValidCall(scope, tokens)
  /\ CompleteLength(tokens) > 0
  /\ LET complete == Complete(tokens)
         key      == Key(scope, complete)
     IN  /\ entries' = [entries EXCEPT ![<<scope, key>>] = complete]
         /\ reply' = Stored(scope, tokens, key)

-----------------------------------------------------------------------------
(* lookup() *)

Begins(cached, tokens) ==
  /\ Len(cached) <= Len(tokens)
  /\ SubSeq(tokens, 1, Len(cached)) = cached

Candidates(scope, tokens) ==
  {key \in Keys : Holds(scope, key) /\ Begins(entries[<<scope, key>>], tokens)}

LookupMiss(scope, tokens) ==
  /\ ValidCall(scope, tokens)
  /\ Candidates(scope, tokens) = {}
  /\ reply' = Answered(scope, tokens, 0, NoKey)
  /\ UNCHANGED entries

(* Mutated form: the first candidate found is taken. *)
LookupFirstHit(scope, tokens) ==
  /\ ValidCall(scope, tokens)
  /\ \E key \in Candidates(scope, tokens) :
       reply' = Answered(scope, tokens, Len(entries[<<scope, key>>]), key)
  /\ UNCHANGED entries

(* The longest candidate; of several, any one. *)
LookupHit(scope, tokens) ==
  /\ ValidCall(scope, tokens)
  /\ \E key \in Candidates(scope, tokens) :
       /\ \A other \in Candidates(scope, tokens) :
            Len(entries[<<scope, other>>]) <= Len(entries[<<scope, key>>])
       /\ reply' = Answered(scope, tokens, Len(entries[<<scope, key>>]), key)
  /\ UNCHANGED entries

RejectCall(scope, tokens) ==
  /\ ~ValidCall(scope, tokens)
  /\ reply' = Raised
  /\ UNCHANGED entries

-----------------------------------------------------------------------------
Init ==
  /\ entries = [e \in Scopes \X Keys |-> NoEntry]
  /\ reply = [call |-> "none"]

Next ==
  \E scope \in Scopes, tokens \in Prompts :
    \/ StoreNothing(scope, tokens)
    \/ Store(scope, tokens)
    \/ LookupMiss(scope, tokens)
    \/ LookupHit(scope, tokens)
    \/ RejectCall(scope, tokens)

Spec == Init /\ [][Next]_vars

-----------------------------------------------------------------------------
(* Safety *)

Replies ==
  {[call |-> "none"], Raised, NothingStored}
    \cup [call : {"store"}, scope : Scopes, tokens : Prompts, key : Keys]
    \cup [call : {"lookup"}, scope : Scopes, tokens : Prompts, cache_key : Keys \cup {NoKey},
          reused_tokens : Nat, recompute_tokens : Nat]

(* Every variable has its type: the dictionary holds token sequences, and no *)
(* lookup ever reports a negative amount of work.                            *)
TypeOK ==
  /\ entries \in [Scopes \X Keys -> Seq(Nat)]
  /\ reply \in Replies

(* Only complete blocks are held, and only complete blocks are reported as   *)
(* reused: a partial block could not be shared (prefix_cache.py:5-7).        *)
OnlyCompleteBlocks ==
  /\ \A e \in DOMAIN entries : Len(entries[e]) % BlockSize = 0
  /\ reply.call = "lookup" => reply.reused_tokens % BlockSize = 0

(* The cache is content addressed: what is found under a key is the content  *)
(* the key was derived from, in that scope, whatever the order of stores.    *)
(* A key reported by a lookup is the key a store of those tokens returned.   *)
ContentAddressed ==
  /\ \A scope \in Scopes, key \in Keys :
       Holds(scope, key) => key = Digest(scope, entries[<<scope, key>>])
  /\ (reply.call = "lookup" /\ reply.cache_key # NoKey) =>
       reply.cache_key =
         Digest(reply.scope, SubSeq(reply.tokens, 1, reply.reused_tokens))

(* How much of a prompt a lookup in a scope would reuse now. *)
ReusedNow(scope, tokens) ==
  Max({0} \cup {Len(entries[<<scope, key>>]) : key \in Candidates(scope, tokens)})

(* Work done once is never lost: no later store, under any digest collision  *)
(* between scopes, makes a lookup of the same tokens reuse less.             *)
ReuseNeverShrinks ==
  [][\A scope \in Scopes, tokens \in Prompts :
       ReusedNow(scope, tokens)' >= ReusedNow(scope, tokens)]_vars

(* What is computed in one scope is invisible in every other: a step that    *)
(* changes the reuse of a scope is a store in that very scope.               *)
ScopesAreIsolated ==
  [][\A scope \in Scopes, tokens \in Prompts :
       ReusedNow(scope, tokens)' # ReusedNow(scope, tokens) =>
         reply'.call = "store" /\ reply'.scope = scope]_vars

-----------------------------------------------------------------------------
(* Refinement: the dictionary read as the set of prefixes it holds. *)

Outcome ==
  CASE reply.call = "none"                     -> [did |-> "nothing"]
    [] reply.call = "error"                    -> [did |-> "error"]
    [] reply.call \in {"store", "store none"} -> [did |-> "store"]
    [] reply.call = "lookup"                   ->
         [did |-> "lookup", reuse |-> reply.reused_tokens, rest |-> reply.recompute_tokens]

Index == INSTANCE PrefixIndex
           WITH index <- {<<e[1], entries[e]>> : e \in {x \in DOMAIN entries : entries[x] # NoEntry}},
                outcome <- Outcome

(* The dictionary and its digests behave as the plain set of prefixes: every *)
(* lookup reports the longest prefix computed in its scope, and all of it.   *)
ImplementsIndex == Index!Spec

-----------------------------------------------------------------------------
(* README.md:133, "the same token prefix reuses complete cached blocks       *)
(* inside one execution and security scope": a prompt that shares complete   *)
(* blocks with a cached sequence reuses at least those.                      *)
SharedBlocks(cached, tokens) ==
  {k \in 0..(Len(tokens) \div BlockSize) :
     /\ k * BlockSize <= Len(cached)
     /\ SubSeq(tokens, 1, k * BlockSize) = SubSeq(cached, 1, k * BlockSize)}

SharedBlocksReused ==
  \A e \in DOMAIN entries, tokens \in Prompts :
    e[1] \notin BlankScopes =>
      \A k \in SharedBlocks(entries[e], tokens) :
        ReusedNow(e[1], tokens) >= k * BlockSize

====
