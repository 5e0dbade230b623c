---- MODULE PrefixCacheProofs ----
(***************************************************************************)
(* Theorems about PrefixCache, for every set of scopes and prompts and     *)
(* every digest, one that collides across scopes or within one included.   *)
(*                                                                         *)
(* The inductive invariant is that an entry is a sequence of token ids,    *)
(* made of complete blocks, from which its key was derived; everything a   *)
(* lookup reports is read from such an entry.                              *)
(***************************************************************************)
EXTENDS PrefixCache, CommonLemmas, TLAPS

EntriesOK ==
  \A scope \in Scopes, key \in Keys :
    /\ entries[<<scope, key>>] \in Seq(Nat)
    /\ Len(entries[<<scope, key>>]) % BlockSize = 0
    /\ Holds(scope, key) => key = Digest(scope, entries[<<scope, key>>])

(* What the last call said, where it was a lookup. *)
ReplyOK ==
  /\ reply \in Replies
  /\ reply.call = "lookup" => reply.reused_tokens % BlockSize = 0
  /\ (reply.call = "lookup" /\ reply.cache_key # NoKey) =>
       reply.cache_key = Digest(reply.scope, SubSeq(reply.tokens, 1, reply.reused_tokens))

IInv ==
  /\ entries = [e \in Scopes \X Keys |-> entries[e]]
  /\ EntriesOK
  /\ ReplyOK

-----------------------------------------------------------------------------
LEMMA MultiplesDivide ==
  ASSUME NEW b \in Nat, b > 0, NEW q \in Nat
  PROVE  (b * q) % b = 0
<1> DEFINE k == (b * q) \div b
           r == (b * q) % b
<1>1. k \in Int /\ r \in 0..(b - 1) /\ b * q = b * k + r
  OBVIOUS
<1> HIDE DEF k, r
<1>2. b * (q - k) = r
  BY <1>1
<1>3. q - k > 0 => b * (q - k) >= b
  BY <1>1
<1>4. q - k < 0 => b * (q - k) < 0
  BY <1>1
<1>5. q - k = 0
  BY <1>1, <1>2, <1>3, <1>4
<1> QED
  BY <1>1, <1>2, <1>5 DEF r

(* A valid prompt cut to its complete blocks. *)
LEMMA CompleteShape ==
  ASSUME NEW scope \in Scopes, NEW tokens \in Prompts, ValidCall(scope, tokens)
  PROVE  /\ Complete(tokens) \in Seq(Nat)
         /\ Len(Complete(tokens)) = CompleteLength(tokens)
         /\ CompleteLength(tokens) \in 0..Len(tokens)
         /\ CompleteLength(tokens) % BlockSize = 0
         /\ CompleteLength(tokens) > 0 => CompleteLength(tokens) >= BlockSize
<1>1. tokens \in Seq(Nat) /\ Len(tokens) \in Nat
  <2>1. tokens \in Seq(Int)
    BY InputAssumption
  <2> QED
    BY <2>1 DEF ValidCall
<1> DEFINE n == CompleteLength(tokens)
<1>2. /\ n \in 0..Len(tokens) /\ n % BlockSize = 0
      /\ n > 0 => n >= BlockSize
  <2> DEFINE q == Len(tokens) \div BlockSize
  <2>1. /\ BlockSize \in Nat /\ BlockSize > 0 /\ q \in Nat /\ n = BlockSize * q
        /\ n \in 0..Len(tokens)
    BY <1>1, BlockAssumption DEF CompleteLength
  <2> HIDE DEF q, n
  <2>2. n % BlockSize = 0
    BY <2>1, MultiplesDivide
  <2>3. q > 0 => BlockSize * q >= BlockSize
    BY <2>1
  <2> QED
    BY <2>1, <2>2, <2>3
<1>3. SubSeq(tokens, 1, n) \in Seq(Nat) /\ Len(SubSeq(tokens, 1, n)) = n
  BY <1>1, <1>2
<1> QED
  BY <1>2, <1>3 DEF Complete

(* The key of what is stored is a key. *)
LEMMA KeyShape ==
  ASSUME NEW scope \in Scopes, NEW tokens \in Prompts,
         ValidCall(scope, tokens), CompleteLength(tokens) > 0
  PROVE  Key(scope, Complete(tokens)) \in Keys
<1>1. CompleteLength(tokens) \in BlockSize..Len(tokens)
  BY CompleteShape, BlockAssumption
<1> QED
  BY <1>1, DigestAssumption DEF Key, Complete

LEMMA StoreKeeps ==
  ASSUME IInv, NEW scope \in Scopes, NEW tokens \in Prompts, Store(scope, tokens)
  PROVE  IInv'
<1> DEFINE complete == Complete(tokens)
           key      == Key(scope, complete)
<1>1. /\ ValidCall(scope, tokens) /\ CompleteLength(tokens) > 0
      /\ entries' = [entries EXCEPT ![<<scope, key>>] = complete]
      /\ reply' = Stored(scope, tokens, key)
  BY DEF Store
<1>2. /\ complete \in Seq(Nat) /\ Len(complete) % BlockSize = 0 /\ key \in Keys
  BY <1>1, CompleteShape, KeyShape
<1>3. key = Digest(scope, complete)
  BY DEF Key
<1>4. entries' = [e \in Scopes \X Keys |-> entries'[e]]
  BY <1>1 DEF IInv
<1>5. EntriesOK'
  <2> SUFFICES ASSUME NEW s \in Scopes, NEW k \in Keys
               PROVE  /\ entries'[<<s, k>>] \in Seq(Nat)
                      /\ Len(entries'[<<s, k>>]) % BlockSize = 0
                      /\ entries'[<<s, k>>] # NoEntry => k = Digest(s, entries'[<<s, k>>])
    BY DEF EntriesOK, Holds
  <2> HIDE DEF complete, key
  <2>1. CASE s = scope /\ k = key
    <3>1. entries'[<<s, k>>] = complete
      BY <1>1, <1>2, <2>1 DEF IInv
    <3> QED
      BY <1>2, <1>3, <2>1, <3>1
  <2>2. CASE ~(s = scope /\ k = key)
    <3>1. entries'[<<s, k>>] = entries[<<s, k>>]
      BY <1>1, <2>2 DEF IInv
    <3> QED
      BY <3>1 DEF IInv, EntriesOK, Holds
  <2> QED
    BY <2>1, <2>2
<1>6. ReplyOK'
  BY <1>1, <1>2 DEF ReplyOK, Stored, Replies
<1> QED
  BY <1>4, <1>5, <1>6 DEF IInv

LEMMA CandidateLength ==
  ASSUME IInv, NEW scope \in Scopes, NEW tokens \in Prompts, NEW key \in Candidates(scope, tokens)
  PROVE  /\ Len(tokens) \in Nat
         /\ Len(entries[<<scope, key>>]) \in 0..Len(tokens)
         /\ Len(entries[<<scope, key>>]) % BlockSize = 0
<1>1. entries[<<scope, key>>] \in Seq(Nat) /\ Len(entries[<<scope, key>>]) % BlockSize = 0
  BY DEF IInv, EntriesOK, Candidates
<1>2. Len(entries[<<scope, key>>]) \in Nat /\ Len(tokens) \in Nat
  BY <1>1, InputAssumption
<1>3. Len(entries[<<scope, key>>]) <= Len(tokens)
  BY DEF Candidates, Begins
<1> QED
  BY <1>1, <1>2, <1>3

(* A lookup reads the entry of the key it reports. *)
LEMMA LookupKeeps ==
  ASSUME IInv, NEW scope \in Scopes, NEW tokens \in Prompts,
         LookupHit(scope, tokens) \/ LookupMiss(scope, tokens)
  PROVE  IInv'
<1>1. CASE LookupHit(scope, tokens)
  <2>1. PICK key \in Candidates(scope, tokens) :
          reply' = Answered(scope, tokens, Len(entries[<<scope, key>>]), key)
    BY <1>1 DEF LookupHit
  <2>2. /\ key \in Keys /\ Holds(scope, key)
        /\ SubSeq(tokens, 1, Len(entries[<<scope, key>>])) = entries[<<scope, key>>]
    BY DEF Candidates, Begins
  <2>3. key = Digest(scope, entries[<<scope, key>>])
    BY <2>2 DEF IInv, EntriesOK
  <2>4. /\ Len(entries[<<scope, key>>]) \in 0..Len(tokens) /\ Len(tokens) \in Nat
        /\ Len(entries[<<scope, key>>]) % BlockSize = 0
    BY CandidateLength
  <2>5. reply' \in Replies
    BY <2>1, <2>2, <2>4 DEF Answered, Replies
  <2>6. ReplyOK'
    BY <2>1, <2>2, <2>3, <2>4, <2>5 DEF ReplyOK, Answered
  <2> QED
    BY <1>1, <2>6 DEF LookupHit, IInv, EntriesOK, Holds
<1>2. CASE LookupMiss(scope, tokens)
  <2>1. Len(tokens) \in Nat /\ 0 % BlockSize = 0
    BY InputAssumption, BlockAssumption
  <2>2. reply' = Answered(scope, tokens, 0, NoKey)
    BY <1>2 DEF LookupMiss
  <2>3. reply' \in Replies
    BY <2>1, <2>2 DEF Answered, Replies
  <2>4. ReplyOK'
    BY <2>1, <2>2, <2>3 DEF Answered, ReplyOK
  <2> QED
    BY <1>2, <2>4 DEF LookupMiss, IInv, EntriesOK, Holds
<1> QED
  BY <1>1, <1>2

LEMMA Invariance == Spec => []IInv
<1>1. Init => IInv
  <2> SUFFICES ASSUME Init PROVE IInv
    OBVIOUS
  <2>1. \A scope \in Scopes, key \in Keys : entries[<<scope, key>>] = <<>>
    BY DEF Init, NoEntry
  <2>2. <<>> \in Seq(Nat) /\ Len(<<>>) % BlockSize = 0
    BY BlockAssumption
  <2> QED
    BY <2>1, <2>2 DEF Init, IInv, EntriesOK, ReplyOK, Holds, NoEntry, Replies
<1>2. IInv /\ [Next]_vars => IInv'
  <2> SUFFICES ASSUME IInv, [Next]_vars PROVE IInv'
    OBVIOUS
  <2>1. ASSUME NEW scope \in Scopes, NEW tokens \in Prompts,
               StoreNothing(scope, tokens) \/ RejectCall(scope, tokens)
        PROVE  IInv'
    <3>1. entries' = entries /\ reply'.call # "lookup" /\ reply' \in Replies
      <4>1. CASE StoreNothing(scope, tokens)
        BY <4>1 DEF StoreNothing, NothingStored, Replies
      <4>2. CASE RejectCall(scope, tokens)
        BY <4>2 DEF RejectCall, Raised, Replies
      <4> QED
        BY <2>1, <4>1, <4>2
    <3> QED
      BY <3>1 DEF IInv, EntriesOK, Holds, ReplyOK
  <2>2. CASE UNCHANGED vars
    BY <2>2 DEF vars, IInv, EntriesOK, Holds, ReplyOK
  <2> QED
    BY <2>1, <2>2, StoreKeeps, LookupKeeps DEF Next
<1> QED
  BY <1>1, <1>2, PTL DEF Spec

-----------------------------------------------------------------------------
LEMMA EntryShape ==
  ASSUME IInv
  PROVE  /\ entries \in [Scopes \X Keys -> Seq(Nat)]
         /\ \A e \in DOMAIN entries : Len(entries[e]) % BlockSize = 0
<1>1. DOMAIN entries = Scopes \X Keys
  BY DEF IInv
<1>2. \A e \in Scopes \X Keys : entries[e] \in Seq(Nat) /\ Len(entries[e]) % BlockSize = 0
  <2> SUFFICES ASSUME NEW scope \in Scopes, NEW key \in Keys
               PROVE  /\ entries[<<scope, key>>] \in Seq(Nat)
                      /\ Len(entries[<<scope, key>>]) % BlockSize = 0
    OBVIOUS
  <2> QED
    BY DEF IInv, EntriesOK
<1> QED
  BY <1>1, <1>2 DEF IInv

(* Every variable keeps its type: no lookup reports a negative amount of     *)
(* work, whatever overlaps the stored prompts have.                          *)
THEOREM TypeCorrect == Spec => []TypeOK
<1>1. IInv => TypeOK
  BY EntryShape DEF IInv, ReplyOK, TypeOK
<1> QED
  BY <1>1, Invariance, PTL

(* store() keeps and lookup() reports complete blocks only (line 52), for    *)
(* every block size and every prompt.                                        *)
THEOREM WholeBlocks == Spec => []OnlyCompleteBlocks
<1>1. IInv => OnlyCompleteBlocks
  BY EntryShape DEF IInv, ReplyOK, OnlyCompleteBlocks
<1> QED
  BY <1>1, Invariance, PTL

(* Under every key store() ever wrote is the content the key was derived     *)
(* from, in its scope, and a key a lookup reports is the key of the tokens   *)
(* it says are reused.  Nothing is assumed of the digest.                    *)
THEOREM ContentIsAddressed == Spec => []ContentAddressed
<1>1. IInv => ContentAddressed
  BY DEF IInv, EntriesOK, ReplyOK, ContentAddressed
<1> QED
  BY <1>1, Invariance, PTL

(* Reuse in a scope is a function of the entries of that scope.              *)
LEMMA ReuseReadsItsScope ==
  ASSUME NEW scope \in Scopes, NEW tokens \in Prompts,
         \A key \in Keys : entries'[<<scope, key>>] = entries[<<scope, key>>]
  PROVE  ReusedNow(scope, tokens)' = ReusedNow(scope, tokens)
<1>1. Candidates(scope, tokens)' = Candidates(scope, tokens)
  BY DEF Candidates, Holds
<1>2. \A key \in Candidates(scope, tokens) : entries'[<<scope, key>>] = entries[<<scope, key>>]
  BY DEF Candidates
<1> DEFINE lengths == {0} \cup {Len(entries[<<scope, key>>]) : key \in Candidates(scope, tokens)}
<1>3. lengths' = lengths
  BY <1>1, <1>2
<1>4. ReusedNow(scope, tokens) = Max(lengths) /\ ReusedNow(scope, tokens)' = Max(lengths')
  BY DEF ReusedNow
<1> QED
  BY <1>3, <1>4

(* No store in one scope changes what a lookup in another one reuses, even   *)
(* when the joined fields of the two scopes give the same digest.            *)
THEOREM TenantsAreIsolated == Spec => ScopesAreIsolated
<1> DEFINE A == \A scope \in Scopes, tokens \in Prompts :
                  ReusedNow(scope, tokens)' # ReusedNow(scope, tokens) =>
                    reply'.call = "store" /\ reply'.scope = scope
<1>1. IInv /\ [Next]_vars => [A]_vars
  <2> SUFFICES ASSUME IInv, [Next]_vars, NEW scope \in Scopes, NEW tokens \in Prompts,
                      ~(reply'.call = "store" /\ reply'.scope = scope)
               PROVE  ReusedNow(scope, tokens)' = ReusedNow(scope, tokens)
    OBVIOUS
  <2>1. \A key \in Keys : entries'[<<scope, key>>] = entries[<<scope, key>>]
    <3>1. ASSUME NEW s \in Scopes, NEW p \in Prompts, Store(s, p)
          PROVE  \A key \in Keys : entries'[<<scope, key>>] = entries[<<scope, key>>]
      <4>1. s # scope
        BY <3>1 DEF Store, Stored
      <4>2. entries' = [entries EXCEPT ![<<s, Key(s, Complete(p))>>] = Complete(p)]
        BY <3>1 DEF Store
      <4> QED
        BY <4>1, <4>2 DEF IInv
    <3>2. (\A s \in Scopes, p \in Prompts : ~Store(s, p)) => entries' = entries
      BY DEF Next, StoreNothing, LookupMiss, LookupHit, RejectCall, vars
    <3> QED
      BY <3>1, <3>2
  <2> QED
    BY <2>1, ReuseReadsItsScope
<1> QED
  BY <1>1, Invariance, PTL DEF Spec, ScopesAreIsolated

-----------------------------------------------------------------------------
(* From here on the digest tells the token sequences of one scope apart, as  *)
(* SHA-256 over the joined token ids does unless it collides.  Across scopes *)
(* it may still coincide.                                                    *)
DigestTellsApart ==
  \A scope \in Scopes : \A s, t \in Seq(Nat) : Digest(scope, s) = Digest(scope, t) => s = t

(* A store overwrites nothing but the very same content.                     *)
LEMMA StoreAdds ==
  ASSUME DigestTellsApart, IInv, NEW scope \in Scopes, NEW tokens \in Prompts,
         Store(scope, tokens)
  PROVE  LET complete == Complete(tokens)
             key      == Key(scope, complete)
         IN  /\ complete \in Seq(Nat) /\ complete # <<>> /\ key \in Keys
             /\ entries[<<scope, key>>] \in {NoEntry, complete}
             /\ entries' = [entries EXCEPT ![<<scope, key>>] = complete]
<1> DEFINE complete == Complete(tokens)
           key      == Key(scope, complete)
<1>1. /\ ValidCall(scope, tokens) /\ CompleteLength(tokens) > 0
      /\ entries' = [entries EXCEPT ![<<scope, key>>] = complete]
  BY DEF Store
<1>2. complete \in Seq(Nat) /\ Len(complete) > 0 /\ key \in Keys
  BY <1>1, CompleteShape, KeyShape
<1>3. key = Digest(scope, complete)
  BY DEF Key
<1>4. entries[<<scope, key>>] \in Seq(Nat)
  BY <1>2 DEF IInv, EntriesOK
<1>5. entries[<<scope, key>>] # NoEntry => key = Digest(scope, entries[<<scope, key>>])
  BY <1>2 DEF IInv, EntriesOK, Holds
<1>6. entries[<<scope, key>>] # NoEntry => entries[<<scope, key>>] = complete
  <2> HIDE DEF complete, key
  <2> QED
    BY <1>2, <1>3, <1>4, <1>5 DEF DigestTellsApart
<1> QED
  BY <1>1, <1>2, <1>6

(* The dictionary only grows. *)
LEMMA EntriesGrow ==
  ASSUME DigestTellsApart, IInv, [Next]_vars, NEW s \in Scopes, NEW k \in Keys, Holds(s, k)
  PROVE  entries'[<<s, k>>] = entries[<<s, k>>]
<1>1. ASSUME NEW scope \in Scopes, NEW tokens \in Prompts, Store(scope, tokens)
      PROVE  entries'[<<s, k>>] = entries[<<s, k>>]
  <2> DEFINE complete == Complete(tokens)
             key      == Key(scope, complete)
  <2>1. /\ entries[<<scope, key>>] \in {NoEntry, complete}
        /\ entries' = [entries EXCEPT ![<<scope, key>>] = complete]
    BY <1>1, StoreAdds
  <2> HIDE DEF complete, key
  <2>2. CASE <<s, k>> = <<scope, key>>
    BY <2>1, <2>2 DEF Holds, IInv
  <2>3. CASE <<s, k>> # <<scope, key>>
    BY <2>1, <2>3 DEF IInv
  <2> QED
    BY <2>2, <2>3
<1>2. (\A scope \in Scopes, tokens \in Prompts : ~Store(scope, tokens)) => entries' = entries
  BY DEF Next, StoreNothing, LookupMiss, LookupHit, RejectCall, vars
<1> QED
  BY <1>1, <1>2

(* Reuse is never lost: within a scope no later store takes anything away,   *)
(* also when another scope has the same digests.                             *)
THEOREM ReuseIsNeverLost ==
  ASSUME DigestTellsApart
  PROVE  Spec => ReuseNeverShrinks
<1> DEFINE A == \A scope \in Scopes, tokens \in Prompts :
                  ReusedNow(scope, tokens)' >= ReusedNow(scope, tokens)
<1>1. IInv /\ IInv' /\ [Next]_vars => [A]_vars
  <2> SUFFICES ASSUME IInv, IInv', [Next]_vars, NEW scope \in Scopes, NEW tokens \in Prompts
               PROVE  ReusedNow(scope, tokens)' >= ReusedNow(scope, tokens)
    OBVIOUS
  <2> DEFINE now  == {0} \cup {Len(entries[<<scope, key>>]) : key \in Candidates(scope, tokens)}
             next == {0} \cup {Len(entries'[<<scope, key>>]) : key \in Candidates(scope, tokens)'}
             top  == Len(tokens)
  <2>1. ReusedNow(scope, tokens) = Max(now) /\ ReusedNow(scope, tokens)' = Max(next)
    BY DEF ReusedNow
  <2>2. top \in Nat
    BY InputAssumption
  <2>3. \A key \in Candidates(scope, tokens) : Len(entries[<<scope, key>>]) \in 0..top
    BY <2>2, CandidateLength
  <2>4. \A key \in Candidates(scope, tokens)' : Len(entries'[<<scope, key>>]) \in 0..top
    <3>1. \A key \in Candidates(scope, tokens)' :
            /\ entries'[<<scope, key>>] \in Seq(Nat)
            /\ Len(entries'[<<scope, key>>]) <= top
      BY DEF Candidates, Begins, IInv, EntriesOK
    <3> QED
      BY <2>2, <3>1
  <2>5. \A key \in Candidates(scope, tokens) :
          key \in Candidates(scope, tokens)' /\ entries'[<<scope, key>>] = entries[<<scope, key>>]
    BY EntriesGrow DEF Candidates, Holds
  <2>6. now \subseteq next
    BY <2>5
  <2>7. now \subseteq 0..top /\ 0 \in now
    <3>1. {Len(entries[<<scope, key>>]) : key \in Candidates(scope, tokens)} \subseteq 0..top
      BY <2>3, Zenon
    <3>2. 0 \in 0..top
      BY <2>2
    <3> HIDE DEF top
    <3> QED
      BY <3>1, <3>2, Zenon
  <2>8. next \subseteq 0..top /\ 0 \in next
    <3>1. {Len(entries'[<<scope, key>>]) : key \in Candidates(scope, tokens)'} \subseteq 0..top
      BY <2>4, Zenon
    <3>2. 0 \in 0..top
      BY <2>2
    <3> HIDE DEF top
    <3> QED
      BY <3>1, <3>2, Zenon
  <2>9. /\ now \in SUBSET Int /\ now # {} /\ \A n \in now : n <= top
        /\ next \in SUBSET Int /\ next # {} /\ \A n \in next : n <= top
        /\ top \in Int
    <3> HIDE DEF now, next, top
    <3> QED
      BY <2>2, <2>7, <2>8
  <2> HIDE DEF now, next, top
  <2>10. Max(now) \in now /\ Max(next) \in next /\ \A n \in next : n <= Max(next)
    BY <2>9, MaxExists
  <2> QED
    BY <2>1, <2>6, <2>9, <2>10
<1> QED
  BY <1>1, Invariance, PTL DEF Spec, ReuseNeverShrinks

-----------------------------------------------------------------------------
(* Refinement. *)

Pairs(f) == {<<e[1], f[e]>> : e \in {x \in DOMAIN f : f[x] # NoEntry}}

Indexed == Pairs(entries)

LEMMA InPairs ==
  ASSUME NEW f, DOMAIN f = Scopes \X Keys, NEW s, NEW prefix
  PROVE  <<s, prefix>> \in Pairs(f) <=>
           s \in Scopes /\ \E k \in Keys : f[<<s, k>>] # NoEntry /\ f[<<s, k>>] = prefix
<1>1. ASSUME <<s, prefix>> \in Pairs(f)
      PROVE  s \in Scopes /\ \E k \in Keys : f[<<s, k>>] # NoEntry /\ f[<<s, k>>] = prefix
  <2>1. PICK e \in Scopes \X Keys : f[e] # NoEntry /\ <<s, prefix>> = <<e[1], f[e]>>
    BY <1>1, Zenon DEF Pairs
  <2>2. PICK scope \in Scopes, k \in Keys : e = <<scope, k>>
    BY <2>1
  <2>3. scope = s /\ f[<<s, k>>] = prefix
    BY <2>1, <2>2
  <2> QED
    BY <2>1, <2>2, <2>3
<1>2. ASSUME s \in Scopes, NEW k \in Keys, f[<<s, k>>] # NoEntry, f[<<s, k>>] = prefix
      PROVE  <<s, prefix>> \in Pairs(f)
  <2>1. <<s, k>> \in DOMAIN f
    BY <1>2
  <2>2. <<s, prefix>> = <<<<s, k>>[1], f[<<s, k>>]>>
    BY <1>2
  <2> QED
    BY <1>2, <2>1, <2>2, Zenon DEF Pairs
<1> QED
  BY <1>1, <1>2

LEMMA IndexedPairs ==
  ASSUME IInv, NEW scope, NEW prefix
  PROVE  <<scope, prefix>> \in Indexed <=>
           scope \in Scopes /\ \E key \in Keys : Holds(scope, key) /\ entries[<<scope, key>>] = prefix
<1>1. DOMAIN entries = Scopes \X Keys
  BY DEF IInv
<1> QED
  BY <1>1, InPairs DEF Indexed, Holds

LEMMA IndexedNext ==
  ASSUME IInv', NEW s, NEW prefix
  PROVE  <<s, prefix>> \in Indexed' <=>
           s \in Scopes /\ \E k \in Keys : entries'[<<s, k>>] # NoEntry /\ entries'[<<s, k>>] = prefix
<1>1. DOMAIN entries' = Scopes \X Keys
  BY DEF IInv
<1> QED
  BY <1>1, InPairs DEF Indexed

(* What the dictionary finds is what the index would find. *)
LEMMA SameReuse ==
  ASSUME IInv, NEW scope \in Scopes, NEW tokens \in Prompts
  PROVE  Index!Reusable(scope, tokens)
           = {entries[<<scope, key>>] : key \in Candidates(scope, tokens)}
<1>1. tokens \in Seq(Int) /\ Len(tokens) \in Nat
  BY InputAssumption
<1>2. ASSUME NEW key \in Candidates(scope, tokens)
      PROVE  entries[<<scope, key>>] \in Index!Reusable(scope, tokens)
  <2>1. /\ Len(entries[<<scope, key>>]) \in 0..Len(tokens)
        /\ entries[<<scope, key>>] = SubSeq(tokens, 1, Len(entries[<<scope, key>>]))
    BY <1>2, CandidateLength DEF Candidates, Begins
  <2>2. <<scope, entries[<<scope, key>>]>> \in Indexed
    BY <1>2, IndexedPairs DEF Candidates
  <2> QED
    BY <2>1, <2>2 DEF Index!Reusable, Index!Prefixes, Indexed, Pairs
<1>3. ASSUME NEW prefix \in Index!Reusable(scope, tokens)
      PROVE  \E key \in Candidates(scope, tokens) : prefix = entries[<<scope, key>>]
  <2>1. PICK n \in 0..Len(tokens) : prefix = SubSeq(tokens, 1, n)
    BY <1>3 DEF Index!Reusable, Index!Prefixes
  <2>2. <<scope, prefix>> \in Indexed
    BY <1>3 DEF Index!Reusable, Indexed, Pairs
  <2>3. PICK key \in Keys : Holds(scope, key) /\ entries[<<scope, key>>] = prefix
    BY <2>2, IndexedPairs
  <2>4. Len(prefix) = n
    BY <1>1, <2>1
  <2> QED
    BY <2>1, <2>3, <2>4 DEF Candidates, Begins
<1> QED
  BY <1>2, <1>3

(* The two ways to say "as far as its complete blocks". *)
LEMMA SameBlocks ==
  ASSUME NEW tokens \in Prompts
  PROVE  /\ Index!CompleteBlocks(tokens) = Complete(tokens)
         /\ CompleteLength(tokens) = 0 => Complete(tokens) = <<>>
<1>1. tokens \in Seq(Int) /\ Len(tokens) \in Nat /\ BlockSize \in Nat /\ BlockSize > 0
  BY InputAssumption, BlockAssumption
<1>2. CompleteLength(tokens) = BlockSize * (Len(tokens) \div BlockSize)
  BY <1>1 DEF CompleteLength
<1> QED
  BY <1>1, <1>2 DEF Index!CompleteBlocks, Complete

LEMMA StoreLearns ==
  ASSUME DigestTellsApart, IInv, IInv', NEW scope \in Scopes, NEW tokens \in Prompts,
         Store(scope, tokens)
  PROVE  Index!Learn(scope, tokens)
<1> DEFINE complete == Complete(tokens)
           key      == Key(scope, complete)
<1>1. /\ complete \in Seq(Nat) /\ complete # <<>> /\ key \in Keys
      /\ entries[<<scope, key>>] \in {NoEntry, complete}
      /\ entries' = [entries EXCEPT ![<<scope, key>>] = complete]
  BY StoreAdds
<1>2. reply'.call = "store"
  BY DEF Store, Stored
<1>3. Index!CompleteBlocks(tokens) = complete
  BY SameBlocks
<1> HIDE DEF complete, key
<1>4. ASSUME NEW s \in Scopes, NEW k \in Keys
      PROVE  entries'[<<s, k>>] = IF s = scope /\ k = key THEN complete ELSE entries[<<s, k>>]
  BY <1>1 DEF IInv
<1>5. ASSUME NEW s, NEW prefix
      PROVE  <<s, prefix>> \in Indexed' <=>
               <<s, prefix>> \in Indexed \/ (s = scope /\ prefix = complete)
  <2>1. <<s, prefix>> \in Indexed' <=>
          s \in Scopes /\ \E k \in Keys : entries'[<<s, k>>] # NoEntry /\ entries'[<<s, k>>] = prefix
    BY IndexedNext
  <2>2. <<s, prefix>> \in Indexed <=>
          s \in Scopes /\ \E k \in Keys : entries[<<s, k>>] # NoEntry /\ entries[<<s, k>>] = prefix
    BY IndexedPairs DEF Holds
  <2>3. ASSUME <<s, prefix>> \in Indexed'
        PROVE  <<s, prefix>> \in Indexed \/ (s = scope /\ prefix = complete)
    BY <1>4, <2>1, <2>2, <2>3
  <2>4. ASSUME <<s, prefix>> \in Indexed
        PROVE  <<s, prefix>> \in Indexed'
    <3>1. PICK k \in Keys : entries[<<s, k>>] # NoEntry /\ entries[<<s, k>>] = prefix /\ s \in Scopes
      BY <2>2, <2>4
    <3>2. entries'[<<s, k>>] = prefix
      BY <1>1, <1>4, <3>1
    <3> QED
      BY <2>1, <3>1, <3>2
  <2>5. <<scope, complete>> \in Indexed'
    <3>1. entries'[<<scope, key>>] = complete /\ complete # NoEntry
      BY <1>1, <1>4 DEF NoEntry
    <3> QED
      BY <1>1, <3>1, IndexedNext
  <2> QED
    BY <2>3, <2>4, <2>5
<1>6. Indexed' = Indexed \cup {<<scope, complete>>}
  <2>1. \A p \in Indexed : p = <<p[1], p[2]>>
    BY DEF Indexed, Pairs
  <2>2. \A p \in Indexed' : p = <<p[1], p[2]>>
    BY DEF Indexed, Pairs
  <2> QED
    BY <1>5, <2>1, <2>2
<1>7. Outcome' = [did |-> "store"]
  BY <1>2 DEF Outcome
<1> QED
  BY <1>1, <1>3, <1>6, <1>7 DEF Index!Learn, Index!Did, Indexed, Pairs

LEMMA LookupReuses ==
  ASSUME IInv, NEW scope \in Scopes, NEW tokens \in Prompts,
         LookupHit(scope, tokens) \/ LookupMiss(scope, tokens)
  PROVE  Index!Reuse(scope, tokens)
<1>1. Indexed' = Indexed
  BY DEF Indexed, Pairs, LookupHit, LookupMiss
<1>2. CASE LookupMiss(scope, tokens)
  <2>1. Index!Reusable(scope, tokens) = {}
    BY <1>2, SameReuse DEF LookupMiss
  <2>2. Len(tokens) \in Nat
    BY InputAssumption
  <2>3. Outcome' = [did |-> "lookup", reuse |-> 0, rest |-> Len(tokens)]
    BY <1>2, <2>2 DEF LookupMiss, Answered, Outcome
  <2> QED
    BY <1>1, <2>1, <2>3 DEF Index!Reuse, Index!Looked, Indexed, Pairs
<1>3. CASE LookupHit(scope, tokens)
  <2>1. PICK key \in Candidates(scope, tokens) :
          /\ \A other \in Candidates(scope, tokens) :
               Len(entries[<<scope, other>>]) <= Len(entries[<<scope, key>>])
          /\ reply' = Answered(scope, tokens, Len(entries[<<scope, key>>]), key)
    BY <1>3 DEF LookupHit
  <2> DEFINE prefix == entries[<<scope, key>>]
  <2>2. Outcome' = [did |-> "lookup", reuse |-> Len(prefix), rest |-> Len(tokens) - Len(prefix)]
    BY <2>1 DEF Answered, Outcome
  <2>3. /\ prefix \in Index!Reusable(scope, tokens)
        /\ \A other \in Index!Reusable(scope, tokens) : Len(other) <= Len(prefix)
    <3>1. Index!Reusable(scope, tokens)
            = {entries[<<scope, other>>] : other \in Candidates(scope, tokens)}
      BY SameReuse
    <3> QED
      BY <2>1, <3>1
  <2> QED
    BY <1>1, <2>2, <2>3 DEF Index!Reuse, Index!Looked, Indexed, Pairs
<1> QED
  BY <1>2, <1>3

(* The dictionary with its digests behaves as the plain set of prefixes      *)
(* computed so far: every call maps to a call of the index.                  *)
THEOREM CacheImplementsIndex ==
  ASSUME DigestTellsApart
  PROVE  Spec => ImplementsIndex
<1>1. Init => Index!Init
  <2> SUFFICES ASSUME Init PROVE Index!Init
    OBVIOUS
  <2>1. Indexed = {}
    BY DEF Init, Indexed, Pairs
  <2>2. Outcome = [did |-> "nothing"]
    BY DEF Init, Outcome
  <2> QED
    BY <2>1, <2>2 DEF Index!Init, Index!Did, Indexed, Pairs
<1>2. IInv /\ IInv' /\ [Next]_vars => [Index!Next]_(Index!vars)
  <2> SUFFICES ASSUME IInv, IInv', [Next]_vars
               PROVE  [Index!Next]_(Index!vars)
    OBVIOUS
  <2>1. ASSUME NEW scope \in Scopes, NEW tokens \in Prompts, StoreNothing(scope, tokens)
        PROVE  Index!Next
    <3>1. Index!CompleteBlocks(tokens) = <<>>
      BY <2>1, SameBlocks DEF StoreNothing
    <3>2. Indexed' = Indexed
      BY <2>1 DEF StoreNothing, Indexed, Pairs
    <3>3. Outcome' = [did |-> "store"]
      BY <2>1 DEF StoreNothing, NothingStored, Outcome
    <3> QED
      BY <3>1, <3>2, <3>3 DEF Index!Next, Index!Learn, Index!Did, Indexed, Pairs
  <2>2. ASSUME NEW scope \in Scopes, NEW tokens \in Prompts, Store(scope, tokens)
        PROVE  Index!Next
    BY <2>2, StoreLearns DEF Index!Next
  <2>3. ASSUME NEW scope \in Scopes, NEW tokens \in Prompts,
               LookupHit(scope, tokens) \/ LookupMiss(scope, tokens)
        PROVE  Index!Next
    BY <2>3, LookupReuses DEF Index!Next
  <2>4. ASSUME NEW scope \in Scopes, NEW tokens \in Prompts, RejectCall(scope, tokens)
        PROVE  Index!Next
    <3>1. Indexed' = Indexed
      BY <2>4 DEF RejectCall, Indexed, Pairs
    <3>2. Outcome' = [did |-> "error"]
      BY <2>4 DEF RejectCall, Raised, Outcome
    <3> QED
      BY <3>1, <3>2 DEF Index!Next, Index!Fail, Index!Did, Indexed, Pairs
  <2>5. CASE UNCHANGED vars
    BY <2>5 DEF vars, Index!vars, Outcome
  <2> QED
    BY <2>1, <2>2, <2>3, <2>4, <2>5 DEF Next
<1> QED
  BY <1>1, <1>2, Invariance, PTL DEF Spec, ImplementsIndex, Index!Spec

====
