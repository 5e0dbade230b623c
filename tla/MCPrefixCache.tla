---- MODULE MCPrefixCache ----
(***************************************************************************)
(* Small instance of PrefixCache: two scopes whose digests coincide, which *)
(* the join in _digest allows when a field contains the separator, and a   *)
(* scope with a blank field.  Within one scope the digest tells token      *)
(* sequences apart, as the joined token ids do.                            *)
(***************************************************************************)
EXTENDS PrefixCache, TLC

CONSTANTS acme, beta, blank

MCScopes      == {acme, beta, blank}
MCBlankScopes == {blank}

(* Extensions of one another, a common first block, a shared first token,    *)
(* a partial block, a prompt shorter than a block, an invalid token id.      *)
MCPrompts ==
  {<<1>>, <<1, 2>>, <<1, 2, 1, 1>>, <<1, 2, 2, 1, 1>>, <<1, 1, 2>>, <<-1, 1>>}

MCDigest(scope, tokens) == tokens

(* The digests of what a store may hold, and of the whole prompts. *)
MCKeys == UNION {{SubSeq(p, 1, n) : n \in 2..Len(p)} : p \in MCPrompts}

Tenants == Permutations({acme, beta})

====
