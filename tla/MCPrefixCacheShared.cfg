\* README.md:133 on prompts that share complete blocks with a cached one.
CONSTANTS
  acme = acme
  beta = beta
  blank = blank
  NoKey = NoKey
  Scopes <- MCScopes
  BlankScopes <- MCBlankScopes
  Prompts <- MCPrompts
  BlockSize = 2
  Keys <- MCKeys
  Digest <- MCDigest
SPECIFICATION Spec
SYMMETRY Tenants
INVARIANTS
  SharedBlocksReused
