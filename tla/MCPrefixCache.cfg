\* Blocks of two tokens, prompts of one to five.
CONSTANTS
  acme = acme
  beta = beta
  blank = blank
  NoKey = NoKey
  Scopes <- MCScopes
  BlankScopes <- MCBlankScopes
  Prompts <- MCPrompts
  BlockSize = 2
  Keys <- MCKeys
  Digest <- MCDigest
SPECIFICATION Spec
SYMMETRY Tenants
INVARIANTS
  ContentAddressed
PROPERTIES
  ReuseNeverShrinks
  ScopesAreIsolated
  ImplementsIndex
