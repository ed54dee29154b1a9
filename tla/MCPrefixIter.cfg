SPECIFICATION MCSpec
CONSTANTS
  old = old
  new = new
  Keys <- MCKeys
  PrefixArgs <- MCPrefixArgs
  TypedKeys <- MCTypedKeys
  TypedPrefixes <- MCTypedPrefixes
  Vals = {old, new}
  None = None
  Absent = Absent
INVARIANT TypeOK
INVARIANT MergeAgreesWithGet
INVARIANT BackendsAgree
INVARIANT TypedIterAgrees
