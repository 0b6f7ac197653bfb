SPECIFICATION Spec
CONSTANTS
  Pods = {p1, p2}
  Prompts <- MCPrompts
  BlockSize = 2
  Hash <- MCHash
  MaxKeys = 2
  MaxQueue = 2
  MaxEvents = 5
INVARIANTS LookupIsExact NoPhantomBlock
SYMMETRY Symmetry
