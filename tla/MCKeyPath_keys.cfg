CONSTANTS
  Digits = {"2", "5"}
  FirstPassword <- MCPassword
SPECIFICATION PathSpec
INVARIANT PathInv
PROPERTIES SequenceOpensChange SameUntilChanged
