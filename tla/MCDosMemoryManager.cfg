\* A 7-paragraph arena at 3..9 of a 4-bit word; remainders of at most one
\* paragraph are not split off.
CONSTANTS
  Word = 16
  StartSeg = 3
  EndSeg = 10
  Slack = 1
  Requests <- EveryPositiveSize

SPECIFICATION Spec

INVARIANTS
  TypeOK
  Tiling
PROPERTIES
  ImplementsAllocator
  AddressOrderedFit
  FragmentationIsPermanent
