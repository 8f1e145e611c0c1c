\* Two places, bytes of two bits.
CONSTANTS
  ByteSize = 4
  BitAnd <- BitByBit
  Factors <- ShiftFactors
  Places <- TwoPlaces
  Immediates <- SomeImmediates

SPECIFICATION AluSpec

INVARIANTS
  UnsignedJumps
  JumpsAfterLogic
  TakesUpTheCarry
