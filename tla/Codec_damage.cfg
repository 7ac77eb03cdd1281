SPECIFICATION CodecSpec
CONSTANTS
  Keys = {k1, k2}
  NoKey = NoKey
  Unresolved = Unresolved
  ChunkSize = 2
  MaxLength = 3
  MaxDamages = 2
CHECK_DEADLOCK FALSE
INVARIANTS VerifiedIsWhole DeliveredIsPrefix
