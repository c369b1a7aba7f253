\* Two writers and a reader on one flag, with database errors and restarts.
SPECIFICATION Spec
CONSTANTS
  f1 = f1
  f2 = f2
  w1 = w1
  w2 = w2
  r1 = r1
  first = first
  second = second
  last = last
  team = team
  Null = Null
  NoFlag = NoFlag
  Idle = Idle
  Parts = 2
  Names <- OneName
  Agents <- EdgeAgents
  Bucket <- EdgeBuckets
  Rules <- NullOrTeam
  Payloads <- SmallPayloads
  Patches <- SmallPatches
  Writers <- TwoWriters
  Readers <- OneReader
  Faults <- AllFaults
INVARIANTS TypeOK AcknowledgedWasInEffect KilledFlagStaysOff RolloutReachesItsShare
PROPERTIES ColumnsChangeKnowingly AgentsMoveWithRollout ImplementsBoard
SYMMETRY Symmetry
