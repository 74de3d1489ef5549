CONSTANTS
  Bits = 2
  Sites <- MCSites
  FlagSets <- MCFlagSets
  SourceFlags <- MCSourceFlags
  SourceMflags = 4
  MaxAge = 1
  MinPkt = 2
  Headway = 4
  Shift = 2
  AgeMax = 5
  Back = 2
  Ahead = 3
  MaxDrift = 1
SPECIFICATION Spec
INVARIANTS MostSpecific LimitedCounted MruAccounted KodSpacing
CHECK_DEADLOCK FALSE
