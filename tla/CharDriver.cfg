CONSTANTS
  User = {u1, u2, u3}
  GREET_LEN = 2
SPECIFICATION FairSpec
INVARIANTS
  TypeOK
  ReleasesWhatItHolds
  OpenFileHasDevice
  OffWhenRemoved
  StateFollowsLine
PROPERTIES
  LastMadeFirstReleased
  WriteReturns
