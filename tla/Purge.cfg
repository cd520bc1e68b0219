SPECIFICATION MCSpec
CONSTANTS
  u1 = u1
  u2 = u2
  i1 = i1
  i2 = i2
  NoFile = NoFile
  Alien = Alien
  Broken = Broken
  Units <- TwoUnits
  Ids <- TwoIds
  Guests <- NoGuests
  Strays <- AnAlien
  AdminUnits <- NoUnit
  MaxInst = 3
  MaxHits = 1
  LateJobs = FALSE
  EagerCross = FALSE
  Peers <- DefineAndRemove
SYMMETRY Symmetry
INVARIANTS
  PurgeComplete
  PurgeIsQuiet
  RemovalOrphansNothing
PROPERTIES
  PurgeKeepsPromise
CHECK_DEADLOCK TRUE
