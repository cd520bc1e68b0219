SPECIFICATION Spec
CONSTANTS
  u1 = u1
  u2 = u2
  i1 = i1
  i2 = i2
  i3 = i3
  NoFile = NoFile
  Alien = Alien
  Broken = Broken
  Units <- TwoUnits
  Ids <- TwoIds
  Guests <- GuestIds
  Strays <- NoStrays
  AdminUnits <- NoUnit
  MaxInst = 3
  MaxHits = 1
  LateJobs = FALSE
  EagerCross = FALSE
INVARIANTS
  NeverSelfTampered
  BootArmsTheRest
PROPERTIES
  KeepsPromise
CHECK_DEADLOCK TRUE
