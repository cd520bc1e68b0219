SPECIFICATION Spec
CONSTANTS
  u1 = u1
  u2 = u2
  i1 = i1
  i2 = i2
  i3 = i3
  NoFile = NoFile
  Alien = Alien
  Broken = Broken
  Units <- OneUnit
  Ids <- TwoIds
  Guests <- GuestIds
  Strays <- NoStrays
  AdminUnits <- NoUnit
  MaxInst = 3
  MaxHits = 0
  LateJobs = FALSE
  EagerCross = TRUE
INVARIANTS
  ArmedIsTrusted
CHECK_DEADLOCK TRUE
