SPECIFICATION FairSpec
CONSTANTS
  u1 = u1
  u2 = u2
  i1 = i1
  i2 = i2
  i3 = i3
  NoFile = NoFile
  Alien = Alien
  Broken = Broken
  Units <- OneUnit
  Ids <- ThreeIds
  Guests <- GuestIds
  Strays <- AllStrays
  AdminUnits <- OneUnit
  MaxInst = 5
  MaxHits = 2
  LateJobs = FALSE
  EagerCross = FALSE
INVARIANTS
  TypeOK
  ArmedIsTrusted
  DefinitionOutlivesTrigger
  DefineComplete
  DefineAtomic
  RemovalIsQuiet
  RemoveComplete
PROPERTIES
  CallsReturn
CHECK_DEADLOCK TRUE
