SPECIFICATION Spec
CONSTANTS
  u1 = u1
  i1 = i1
  i2 = i2
  dialog = dialog
  kcm = kcm
  NoFile = NoFile
  Alien = Alien
  Broken = Broken
  Units <- OneUnit
  Ids <- TwoIds
  Guests <- NoId
  Dialogs <- OneDialog
  Kcms <- OneKcm
  OldIds <- TwoIds
  Runtimes <- ArmedRuntime
  LostCalls = TRUE
SYMMETRY IdSymmetry
INVARIANTS
  ClientTypeOK
  AddedIsRecorded
  CurrentRowsAreTrue
  OwnEffectsShown
PROPERTIES
  RecordKeptWhileDefined
CHECK_DEADLOCK TRUE
