SPECIFICATION Spec
CONSTANTS
  t1 = t1
  t2 = t2
  e1 = e1
  e2 = e2
  None = None
  Tabs = {t1, t2}
  Edits = {e1, e2}
  RetryLimit = 1
  SchemaVersion = 3
  MaxBytes = 1
  MaxPerStore = 3
  MaxInAll = 3
  DayLength = 4
  Policy <- MCPolicy
  Files <- MCFiles
  Start = 80
  Scenes <- MCScenes
INVARIANTS
  NoEditIsForgotten
  WhatIsKeptCanBeRestored
PROPERTIES
  OverwritesOnlyWhatItKnew
  NewestPreRestoreIsKept
  RestoresAStateThatWas
  EditsSettle
CHECK_DEADLOCK FALSE
