SPECIFICATION FairSpec
CONSTANTS
  Tasks = {t1, t2}
  App = app
  NoHandle = none
  CallbackStops = TRUE
INVARIANTS
  TypeOK
  OneWorker
  JoinBeforeTeardown
  BaseDestructorJoins
  AnnouncementsAlternate
PROPERTIES
  StopReturns
CHECK_DEADLOCK FALSE
