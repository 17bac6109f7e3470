SPECIFICATION FairSpec
CONSTANTS
  Procs = {web, worker}
  Attempts = 2
  Limit = 1
  Threshold = 2
  MaxNotes = 2
  MaxCount = 3
  MaxCrashes = 1
INVARIANTS TypeOK SentWasReceived DuplicatesAreBounded
PROPERTIES FailuresAreAnnounced PendingIsSettled
CHECK_DEADLOCK FALSE
