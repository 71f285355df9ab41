SPECIFICATION FairSpec
CONSTANTS
  Clients = {c1, c2}
  Cap = 2
  MaxLines = 1
  Outcomes = {"done", "cancelled"}
INVARIANTS TypeOK FinisherNeverPanics NoOrphanStream DoneMatchesRow SilentEndMeansOverflow
PROPERTIES StreamEnds
CHECK_DEADLOCK FALSE
