SPECIFICATION MCSpec
CONSTANTS
  Queries = {q1, q2}
  Tids = {t1}
INVARIANTS
  HandledOnce AskedOnce ResultIsNearest FindsClosest ServesRecentAnnounces
  SuccessMeansListed ListsRecent EventsOnce
PROPERTIES
  CallersReturn NeighboursMeet InterestedServed
CHECK_DEADLOCK FALSE
