\* One caller whose first connection takes two ids or two generations, and two
\* carriers on two paths.
SPECIFICATION FairSpec
CONSTANTS
  Callers = {c1}
  Workers = {0, 1}
  Path <- OwnPath
  MaxIncarnations = 1
  MaxIds = 3
  OPEN_ATTEMPTS = 2
  MaxStreams = 1
  MaxTable = 1
  Jobs = 2
  Chunks = {"get", "post"}
  MaxChunks = 2
  ParkedCap = 1
INVARIANTS OneGeneration NothingLeaks
PROPERTIES  GhostsEnd
CHECK_DEADLOCK FALSE
