SPECIFICATION FairSpec
CONSTANTS
  t1 = t1
  t2 = t2
  enough = enough
  short = short
  broken = broken
  tail = tail
  NoWorker = NoWorker
  Worker <- Workers
  File <- Files
  Rate <- RateOf
  Length <- LengthOf
  Broken <- BrokenFiles
  Seconds = 1
  Chunk = 2
INVARIANTS
  TypeOK
  WindowIsOfThisFile
  OutcomeIsOfThisFile
  DetectorIsOwned
  PlannerIsExclusive
PROPERTY
  AnalysisEnds
\* the process may end for lack of memory
CHECK_DEADLOCK FALSE
