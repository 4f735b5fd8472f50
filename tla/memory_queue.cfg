CONSTANTS
  MaxDoc = 2
  MaxMem = 9
  Names = {"n"}
  NoName = NoName
  Workers = {w1, w2}
  Items <- RivalItems
  Blank = {}
  Similar = {}
  BatchSize = 2
  MaxCrashes = 1
  Targets = {0}
  Ops = {"delete", "promote", "cut"}
SPECIFICATION FairSpec
INVARIANT DoneMeansExtracted
PROPERTY QueueDrains
CHECK_DEADLOCK FALSE
