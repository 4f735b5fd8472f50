CONSTANTS
  MaxDoc = 3
  MaxMem = 4
  Names = {"n"}
  NoName = NoName
  Workers = {}
  Items <- NoItems
  Blank = {3}
  Similar <- SecondLikeFirst
  BatchSize = 2
  MaxCrashes = 1
  Targets = {0, 1, 2, 3}
  Ops = {"delete", "promote", "compact", "evolve"}
SPECIFICATION Spec
INVARIANTS TruthSurvives EdgesExplain
CHECK_DEADLOCK FALSE
