CONSTANTS
  Conns = {c1}
  Queries = {q1}
  Texts = {a, b}
  Vecs = {v}
  NoText = NoText
  NoVec = NoVec
  NoIndex = NoIndex
  Nobody = Nobody
  Unset = Unset
  MaxId = 2
  MaxBatch = 2
  MaxStamp = 4
  MaxUnwritten = 1
  QlogFlushAt = 2
  Ops = {"put", "batch", "tx", "stats", "ttl", "kill"}
SPECIFICATION Spec
SYMMETRY Symm
INVARIANTS TypeOK StatsExact HotComplete NoSilentWrites
