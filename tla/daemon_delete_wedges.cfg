CONSTANTS
  Conns = {c1}
  Queries = {q1}
  Texts = {a}
  Vecs = {}
  NoText = NoText
  NoVec = NoVec
  NoIndex = NoIndex
  Nobody = Nobody
  Unset = Unset
  MaxId = 1
  MaxBatch = 1
  MaxStamp = 4
  MaxUnwritten = 0
  QlogFlushAt = 2
  Ops = {"put", "delete", "kill"}
SPECIFICATION FairSpec
PROPERTY RequestsAnswered
