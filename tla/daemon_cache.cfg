CONSTANTS
  Conns = {c1}
  Queries = {q1, q2}
  Texts = {a, b}
  Vecs = {v}
  NoText = NoText
  NoVec = NoVec
  NoIndex = NoIndex
  Nobody = Nobody
  Unset = Unset
  MaxId = 2
  MaxBatch = 1
  MaxStamp = 6
  MaxUnwritten = 0
  QlogFlushAt = 2
  Ops = {"put", "delete", "merge", "search", "extPut", "extDelete", "checkpoint", "shutdown", "kill"}
SPECIFICATION Spec
SYMMETRY Symm
INVARIANT NoStaleHitsForever
PROPERTY DaemonImplementsBrain
