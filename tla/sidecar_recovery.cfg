CONSTANTS
  Procs = {p1}
  Texts = {a, b}
  Vecs = {v}
  NoText = NoText
  NoVec = NoVec
  NoIndex = NoIndex
  MaxId = 3
  MaxBatch = 1
  Faults = {}
  Ops = {"put", "batch", "fast", "deferred", "delete", "merge", "flush", "close", "lex", "vec", "warm"}
SPECIFICATION Spec
SYMMETRY Symm
INVARIANT SidecarRecovers
