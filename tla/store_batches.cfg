CONSTANTS
  Procs = {p1}
  Texts = {a, b}
  Vecs = {v}
  NoText = NoText
  NoVec = NoVec
  NoIndex = NoIndex
  MaxId = 2
  MaxBatch = 2
  Faults = {"putLex"}
  Ops = {"put", "batch", "fast", "deferred", "delete", "merge", "flush", "close", "lex", "vec", "warm"}
SPECIFICATION Spec
SYMMETRY Symm
INVARIANTS TypeOK IndexesComplete OnlyCutPutsLoseMemory
