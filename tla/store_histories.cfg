CONSTANTS
  Procs = {p1}
  Texts = {a, b, c}
  Vecs = {v, w}
  NoText = NoText
  NoVec = NoVec
  NoIndex = NoIndex
  MaxId = 3
  MaxBatch = 1
  Faults = {"putLex", "annSearch"}
  Ops = {"put", "delete", "flush", "close", "lex", "vec"}
SPECIFICATION Spec
SYMMETRY Symm
INVARIANTS AnnNeverLies IndexesComplete
PROPERTIES RowIdsNeverReused StoreImplementsBrain
