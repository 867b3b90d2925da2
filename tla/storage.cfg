SPECIFICATION Spec
CONSTANTS
  None = None
  Data = {d1, d2}
  Writers = {w1, w2}
  Readers = {w1}
  Blocks = 2
  Failures = {"directory", "open", "write", "flush", "rename", "read", "remove", "power"}
INVARIANTS
  TypeOK
  NeverMixed
PROPERTIES
  ImplementsAtomicFile
SYMMETRY Symmetry
CONSTRAINT
  OverlapAlone
