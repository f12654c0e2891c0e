SPECIFICATION Spec
CONSTANTS
  Writers = {w1, w2}
  Kinds = {"local", "bucket", "versioned"}
  Stale = 1
  MaxSaves = 2
  MaxTime = 2
  MaxFaults = 1
  None = None
INVARIANTS AckedReadable ErasedIsGone LiveSaveKept
PROPERTY Implements
SYMMETRY WriterSymmetry
CHECK_DEADLOCK FALSE
