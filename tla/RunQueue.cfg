SPECIFICATION Spec
CONSTANTS
  NCPU = 2
  Tasks = {t1, t2}
  Procs = {p1, p2}
  MaxSpins = 2
  MaxMoves = 2
  Nil = Nil
SYMMETRY Perms
INVARIANTS RingExact NotAllWaiting GivesUpOnlyIfMoved
PROPERTY OwnershipHolds
