SPECIFICATION Spec
CONSTANTS
  d1 = d1
  d2 = d2
  p1 = p1
  p2 = p2
  p3 = p3
  Dirs = {d1, d2}
  Pids = {p1, p2, p3}
  IsInit = TRUE
  HasScript = TRUE
  Signals = {"HUP", "TERM"}
  Failures = {"statdir", "chdir", "opendir", "readdir", "stat", "realloc", "vfork"}
  MaxFails = 1
  MaxChanges = 2
SYMMETRY Symmetry
INVARIANTS
  TypeOK
  EachRunsvTracked
