\* Three processes, each a daemon or a child.
SPECIFICATION Spec
CONSTANTS
  Proc = {p1, p2, p3}
  Nobody = Nobody
  ExecMayFail = TRUE
  MaxSignals = 2
SYMMETRY Symmetry
INVARIANTS TypeOK OneInstance ServesAlone
