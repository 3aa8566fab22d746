\* A daemon and a child whose execve fails.
SPECIFICATION Spec
CONSTANTS
  Proc = {p1, p2}
  Nobody = Nobody
  ExecMayFail = TRUE
  MaxSignals = 0
INVARIANT OnlyFirstInstance
