\* A daemon and its child or its successor, under fairness.
SPECIFICATION FairSpec
CONSTANTS
  Proc = {p1, p2}
  Nobody = Nobody
  ExecMayFail = TRUE
  MaxSignals = 3
PROPERTIES SignalEnds ReturnEnds
