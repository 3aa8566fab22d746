\* Two connections and their children, pipes of two bytes; everybody may have
\* finished, or wait for ever for somebody else.
SPECIFICATION FairSpec
CONSTANTS
  Conn = {c1, c2}
  NoConn = NoConn
  PipeSize = 2
  Requests <- SmallRequests
  Scripts <- SmallScripts
  Restless = {c1}
  ExecFails = TRUE
  Signals = TRUE
CHECK_DEADLOCK FALSE
INVARIANTS TypeOK StandoffNeedsBoth BodyReachesChild
PROPERTY EndSeen
