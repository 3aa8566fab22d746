\* A static and a CGI client, under fairness.
SPECIFICATION FairSpec
CONSTANTS
  NoConn = NoConn
  Conn = {s1, g1}
  HttpsConn = {s1}
  CgiConn = {g1}
  Resetting = {}
  CgiFails = FALSE
  MaxFd = 5
  FD_SETSIZE = 16
  JunkFd = {3, 4}
  MaxInbox = 1
  Signals = {}
INVARIANT NeverHalfDeaf
PROPERTIES BacklogAccepted IdleReclaimed FdLimitStops
