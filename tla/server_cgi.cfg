\* A TLS client that starts CGI children, and everything that can go wrong
\* around it, under fairness.
SPECIFICATION FairSpec
CONSTANTS
  NoConn = NoConn
  Conn = {s1}
  HttpsConn = {s1}
  CgiConn = {s1}
  Resetting = {s1}
  CgiFails = TRUE
  MaxFd = 8
  FD_SETSIZE = 16
  JunkFd <- AnyInt
  MaxInbox = 1
  Signals = {1}
INVARIANTS TypeOK WaitSetOpen
PROPERTIES FollowsLifecycle CGINoticed
