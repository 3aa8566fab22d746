\* A TLS client and a client that starts CGI children.
SPECIFICATION Spec
CONSTANTS
  NoConn = NoConn
  Conn = {s1, g1}
  HttpsConn = {s1}
  CgiConn = {g1}
  Resetting = {}
  CgiFails = FALSE
  MaxFd = 7
  FD_SETSIZE = 16
  JunkFd = {3, 4, 6, 12}
  MaxInbox = 1
  Signals = {}
ACTION_CONSTRAINT MoveWhenRead
INVARIANTS IteratorSafe DescriptorOwnership PrivateOutput Watched StillReadable
