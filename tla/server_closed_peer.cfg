\* A client that leaves after half a request.
SPECIFICATION FairSpec
CONSTANTS
  NoConn = NoConn
  Conn = {h1}
  HttpsConn = {}
  CgiConn = {}
  Resetting = {}
  CgiFails = FALSE
  MaxFd = 4
  FD_SETSIZE = 16
  JunkFd = {0}
  MaxInbox = 1
  Signals = {}
PROPERTY ClosedPeerReaped
