\* Requests in a row, whole or cut anywhere.
SPECIFICATION FairSpec
CONSTANTS
  BUF_SIZE = 24
  SizeT = 64
  INT_MAX = 4
  Scripts <- SmallScripts
  Deliveries = {"whole", "cut"}
  MaxHeaders = 4
  MaxOverrun = 2
INVARIANTS TypeOK BodyFits OkHasUri AnswersFit BufferIsStream WholeStaysInside
PROPERTIES AsServerSees WholeRequestAnswered
