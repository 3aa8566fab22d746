\* A file that is empty, small, or larger than a buffer.
SPECIFICATION Spec
CONSTANTS
  FileSizes = {0, 1, 999, 5000}
  Chunks = {1, 4096}
  MaxReads = 3
INVARIANTS TypeOK ResponseFits BodyIsRead NothingCarriedOver CGIRoomAtFirst
PROPERTY ErrorsClose
