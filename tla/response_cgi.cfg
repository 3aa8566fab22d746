\* A CGI request on a connection that was kept alive.
SPECIFICATION Spec
CONSTANTS
  FileSizes = {100}
  Chunks = {1, 4096}
  MaxReads = 2
INVARIANT CGIRoom
