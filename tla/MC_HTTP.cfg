\* Both processors; GET, HEAD and POST over HTTP/1.0 and 1.1, with and without Connection headers; a file and a directory
\* of up to one byte; two requests on the connection; one change of the
\* file by another process; one descriptor left to open.
CONSTANTS
  Apps = {"eg1", "eg2"}
  Methods = {"GET", "HEAD", "POST"}
  Versions = {"1.0", "1.1"}
  ConnHdrs = {"none", "close", "keep-alive"}
  Objects <- TwoObjects
  Kind <- FileAndDir
  MaxSize = 1
  Values <- TwoValues
  MaxReqs = 2
  MaxWrites = 1
  MaxFds = 1
SPECIFICATION Spec
INVARIANT TypeOK
INVARIANT FormValuesDecoded
PROPERTY KeepAliveOnlyWhenFramed
