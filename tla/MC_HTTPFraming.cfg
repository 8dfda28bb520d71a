\* eg2 alone, the bounds of MC_HTTP.cfg: is the body of every response
\* after which the connection stays open exactly as long as announced?
CONSTANTS
  Apps = {"eg2"}
  Methods = {"GET", "HEAD", "POST"}
  Versions = {"1.0", "1.1"}
  ConnHdrs = {"none", "close", "keep-alive"}
  Objects <- TwoObjects
  Kind <- FileAndDir
  MaxSize = 1
  Values <- TwoValues
  MaxReqs = 2
  MaxWrites = 1
  MaxFds = 1
SPECIFICATION Spec
PROPERTY ResponsesFramed
