\* The listener and three processor slots, four connections accepted,
\* each wait on one of three descriptors, two waits a connection; the arrays grow by
\* 8 entries as in the code.
CONSTANTS
  c1 = c1
  c2 = c2
  c3 = c3
  c4 = c4
  x = x
  y = y
  z = z
  Clients <- FourClients
  NoClient = NoClient
  Listener = c1
  ListenFd = x
  Fds <- ThreeFds
  Ops = {"in"}
  MaxPollFds = 1
  Rounds = 2
  MaxAccepts = 4
  HandleChunk = 8
  ArrayChunk = 8
  MaxHandles = 8
  MaxArray = 8
  OverlapCopy = "forward"
SPECIFICATION Spec
INVARIANT TypeOK
INVARIANT TableConsistent
PROPERTY ReadyClientsResumed
INVARIANT StacksAccounted
