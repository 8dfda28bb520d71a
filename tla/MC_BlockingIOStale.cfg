\* The server with block only: the listener, resumed by the dispatch loop,
\* re-registers after its new processor on a pollfd with stale revents.
CONSTANTS
  c1 = c1
  c2 = c2
  c3 = c3
  c4 = c4
  x = x
  y = y
  z = z
  Clients <- ThreeClients
  NoClient = NoClient
  Listener = c1
  ListenFd = x
  Fds <- ThreeFds
  Ops = {"in"}
  MaxPollFds = 1
  Rounds = 2
  MaxAccepts = 3
  HandleChunk = 8
  ArrayChunk = 8
  MaxHandles = 8
  MaxArray = 8
  OverlapCopy = "forward"
SPECIFICATION Spec
PROPERTY NoSpuriousCallback
