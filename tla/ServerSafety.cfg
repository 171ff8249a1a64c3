\* Two connections, two descriptors, two workers; bytes after a request, a split POST.
SPECIFICATION Spec
CONSTANTS
  c1 = c1
  c2 = c2
  c3 = c3
  Conns = {c1, c2}
  Request <- MixedRequests
  Length <- MixedLength
  Malformed = {}
  Fds = {4, 5}
  Listen = 3
  Stdin = 0
  StdinOpen = FALSE
  ReadMax = 2
  Workers = {w1, w2}
  NoConn = NoConn
  NoFd = NoFd
  NoClient = NoClient
  Garbled = Garbled
INVARIANTS TypeOK DispatchedComplete HandledOnce OneClientIsSafe LoopKnowsItsClients StayersPolled
CHECK_DEADLOCK FALSE
