\* Violated: the second connection on a descriptor gets the answer to the first.
SPECIFICATION Spec
CONSTANTS
  c1 = c1
  c2 = c2
  c3 = c3
  Conns = {c1, c2}
  Request <- OnlyGets
  Length <- NoLength
  Malformed = {}
  Fds = {4}
  Listen = 3
  Stdin = 0
  StdinOpen = FALSE
  ReadMax = 2
  Workers = {w1}
  NoConn = NoConn
  NoFd = NoFd
  NoClient = NoClient
  Garbled = Garbled
INVARIANT AnswersOwnRequest
CHECK_DEADLOCK FALSE
