\* Three connections on two descriptors, one header malformed; descriptor 0 is a terminal.
SPECIFICATION Spec
CONSTANTS
  c1 = c1
  c2 = c2
  c3 = c3
  Conns = {c1, c2, c3}
  Request <- GetRequests
  Length <- NoLength
  Malformed = {c3}
  Fds = {4, 5}
  Listen = 3
  Stdin = 0
  StdinOpen = TRUE
  ReadMax = 2
  Workers = {w1}
  NoConn = NoConn
  NoFd = NoFd
  NoClient = NoClient
  Garbled = Garbled
INVARIANT AnswerStaysOnDescriptor
CHECK_DEADLOCK FALSE
