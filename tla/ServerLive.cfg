\* Three connections, two descriptors, one worker; a request in two pieces; descriptor 0 is a terminal.
SPECIFICATION LiveSpec
CONSTANTS
  c1 = c1
  c2 = c2
  c3 = c3
  Conns = {c1, c2, c3}
  Request <- SplitRequests
  Length <- NoLength
  Malformed = {}
  Fds = {4, 5}
  Listen = 3
  Stdin = 0
  StdinOpen = TRUE
  ReadMax = 2
  Workers = {w1}
  NoConn = NoConn
  NoFd = NoFd
  NoClient = NoClient
  Garbled = Garbled
PROPERTY CompleteRequestsAnswered
CHECK_DEADLOCK FALSE
