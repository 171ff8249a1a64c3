\* Violated: a POST that arrives in one piece is not answered.
SPECIFICATION FairSpec
CONSTANTS
  c1 = c1
  c2 = c2
  c3 = c3
  Conns = {c1}
  Request <- OnlyPosts
  Length <- OneLength
  Malformed = {}
  Fds = {4}
  Listen = 3
  Stdin = 0
  StdinOpen = FALSE
  ReadMax = 2
  Workers = {w1}
  NoConn = NoConn
  NoFd = NoFd
  NoClient = NoClient
  Garbled = Garbled
PROPERTY CompleteRequestsAnswered
CHECK_DEADLOCK FALSE
