\* Up to two workers, two requests, one SIGINT.
SPECIFICATION FairSpec
CONSTANTS
  Workers = {w1, w2}
  Tasks = {t1, t2}
  NoTask = NoTask
  Free = Free
  Main = Main
INVARIANTS TypeOK NoRequestCutOff AtMostOneStartsLate IdleExitSparesRequests
PROPERTIES ExitCompletes DispatchedSettle
CHECK_DEADLOCK FALSE
