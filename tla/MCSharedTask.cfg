SPECIFICATION TaskFairSpec
CONSTANTS
  w1 = w1  w2 = w2
  Workers = {w1, w2}
  Nobody = Nobody
  Lengths = {5, 12}
  MaxServers = 2
INVARIANT ReportRight
PROPERTY ServerAnswered
PROPERTY WorkersEndAfterRest
CHECK_DEADLOCK FALSE
