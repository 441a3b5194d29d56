CONSTANTS
  main = main
  worker = worker
  Thread = {main, worker}
  Main = main
  Url <- MCUrl
  token = token
  Header = {token}
  Method = {"GET", "upload"}
  MaxRequests = 2
  Nil = Nil
SPECIFICATION Spec
INVARIANTS TypeOK RunningCanBeCancelled IndicatorSettles ConfigurationIsOwn
PROPERTIES CallersHear WaitersReturn MainNeverReturns
CHECK_DEADLOCK FALSE
