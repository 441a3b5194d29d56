CONSTANTS
  coins = coins
  gems = gems
  unknown = unknown
  ProductID = {coins, gems, unknown}
  Sold = {coins, gems}
  Empty = Empty
  MaxCalls = 3
  MaxKills = 1
  Nil = Nil
SPECIFICATION IAPSpec
INVARIANTS TypeOK PaidIsVerified OneAnswer AnswersReachTheirCall
PROPERTY PaidIsFinished
CHECK_DEADLOCK FALSE
