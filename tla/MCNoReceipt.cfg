CONSTANTS
  coins = coins
  gems = gems
  unknown = unknown
  ProductID = {coins, unknown}
  Sold = {coins}
  Empty = Empty
  MaxCalls = 1
  MaxKills = 0
  Nil = Nil
SPECIFICATION IAPSpec
PROPERTY PaidIsSettled
CHECK_DEADLOCK FALSE
