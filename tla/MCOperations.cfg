SPECIFICATION OpsSpec
CHECK_DEADLOCK FALSE
CONSTANTS
  Orders = {o1}
  Variants = {v1}
  Returns = {r1, r2}
  Purchases = {p1}
  None = None
  MaxQty = 1
  MaxAdjust = 1
  MaxRefund = 1
INVARIANT GoodsComeBackOnce
