SPECIFICATION Spec
CONSTANTS
  Orders = {o1}
  Keys = {k1, k2}
  None = none
  Requests = {r1, r2, r3}
  Worker = worker
  Deadline <- MCDeadline
  MaxTime = 1
SYMMETRY Symmetry
INVARIANTS TypeOK PaidOrderHasStock ClosedOrderReturnsStock OnePaymentPerOrder DiscountIsRedeemed
PROPERTY PaidIsFinal
