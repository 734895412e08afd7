SPECIFICATION Spec
CONSTANTS
  Variants = {v1}
  Prices = {10}
  MaxQuantity = 2
  Stock <- MCStock
  Orders = {o1, o2}
  Carts = {c1}
  Addresses = {a1, a2}
  Keys = {k1}
  Baskets <- MCBaskets
  Terms = {t1}
  None = none
  Requests = {r1, r2}
  MaxVersion = 2
  MaxCoupon = 2
  MaxQuotes = 1
SYMMETRY Symmetry
INVARIANTS TypeOK AnswersAgree OrderHoldsStock ShippingFitsOrder NoStrandedStock
PROPERTY ClearsOnlyOrdered
