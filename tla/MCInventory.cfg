SPECIFICATION Spec
CONSTANTS
  v1 = v1
  v2 = v2
  p1 = p1
  Variants = {v1, v2}
  Products = {p1}
  ProductOf <- MCProductOf
  Orders = {o1, o2}
  Prices = {9, 10}
  MaxQuantity = 2
  Baskets <- MCBaskets
  InitialRows <- MCInitialRows
  InitiallyListed = {v1, v2}
  Requests = {r1, r2}
  Worker = worker
  TTL = 1
  BatchLimit = 1
  MaxTime = 1
INVARIANTS TypeOK Conservation PromisesKept OutboxCarriesRows
PROPERTY ImplementsLedger
SYMMETRY Symmetry
