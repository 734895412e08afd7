SPECIFICATION CatalogSpec
CONSTANTS
  v1 = v1
  v2 = v2
  p1 = p1
  Variants = {v1, v2}
  Products = {p1}
  ProductOf <- MCProductOf
  Orders = {o1, o2}
  Prices = {10, 11}
  MaxQuantity = 1
  Baskets <- MCBaskets
  InitialRows <- MCInitialRows
  InitiallyListed = {v1}
  Requests = {r1}
  Worker = worker
  TTL = 1
  BatchLimit = 1
  MaxTime = 1
  Admins = {a1}
  NewVariants = {v2}
  NewRow <- MCNewRow
  EditPrices = {11}
  EditStocks = {1}
INVARIANT StockCoversReservations
