SPECIFICATION FairStoreSpec
CONSTANTS
  Users = {u1}
  Nil = nil
  Stranger = somebody
  Cards = {b1}
  Addresses = {a1, a2}
  DefaultAddress = a1
  Choices = {c1, c2}
  Estimates = {e1, e2}
  MaxAdds = 2
  MaxVisits = 1
  MaxSelections = 1
  MaxKeys = 3
  MaxLosses = 1
INVARIANTS StoreTypeOK RetryIsRecognised
PROPERTIES CheckoutRecovers
CHECK_DEADLOCK FALSE
