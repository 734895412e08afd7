SPECIFICATION FairSpec
CONSTANTS
  Orders = {o1}
  Products = {p1}
  Items <- MCItems
  Initially = {none, "CREATED", "IN_TRANSIT"}
  None = none
  Events <- MCEvents
  RowOf <- MCRowOf
  Polls = {s1, s2}
  BatchSize = 2
  Consumers = {"orders", "notifications", "reviews"}
  Reviewers = {r1, r2}
  MaxFailures = 1
  MaxEvents = 2
  MaxReviews = 2
INVARIANT ReviewsAreEarned
PROPERTIES ReadStaysRead OrdersReachEveryone
CHECK_DEADLOCK FALSE
