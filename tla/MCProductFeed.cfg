SPECIFICATION FairSpec
CONSTANTS
  p1 = p1
  p2 = p2
  v1 = v1
  v2 = v2
  v3 = v3
  Products = {p1, p2}
  Variants = {v1, v2, v3}
  ProductOf <- MCProductOf
  Events <- MCEvents
  RowOf <- MCRowOf
  Polls = {s1, s2}
  BatchSize = 2
  Consumers = {"catalog", "priced"}
  MaxFailures = 1
  MaxEditions = 3
INVARIANTS FeedEndsWithRow AppliedWholly
PROPERTIES ImplementsLog CopiesCatchUp
CHECK_DEADLOCK FALSE
