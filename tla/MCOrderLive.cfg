SPECIFICATION FairSpec
CONSTANTS
  Orders = {o1}
  Keys = {k1}
  None = none
  Requests = {r1}
  Worker = worker
  Deadline <- MCDeadline
  MaxTime = 1
PROPERTIES OverdueOrdersClose PointsAreSettled
