SPECIFICATION WorkSpec
CONSTANTS
  a1 = a1  a2 = a2  tick = tick
  n1 = n1  n2 = n2  l1 = l1  l2 = l2  m1 = m1
  review = review  none = none
  ApiWorkers = {a1, a2}
  Tick = tick
  NewJobs = {n1, n2}
  LineJobs = {l1, l2}
  MapJobs = {m1}
  ReviewOf <- MCReviewOf
  VersionOf <- MCVersionOf
  MaxVersion = 2
  MaxProducts = 2
  MaxLateLinks = 1
  NoOne = none
  Unset = unset
  MappingRequests = {r1, r2}
  MappedReviews = {x1, x2}
  ExpenseAccounts = {770, 771}
  MaxMappedVersion = 2
SYMMETRY ApiSymmetry
CHECK_DEADLOCK FALSE
INVARIANTS
    OneProductPerIdentity
    CreationIsRecorded
    MappingIsTrue
