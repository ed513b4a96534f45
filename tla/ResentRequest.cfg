\* A request that its requester resends before the oracle has answered.
CONSTANTS
  product = product
  pool = pool
  oracle = oracle
  Requesters = {product, pool}
  Oracles = {oracle}
  ProductOf <- OneCluster
  Responses = {r1, r2}
  NoData = NoData
  MaxRequests = 1
  MaxTime = 2
  MaxDepth = 1
SPECIFICATION Spec
INVARIANT FulfilledRequestsAreAnswered
CHECK_DEADLOCK FALSE
