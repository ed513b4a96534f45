\* Two requests, answers that are accepted or not, and components that call the
\* service again from their callbacks, three calls deep.
CONSTANTS
  product = product
  pool = pool
  oracle = oracle
  Requesters = {product, pool}
  Oracles = {oracle}
  ProductOf <- OneCluster
  Responses = {r1, r2}
  NoData = NoData
  MaxRequests = 2
  MaxTime = 2
  MaxDepth = 3
SPECIFICATION Spec
INVARIANTS
  TypeOK
  DeliveredOnce
  CancellationsAgree
  FailedResponsesAreKept
PROPERTY ImplementsRequestPromise
\* The run ends when all requests have been made and have expired.
CHECK_DEADLOCK FALSE
