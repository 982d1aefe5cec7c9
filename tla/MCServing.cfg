\* Two tokens, two requests that may miss together, an entry lives two ticks,
\* an answer takes up to one to get into the cache.
CONSTANTS
  ldo = ldo
  genesis = genesis
  Tokens = {ldo, steth}
  Runs = {r1, r2}
  Hashes = {genesis, h1, h2}
  MaxNumber = 1
  Infos = {i1}
  None = None
  Endpoints <- MCEndpoints
  Requests = {q1, q2}
  CacheTtl = 2
  FillTicks = 1
SYMMETRY Symmetry
VIEW View
CONSTRAINT Bounds
SPECIFICATION Spec
INVARIANTS TypeOK LastBlockMeansAllSaved ServedIsRecent
PROPERTIES LastBlockNeverOlder ServedTokensAgree RoutedIsServed
CHECK_DEADLOCK FALSE
