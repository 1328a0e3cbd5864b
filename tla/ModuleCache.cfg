SPECIFICATION FairCacheSpec
CONSTANTS
  Thread = {t1, t2}
  Hash = {h1, h2, h3}
  MaxCached = {0, 1}
  None = None
INVARIANT CacheBounded
PROPERTY CompileReturns
