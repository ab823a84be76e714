SPECIFICATION FairSpec
CONSTANTS
  Handlers = {h1, h2, h3}
  Threads = {t1, t2}
  Deferrables = deferrables
  Capacity = 2
  MaxDefer = 2
  SpuriousWakeups = TRUE
INVARIANTS
  NoCallAfterUnregister
  DeferredInOrder
PROPERTIES
  UnregisterReturns
  DeferredRuns
