CONSTANTS
  NoHash = NoHash
  NoStage = NoStage
  c1 = c1
  c2 = c2
  c3 = c3
  c4 = c4
  Client = {c1, c2, c3, c4}
  Mounts = {c2}
  Name = {"a", "b"}
  MaxInode = 8
  Asked <- MCAsked
  Start <- MCStart
  Policies <- MCPolicies
  EvictPage = 2
  PrunePage = 2
  MaxTries = 2
  MaxHops = 1
SPECIFICATION Spec
INVARIANTS StoreSound RevisionIdentifies HistoryAccounts
PROPERTIES RetrySettles BoundToParent NoLostUpdate OkMeansApplied ReadsOnePublication EveryChangeRecorded
CHECK_DEADLOCK FALSE
