SPECIFICATION Spec
CONSTANTS
  Key <- AllKeys
  Route <- AllRoutes
  Target = {"login", "ipsec"}
  Pages <- SomePages
  LockedDialogs <- LockTable
  Forgotten <- ForgottenTable
  Prefetched <- PrefetchTable
  None = None
  MaxMounts = 1
  MaxActs = 3
INVARIANT ShowsOwnChanges
PROPERTY StaysOpenWhileSaving
CHECK_DEADLOCK FALSE
