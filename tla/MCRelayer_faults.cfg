\* Three relayers that may die, time out or fail, and up to two logs.
CONSTANTS
  v1 = v1  v2 = v2  v3 = v3
  Validators   = {v1, v2, v3}
  EmptyString  = EmptyString
  MaxPower     = 2
  NeededNum    = 7
  NeededDen    = 10
  Claims       <- MC_Claims
  Ids          <- MC_Ids
  InitialPowers <- MC_SomePowers
  Accounts     = {"alice", "bob"}
  NoAccount    = ""
  Nonces       = {1, 2}
  AddressLength = 1
  Senders      <- MC_Senders
  MaxAmount    = 2
  InvalidCoins = InvalidCoins
  Transactions <- MC_NoTransactions
  Locks        <- MC_Locks
  MaxLogs      = 2
SPECIFICATION RelayerSpec
INVARIANTS RelayerTypeOK BalancesAreLocks NoClaimIsLost
PROPERTIES ImplementsLedger EveryLockIsMinted
CHECK_DEADLOCK FALSE
