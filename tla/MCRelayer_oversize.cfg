\* One lock of more than coins can hold.
CONSTANTS
  v1 = v1  v2 = v2  v3 = v3
  Validators   = {v1, v2, v3}
  EmptyString  = EmptyString
  MaxPower     = 2
  NeededNum    = 7
  NeededDen    = 10
  Claims       <- MC_Claims
  Ids          <- MC_Ids
  InitialPowers <- MC_SomePowers
  Accounts     = {"alice", "bob"}
  NoAccount    = ""
  Nonces       = {1}
  AddressLength = 1
  Senders      <- MC_Senders
  MaxAmount    = 2
  InvalidCoins = InvalidCoins
  Transactions <- MC_NoTransactions
  Locks        <- MC_OversizeLocks
  MaxLogs      = 1
SPECIFICATION RelayerSpec
INVARIANTS BalancesAreLocks
CHECK_DEADLOCK FALSE
