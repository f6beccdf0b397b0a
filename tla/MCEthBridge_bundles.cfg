\* Transactions of one or two messages about two locks, while the stake moves.
CONSTANTS
  v1 = v1  v2 = v2  v3 = v3
  Validators   = {v1, v2}
  EmptyString  = EmptyString
  MaxPower     = 2
  NeededNum    = 7
  NeededDen    = 10
  Claims       <- MC_Claims
  Ids          <- MC_Ids
  InitialPowers <- MC_AllPowers
  Accounts     = {"alice", "bob"}
  NoAccount    = ""
  Nonces       = {1, 12}
  AddressLength = 2
  Senders      <- MC_Senders
  MaxAmount    = 2
  InvalidCoins = InvalidCoins
  NonceTexts   <- MC_NonceTexts
  NotBech32    = NotBech32
  CommandRequests <- MC_Requests
  BundledRequests <- MC_BundledRequests
  Transactions <- MC_Bundles
SYMMETRY MC_Symmetry
SPECIFICATION ClientSpec
INVARIANTS BridgeTypeOK BalancesAreVerdicts QueryReportsDelivered
PROPERTIES PaidOnSuccessOnly
