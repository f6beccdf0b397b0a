\* Files made by the commands, chains started from them, exports and restarts.
CONSTANTS
  Addresses   = {1, 2}
  Validators  = {v1}
  None        = None
  Additions   <- MC_Additions
  Fees        <- MC_Fees
  Payments    <- MC_Payments
  MaxMint     = 1
  MaxSequence = 2
  MaxHeight   = 1
SPECIFICATION Spec
INVARIANTS GenesisTypeOK PoolCountsStake FilesStart DelegationsAreTracked NumbersIdentify HeightsArePast
PROPERTIES RestartKeepsAccounts
