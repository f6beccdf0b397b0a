\* A token that runs the code of a user, calls two deep.
CONSTANTS
  Users        = {"alice", "deployer"}
  contract     = "peggy"
  relayer      = "deployer"
  Ether        = "ether"
  Tokens       = {"token"}
  Reentrant    = {"alice"}
  Amounts      = {1, 2}
  InitialFunds = 2
  NonceBits    = 8
  MaxLocks     = 2
  MaxDepth     = 2
SPECIFICATION Spec
INVARIANTS TypeOK NobodyGainsOrLoses CanPayEveryone LogTellsItems NoncesCountLocks
