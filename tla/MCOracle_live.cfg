\* Live stake: delegations and EndBlocks between the claims.
CONSTANTS
  v1 = v1  v2 = v2  v3 = v3
  c1 = c1  c2 = c2  c3 = c3
  Validators  = {v1, v2, v3}
  Claims      = {c1, c2}
  EmptyString = ""
  Ids         = {"1x"}
  MaxPower    = 2
  NeededNum   = 7
  NeededDen   = 10
  InitialPowers <- MC_AllPowers
SYMMETRY MC_OracleSymmetry
SPECIFICATION Spec
INVARIANTS TypeOK LedgersAgree FailedMeansDisagreement
PROPERTIES Finality SuccessIsBacked ImplementsOneVote
