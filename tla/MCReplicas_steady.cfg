\* One picture of the stake, and a proportion that two claims could both have.
CONSTANTS
  v1 = v1  v2 = v2  v3 = v3
  c1 = c1  c2 = c2  c3 = c3
  Validators  = {v1, v2, v3}
  Claims      = {c1, c2, c3}
  EmptyString = ""
  Ids         = {"1x", "2x"}
  MaxPower    = 4
  NeededNum   = 1
  NeededDen   = 2
  InitialPowers <- MC_AllPowers
SYMMETRY MC_Symmetry
SPECIFICATION SteadyReplicasSpec
INVARIANTS StatusIsVerdict AllVotedMeansFinal OrderCannotMatter ReplicasAgree
CHECK_DEADLOCK FALSE
