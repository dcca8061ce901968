CONSTANTS
  p1 = p1  p2 = p2
  Proc = {p1, p2}
  NoProc = none
  Address <- MCAddress
  Resolve <- MCResolve
  Chain <- MCChain
  Envs <- MCEnvs
  MaxDecimals = 9
  MinSecret = 32
  Migration = {1, 2, 3}
  Altering = {1, 3}
  Rotating = {"usdcMain"}
  MaxStarts = 3
  USDScale = 6
  MaxIntegerDigits = 2
  MaxFractionDigits = 9
  MaxUint = 2147483647
SPECIFICATION BootSpec
INVARIANTS
  ServesWhatItChecked SchemaMatchesRecord NeverAppliesTwice
SYMMETRY Symmetric
