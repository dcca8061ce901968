CONSTANTS
  Address <- MCAddress
  Resolve <- MCResolve
  MaxDecimals = 2
  MinSecret = 32
  USDScale = 1
  MaxIntegerDigits = 2
  MaxFractionDigits = 2
  MaxUint = 999
  Lower <- MCLower
  AsBool <- MCAsBool
  AsNumber <- MCAsNumber
  MaxRoutes = 4
  AmountInputs <- MCAmountInputs
  SpendInputs <- MCSpendInputs
  RouteInputs <- MCRouteInputs
  TermsInputs <- MCTermsInputs
  TransferInputs <- MCTransferInputs
  ConfigInputs <- MCConfigInputs
SPECIFICATION AlgorithmsSpec
INVARIANTS
  AmountsAreExact SpendNeverUnderstated RouteIsCheapest BuildVerifies VerifiedPaysAgreed
  NotOneSettingFromMainnet
CHECK_DEADLOCK FALSE
