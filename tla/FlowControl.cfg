SPECIFICATION Spec
CONSTANTS
  TokenSize = 2
  TokenLimit = 2
  MaxCount = 2
  Burst = {3}
  MaxEncoded = 3
  MaxLink = 1
  SlowLink = FALSE
  MaxDebt = 1
INVARIANTS TokensConserved StopsWithoutTokens
PROPERTIES CongestionEnds DataResumes
CHECK_DEADLOCK FALSE
