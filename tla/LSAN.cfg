CONSTANTS
  a1 = a1  a2 = a2  nm = nm
  Addrs <- MCAddrs
  Holders <- MCHolders
  InitialWhitelist <- MCInitialWhitelist
  InitialManager = nm
  MaxBalance <- MCMaxBalance
  MaxTreasury <- MCMaxTreasury
  Deposits <- MCDeposits
  MaticPerByteValues <- MCMaticPerByteValues
  TotalBytesValues <- MCTotalBytesValues
  MinimumDeposits <- MCMinimumDeposits
  MaxElapsed <- MCMaxElapsed
  MultiplierValues <- MCMultiplierValues
SPECIFICATION Spec
INVARIANT TypeOK
PROPERTIES ManagerCreditGuarded SurplusLocked
