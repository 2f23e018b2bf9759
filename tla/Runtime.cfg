CONSTANTS
  s1 = s1  s2 = s2  s3 = s3  polygon = polygon  alchemy = alchemy
  Sources <- MCSources
  ChainOf <- MCChainOf
  PolygonRpc <- MCPolygonRpc
  Alchemy = alchemy
  ContractChains <- MCContractChains
  RawConfigs <- MCRawConfigs
  StartKeyValue <- MCStartKeyValue
  BundleSize <- MCBundleSize
  MaxTime <- MCMaxTime
  MaxRestarts <- MCMaxRestarts
SPECIFICATION Spec
INVARIANTS TypeOK ReportsTile ReportsNotAhead
PROPERTY KeysEventuallyReported
CHECK_DEADLOCK FALSE
