CONSTANTS
  n1 = n1  n2 = n2  n3 = n3  x = x  m1 = m1  m2 = m2  s1 = s1  s2 = s2  c1 = c1  d1 = d1  d2 = d2
  Brokers <- MCBrokers
  Outsiders <- MCOutsiders
  Msgs <- MCMsgs
  MsgStream <- MCMsgStream
  MsgSize <- MCMsgSize
  QueryEvents <- MCQueryEvents
  WriteMultiplier <- MCWriteMultiplier
  TreasuryMultipliers <- MCTreasuryMultipliers
  ReadMultiplier <- MCReadMultiplier
  ArweavePrice <- MCArweavePrice
  FromUSD <- MCFromUSD
  MaxListLen <- MCMaxListLen
  Delegators <- MCDelegators
  DelegationOf <- MCDelegationOf
SPECIFICATION Spec
INVARIANT ConversionVisitsOriginalsOnly
CHECK_DEADLOCK FALSE
