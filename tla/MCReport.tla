------------------------------ MODULE MCReport ------------------------------
EXTENDS Report, TLC

CONSTANTS n1, n2, n3, x, m1, m2, s1, s2, c1, d1, d2

MCBrokers == {n1, n2, n3}
MCOutsiders == {x}
MCMsgs == {m1, m2}
MCMsgStream == (m1 :> s1) @@ (m2 :> s2)
MCMsgSize == (m1 :> 2) @@ (m2 :> 1)
\* two requests of one consumer: answered by two brokers, and by a broker
\* with a publisher that is not one
MCQueryEvents ==
  { [consumer |-> c1, size |-> 1, contributors |-> {n1, n2}],
    [consumer |-> c1, size |-> 2, contributors |-> {n3, x}] }
MCWriteMultiplier == 2
MCTreasuryMultipliers == {0, 1}
MCReadMultiplier == 1
\* a price with a remainder per byte
MCArweavePrice(b) == 2 * b + 1
MCFromUSD(a) == 3 * a
MCMaxListLen == 4
MCDelegators == {d1, d2}
\* n1 staked by one delegate alone, n2 by two, n3 by nobody
MCDelegationOf ==
  (n1 :> (d1 :> 3 @@ d2 :> 0)) @@ (n2 :> (d1 :> 1 @@ d2 :> 2))
    @@ (n3 :> (d1 :> 0 @@ d2 :> 0))

=============================================================================
