----------------------------- MODULE MCRuntime ------------------------------
EXTENDS Runtime

CONSTANTS s1, s2, s3, polygon, alchemy

\* s1 and s2 on the contracts' chain 137, s3 on chain 1, which has no
\* ContractAddresses entry; polygon-rpc.com rewritten to Alchemy (chain 137)
MCSources == {s1, s2, s3, polygon}
MCChainOf == [s \in MCSources \cup {alchemy} |-> IF s = s3 THEN 1 ELSE 137]
MCPolygonRpc == {polygon}
MCContractChains == {137}
\* empty; agreeing; disagreeing; unknown chain; polygon-rpc beside chain 1
MCRawConfigs == {{}, {s1, s2}, {s1, s3}, {s3}, {polygon, s3}}

\* three bundles of two keys from start key 3: keys 3..8
MCStartKeyValue == 3
MCBundleSize == 2
MCMaxTime == 8
MCMaxRestarts == 2

=============================================================================
