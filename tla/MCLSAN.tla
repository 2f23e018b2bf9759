------------------------------- MODULE MCLSAN -------------------------------
EXTENDS LSAN

CONSTANTS a1, a2, nm

\* a1 deploys and owns the token; nm is the node manager contract
MCAddrs == {a1, a2, nm}
MCHolders == {a2}
MCInitialWhitelist == {nm}
MCMaxBalance == 2
MCMaxTreasury == 2
MCDeposits == {1, 2}
\* from 0 (mint reverts) to a price of 1 per token one second after the
\* deployment and 0 (mint reverts) after two
MCMaticPerByteValues == {MsPerDay}
MCTotalBytesValues == {1}
MCMinimumDeposits == {1}
MCMaxElapsed == 2
\* the multiplier set to 0 (every mint reverts) or doubled
MCMultiplierValues == {0, 2}

=============================================================================
