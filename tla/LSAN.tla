-------------------------------- MODULE LSAN --------------------------------
(***************************************************************************)
(* The LSAN token (src/packages/contracts/src/alpha/Token.sol): an ERC20   *)
(* whose transfers into the node manager contract need a whitelisted       *)
(* sender and whose transfers out of it, by transferFrom, a whitelisted    *)
(* recipient; mint() sells tokens for MATIC at getTokenPrice(), the MATIC  *)
(* is kept in the treasury, and the owner withdraws it to the safe.        *)
(*                                                                         *)
(* Each action is one successful transaction: a call whose require fails,  *)
(* or whose checked arithmetic (Solidity 0.8) reverts, changes nothing and *)
(* is a stuttering step. The ERC20 internals (_transfer, _mint, _burn,     *)
(* _spendAllowance) are OpenZeppelin's: they move balances and revert on   *)
(* an insufficient balance or allowance. Addresses are model values.       *)
(***************************************************************************)
EXTENDS Integers, FiniteSets

CONSTANTS
  Addrs,            \* accounts and contracts that call the token
  Holders,          \* accounts that approve spenders
  InitialWhitelist, \* initialize(initialWhitelist, ...)
  InitialManager,   \* initialize(..., _nodeManagerAddress)
  MaxBalance,       \* bound on a balance and on the total supply
  MaxTreasury,      \* bound on the MATIC held
  Deposits,         \* msg.value of mint() calls
  MaticPerByteValues, TotalBytesValues, MinimumDeposits, MultiplierValues,
                    \* setter arguments
  MaxElapsed        \* bound on block.timestamp - DEPLOYED_TIME, in seconds

MsPerDay == 24 * 60 * 60 * 1000

ASSUME Holders \subseteq Addrs /\ InitialManager \in Addrs
ASSUME InitialWhitelist \subseteq Addrs

VARIABLES
  balance,      \* balanceOf
  allowance,    \* allowance(holder, spender), holders in Holders
  wlSenders,    \* whitelistedSenders
  wlRecipients, \* whitelistedRecipients
  manager,      \* nodeManagerAddress
  treasury,     \* treasury
  ether,        \* address(this).balance
  maticPerByte, totalBytesStored, minimumDeposit, multiplier,
  elapsed,      \* block.timestamp - DEPLOYED_TIME
  inflow        \* history: caller of the last call that credited the manager,
                \* or OwnerMint for the owner's mintTokens

vars == <<balance, allowance, wlSenders, wlRecipients, manager, treasury, ether,
          maticPerByte, totalBytesStored, minimumDeposit, multiplier, elapsed,
          inflow>>

Pairs == {p \in Holders \X Addrs : p[1] # p[2]}
NoInflow == "none"
OwnerMint == "mintTokens"
Params == <<maticPerByte, totalBytesStored, minimumDeposit, multiplier, elapsed>>

RECURSIVE SumBal(_)
SumBal(S) == IF S = {} THEN 0
             ELSE LET a == CHOOSE x \in S : TRUE IN balance[a] + SumBal(S \ {a})
Supply == SumBal(Addrs)

\* the manager's balance grew in this step, and the manager did not move
Credited == manager' = manager /\ balance'[manager] > balance[manager]

\* _transfer(from, to, amount) of OpenZeppelin's ERC20, and the caller
\* recorded when it credits the node manager
Move(caller, from, to, amt) ==
  /\ balance[from] >= amt /\ balance[to] + amt <= MaxBalance
  /\ balance' = [balance EXCEPT ![from] = @ - amt, ![to] = @ + amt]
  /\ inflow' = IF to = manager THEN caller ELSE NoInflow

TypeOK ==
  /\ balance \in [Addrs -> 0..MaxBalance]
  /\ allowance \in [Pairs -> 0..MaxBalance]
  /\ wlSenders \subseteq Addrs /\ wlRecipients \subseteq Addrs
  /\ manager \in Addrs
  /\ treasury \in 0..MaxTreasury /\ ether \in 0..MaxTreasury
  /\ elapsed \in 0..MaxElapsed
  /\ multiplier \in {1} \cup MultiplierValues
  /\ inflow \in Addrs \cup {NoInflow, OwnerMint}

\* initialize(): the whitelist, the manager, multiplier 1, minimumDeposit 0
Init ==
  /\ balance = [a \in Addrs |-> 0]
  /\ allowance = [p \in Pairs |-> 0]
  /\ wlSenders = InitialWhitelist /\ wlRecipients = InitialWhitelist
  /\ manager = InitialManager
  /\ treasury = 0 /\ ether = 0
  /\ maticPerByte = 0 /\ totalBytesStored = 0 /\ minimumDeposit = 0
  /\ multiplier = 1
  /\ elapsed = 0
  /\ inflow = NoInflow

\* mintTokens(account, amount), onlyOwner
MintTokens(a, amt) ==
  /\ Supply + amt <= MaxBalance
  /\ balance' = [balance EXCEPT ![a] = @ + amt]
  /\ inflow' = IF a = manager THEN OwnerMint ELSE NoInflow
  /\ UNCHANGED <<allowance, wlSenders, wlRecipients, manager, treasury, ether, Params>>

\* mutant: _burn without its balance check
BurnUnchecked(a, amt) ==
  /\ balance' = [balance EXCEPT ![a] = @ - amt]
  /\ inflow' = NoInflow
  /\ UNCHANGED <<allowance, wlSenders, wlRecipients, manager, treasury, ether, Params>>

\* burn(account, amount), onlyOwner
Burn(a, amt) ==
  /\ balance[a] >= amt
  /\ balance' = [balance EXCEPT ![a] = @ - amt]
  /\ inflow' = NoInflow
  /\ UNCHANGED <<allowance, wlSenders, wlRecipients, manager, treasury, ether, Params>>

\* whitelistSender / whitelistRecipient: onlyOwner, not already listed
WhitelistSender(a) ==
  /\ a \notin wlSenders
  /\ wlSenders' = wlSenders \cup {a}
  /\ inflow' = NoInflow
  /\ UNCHANGED <<balance, allowance, wlRecipients, manager, treasury, ether, Params>>

WhitelistRecipient(a) ==
  /\ a \notin wlRecipients
  /\ wlRecipients' = wlRecipients \cup {a}
  /\ inflow' = NoInflow
  /\ UNCHANGED <<balance, allowance, wlSenders, manager, treasury, ether, Params>>

\* mutant: the treasury decrement saturating at 0 instead of reverting
WithdrawSaturating(amt) ==
  /\ ether >= amt
  /\ treasury' = IF treasury >= amt THEN treasury - amt ELSE 0
  /\ ether' = ether - amt
  /\ inflow' = NoInflow
  /\ UNCHANGED <<balance, allowance, wlSenders, wlRecipients, manager, Params>>

\* withdraw(amount), onlyOwner: the contract must hold amount; treasury -
\* amount reverts on underflow; the MATIC goes to SAFE_ADDRESS
Withdraw(amt) ==
  /\ ether >= amt /\ treasury >= amt
  /\ treasury' = treasury - amt
  /\ ether' = ether - amt
  /\ inflow' = NoInflow
  /\ UNCHANGED <<balance, allowance, wlSenders, wlRecipients, manager, Params>>

\* setMaticPerByte, setTotalBytesStored, setMinimumDeposit, setMultipler
\* and setNodeManagerAddress, onlyOwner
SetMaticPerByte(v) ==
  /\ maticPerByte' = v
  /\ inflow' = NoInflow
  /\ UNCHANGED <<balance, allowance, wlSenders, wlRecipients, manager, treasury,
                 ether, totalBytesStored, minimumDeposit, multiplier, elapsed>>

SetTotalBytesStored(v) ==
  /\ totalBytesStored' = v
  /\ inflow' = NoInflow
  /\ UNCHANGED <<balance, allowance, wlSenders, wlRecipients, manager, treasury,
                 ether, maticPerByte, minimumDeposit, multiplier, elapsed>>

SetMinimumDeposit(v) ==
  /\ minimumDeposit' = v
  /\ inflow' = NoInflow
  /\ UNCHANGED <<balance, allowance, wlSenders, wlRecipients, manager, treasury,
                 ether, maticPerByte, totalBytesStored, multiplier, elapsed>>

SetMultipler(v) ==
  /\ multiplier' = v
  /\ inflow' = NoInflow
  /\ UNCHANGED <<balance, allowance, wlSenders, wlRecipients, manager, treasury,
                 ether, maticPerByte, totalBytesStored, minimumDeposit, elapsed>>

SetNodeManagerAddress(a) ==
  /\ manager' = a
  /\ inflow' = NoInflow
  /\ UNCHANGED <<balance, allowance, wlSenders, wlRecipients, treasury, ether, Params>>

\* getTokenPrice(): the expense per day, in integer division, times the
\* multiplier; a 0 divisor reverts
TokenPrice == ((maticPerByte * totalBytesStored) \div (elapsed * MsPerDay)) * multiplier

\* mint(), payable by caller c with msg.value v
Mint(c, v) ==
  /\ v > minimumDeposit /\ maticPerByte > 0 /\ totalBytesStored > 0
  /\ elapsed > 0                     \* getTokenPrice divides by timeSinceStart
  /\ TokenPrice > 0                  \* msg.value / lsanPrice
  /\ ether + v <= MaxTreasury
  /\ LET amt == v \div TokenPrice IN
       /\ Supply + amt <= MaxBalance
       /\ balance' = [balance EXCEPT ![c] = @ + amt]
       /\ inflow' = IF c = manager /\ amt > 0 THEN c ELSE NoInflow
  /\ treasury' = treasury + v
  /\ ether' = ether + v
  /\ UNCHANGED <<allowance, wlSenders, wlRecipients, manager, Params>>

\* approve(spender, amount) of OpenZeppelin's ERC20, by holder h
Approve(h, s, amt) ==
  /\ allowance' = [allowance EXCEPT ![<<h, s>>] = amt]
  /\ inflow' = NoInflow
  /\ UNCHANGED <<balance, wlSenders, wlRecipients, manager, treasury, ether, Params>>

\* mutant: onlyWhitelistedSender tests _from instead of msg.sender
OnlyWhitelistedSenderOfFrom(caller, from, to) == to # manager \/ from \in wlSenders

\* onlyWhitelistedSender(to): a transfer into the manager needs a
\* whitelisted msg.sender
OnlyWhitelistedSender(caller, from, to) == to # manager \/ caller \in wlSenders

\* onlyWhitelistedRecipient(_from): a transferFrom out of the manager needs
\* a whitelisted msg.sender
OnlyWhitelistedRecipient(caller, from) == from # manager \/ caller \in wlRecipients

\* transfer(_to, _amount) by caller c
Transfer(c, to, amt) ==
  /\ OnlyWhitelistedSender(c, c, to)
  /\ Move(c, c, to, amt)
  /\ UNCHANGED <<allowance, wlSenders, wlRecipients, manager, treasury, ether, Params>>

\* transferFrom(_from, _to, amount) by spender s: both modifiers, then
\* _spendAllowance and _transfer
TransferFrom(s, from, to, amt) ==
  /\ OnlyWhitelistedRecipient(s, from)
  /\ OnlyWhitelistedSender(s, from, to)
  /\ <<from, s>> \in Pairs /\ allowance[<<from, s>>] >= amt
  /\ allowance' = [allowance EXCEPT ![<<from, s>>] = @ - amt]
  /\ Move(s, from, to, amt)
  /\ UNCHANGED <<wlSenders, wlRecipients, manager, treasury, ether, Params>>

\* another contract's selfdestruct (or a block reward) sends MATIC to the
\* token without a call: the contract has no receive() to refuse it
ForcedEther(v) ==
  /\ ether + v <= MaxTreasury
  /\ ether' = ether + v
  /\ inflow' = NoInflow
  /\ UNCHANGED <<balance, allowance, wlSenders, wlRecipients, manager, treasury, Params>>

\* a new block
Tick ==
  /\ elapsed < MaxElapsed
  /\ elapsed' = elapsed + 1
  /\ inflow' = NoInflow
  /\ UNCHANGED <<balance, allowance, wlSenders, wlRecipients, manager, treasury,
                 ether, maticPerByte, totalBytesStored, minimumDeposit, multiplier>>

Next ==
  \/ \E a \in Addrs : \/ MintTokens(a, 1) \/ Burn(a, 1)
                      \/ WhitelistSender(a) \/ WhitelistRecipient(a)
                      \/ SetNodeManagerAddress(a)
  \/ \E amt \in 1..MaxTreasury : Withdraw(amt)
  \/ \E v \in MaticPerByteValues : SetMaticPerByte(v)
  \/ \E v \in TotalBytesValues : SetTotalBytesStored(v)
  \/ \E v \in MinimumDeposits : SetMinimumDeposit(v)
  \/ \E v \in MultiplierValues : SetMultipler(v)
  \/ \E v \in 1..MaxTreasury : ForcedEther(v)
  \/ \E c \in Addrs, v \in Deposits : Mint(c, v)
  \/ \E h \in Holders, s \in Addrs, amt \in 0..1 : h # s /\ Approve(h, s, amt)
  \/ \E c, to \in Addrs : Transfer(c, to, 1)
  \/ \E s, from, to \in Addrs : TransferFrom(s, from, to, 1)
  \/ Tick

Spec == Init /\ [][Next]_vars

-----------------------------------------------------------------------------

\* Tokens reach the node manager only by a call of a whitelisted sender, of
\* the owner (mintTokens) or of the manager itself (mint): transfer and
\* transferFrom test msg.sender, so a non-whitelisted holder cannot stake by
\* approving an arbitrary spender.
ManagerCreditGuarded ==
  [][Credited => inflow' \in wlSenders \cup {OwnerMint, manager}]_vars

\* MATIC the contract holds beyond its treasury (sent by a selfdestruct or a
\* block reward) never leaves it: withdraw moves at most the treasury, as
\* treasury - amount reverts first, and no other function sends MATIC out.
\* The surplus is locked in the token for good.
SurplusLocked == [][ether' - treasury' >= ether - treasury]_vars

=============================================================================
