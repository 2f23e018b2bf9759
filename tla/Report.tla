------------------------------- MODULE Report -------------------------------
(***************************************************************************)
(* Report.generate (src/packages/validator/src/core/report.ts): the fee    *)
(* report of one bundle. Storage proofs (ProofOfMessageStored) of the      *)
(* broker nodes are consolidated per message hash; a message stored by at  *)
(* least half the brokers adds its size to its stream, once per proof.     *)
(* Each stream's capture goes to the treasury and, through rewardNodes, to *)
(* the nodes (contributors rewarded, bystanders penalised). Each query     *)
(* request adds to its consumer's capture and rewards the publishers of    *)
(* the consensus response. Then every amount is converted to the stake     *)
(* token.                                                                  *)
(*                                                                         *)
(* A message is a model value with a stream and a size; its hash is the    *)
(* message itself, since all proofs of one message have the same content.  *)
(* Amounts are integers, as BigNumber's are; the fee multipliers are the   *)
(* integers of the pool config. The Arweave price and fromUSD are outside  *)
(* this repository: they are constant operators.                           *)
(***************************************************************************)
EXTENDS Integers, Sequences, FiniteSets

CONSTANTS
  Brokers,          \* ids of prepared.brokerNodes
  Outsiders,        \* other publishers on the system stream
  Msgs,             \* stored messages proven in the key range
  MsgStream,        \* MsgStream[m]: streamId of message m
  MsgSize,          \* MsgSize[m]: size of message m
  QueryEvents,      \* query requests: [consumer, size, contributors]
  WriteMultiplier,  \* config.fees.writeMultiplier
  TreasuryMultipliers, \* values config.fees.treasuryMultiplier may take
  ReadMultiplier,   \* config.fees.readMultiplier
  ArweavePrice(_),  \* Arweave.getPrice(bytes, toKeyMs)
  FromUSD(_),       \* stakeToken.fromUSD(amount, toKeyMs)
  Delegators,       \* addresses that delegate stake to broker nodes
  DelegationOf,     \* DelegationOf[n][d]: bNode.delegates[d] (0: none)
  MaxListLen        \* bound on the length of report.streams / consumers

Publishers == Brokers \cup Outsiders
StreamIds == {MsgStream[m] : m \in Msgs}

\* the entries of Object.entries(bNode.delegates), as <<delegate, node>>
DelegPairs == {p \in Delegators \X Brokers : DelegationOf[p[2]][p[1]] > 0}
\* bNode.stake: the node's stake is the sum of the delegations to it
Stake(n) == LET RECURSIVE S(_)
                S(D) == IF D = {} THEN 0
                        ELSE LET d == CHOOSE e \in D : TRUE
                             IN DelegationOf[n][d] + S(D \ {d})
            IN S(Delegators)

ASSUME Brokers # {} /\ Brokers \cap Outsiders = {}
ASSUME WriteMultiplier \in Nat \ {0} /\ ReadMultiplier \in Nat
ASSUME TreasuryMultipliers \subseteq 0..1
ASSUME DelegationOf \in [Brokers -> [Delegators -> Nat]]

VARIABLES
  proofs,      \* <<publisher, message>>: the storage events in the range
  queries,     \* query requests in the range not yet applied
  tm,          \* config.fees.treasuryMultiplier
  phase,       \* "storage", "queries", "streamsConv", "consumersConv", "done"
  toReward,    \* streams of streamsMap not yet applied
  streamBytes, \* streamsMap[id].bytes
  streamContr, \* streamsMap[id].contributors
  fees,        \* [writeFee, writeTreasury, writeNode, readFee, readTreasury, readNode]
  streams,     \* report.streams: [id, capture, bytes]
  consumers,   \* report.consumers: [id, capture, bytes]
  nodes,       \* report.nodes
  delegates,   \* report.delegates[d][n], an absent entry read as 0
  treasury,    \* report.treasury
  acc,         \* history: sum of all balance differences given to a node
  cursor,      \* index of the for...of loop over streams / consumers
  loopStart    \* history: length of the array when that loop started

vars == <<proofs, queries, tm, phase, toReward, streamBytes, streamContr, fees,
          streams, consumers, nodes, delegates, treasury, acc, cursor,
          loopStart>>

RECURSIVE SumOver(_, _)
\* the sum of f over the finite set S
SumOver(f, S) ==
  IF S = {} THEN 0 ELSE LET x == CHOOSE y \in S : TRUE IN f[x] + SumOver(f, S \ {x})

SumSeq(s) == SumOver([i \in DOMAIN s |-> s[i].capture], DOMAIN s)

(***************************************************************************)
(* Lines 203-292: proofs from publishers that are broker nodes, grouped by *)
(* hash; a hash with at least brokerNodes.length / 2 events counts, and    *)
(* each of its events adds the message size to its stream.                 *)
(***************************************************************************)
\* mutant: the check that the publisher is a broker node left out
ProofsOfAnyPublisher(m) == {p \in proofs : p[2] = m}

ProofsOf(m) == {p \in proofs : p[2] = m /\ p[1] \in Brokers}
Counted == {m \in Msgs : 2 * Cardinality(ProofsOf(m)) >= Cardinality(Brokers)}
BytesOf(id) ==
  SumOver([m \in Msgs |-> MsgSize[m] * Cardinality(ProofsOf(m))],
          {m \in Counted : MsgStream[m] = id})
ContributorsOf(id) ==
  {p[1] : p \in UNION {ProofsOf(m) : m \in {x \in Counted : MsgStream[x] = id}}}

\* mutant: the node fee is the whole write fee, the treasury's margin kept
FeesNodeUndeducted(totalBytes, t) ==
  LET epb == IF totalBytes > 0 THEN ArweavePrice(totalBytes) \div totalBytes ELSE 0
      wf == epb * WriteMultiplier
      wt == (wf - epb) * t
      rf == IF totalBytes > 0 THEN wf * ReadMultiplier ELSE 0
      rt == rf * t
  IN  [writeFee |-> wf, writeTreasury |-> wt, writeNode |-> wf,
       readFee |-> rf, readTreasury |-> rt, readNode |-> rf - rt]

\* lines 296-316 and 346-352: the storage and read fees per byte
Fees(totalBytes, t) ==
  LET epb == IF totalBytes > 0 THEN ArweavePrice(totalBytes) \div totalBytes ELSE 0
      wf == epb * WriteMultiplier
      wt == (wf - epb) * t
      rf == IF totalBytes > 0 THEN wf * ReadMultiplier ELSE 0
      rt == rf * t
  IN  [writeFee |-> wf, writeTreasury |-> wt, writeNode |-> wf - wt,
       readFee |-> rf, readTreasury |-> rt, readNode |-> rf - rt]

(***************************************************************************)
(* rewardNodes (lines 144-198): the balance difference of each broker node *)
(* for one captured amount.                                                *)
(***************************************************************************)
RewardDiff(amount, recipients, penalise) ==
  LET apn == amount \div Cardinality(Brokers)
      bystanders == Brokers \ recipients
      perRecipient ==
        IF penalise
          THEN apn + (apn * Cardinality(bystanders)) \div Cardinality(recipients)
          ELSE amount \div Cardinality(recipients)
  IN  [n \in Brokers |->
        IF n \in recipients THEN perRecipient
        ELSE IF penalise THEN -apn ELSE 0]

\* mutant: the stake divided by the delegated amount
DelegatePortionInverted(dl, n) == Stake(n) \div DelegationOf[n][dl]

\* line 186: delegateAmount.div(bNode.stake), an integer division
DelegatePortion(dl, n) == DelegationOf[n][dl] \div Stake(n)

(***************************************************************************)
(* rewardNodes applied: typeof of a BigNumber is never 'number', so line   *)
(* 169 sets every node's balance, and line 190 every delegate's entry, to  *)
(* 0 before adding the difference (times the delegate's portion).          *)
(***************************************************************************)
RewardNodes(amount, recipients, penalise) ==
  LET d == RewardDiff(amount, recipients, penalise) IN
  /\ nodes' = [n \in Brokers |-> 0 + d[n]]
  /\ delegates' = [p \in DelegPairs |-> 0 + d[p[2]] * DelegatePortion(p[1], p[2])]
  /\ acc' = [n \in Brokers |-> acc[n] + d[n]]

TypeOK ==
  /\ proofs \subseteq Publishers \X Msgs
  /\ queries \subseteq QueryEvents
  /\ tm \in TreasuryMultipliers
  /\ phase \in {"storage", "queries", "streamsConv", "consumersConv", "done"}
  /\ toReward \subseteq StreamIds
  /\ streamContr \in [StreamIds -> SUBSET Brokers]
  /\ nodes \in [Brokers -> Int] /\ acc \in [Brokers -> Int]
  /\ delegates \in [DelegPairs -> Int]
  /\ treasury \in Int
  /\ cursor \in Nat /\ loopStart \in Nat
  /\ Len(streams) <= MaxListLen /\ Len(consumers) <= MaxListLen

(***************************************************************************)
(* generate() up to the storage rewards: the proofs and query requests of  *)
(* the key range are any the listener may have cached; the storage events  *)
(* are consolidated and the fees priced (lines 105-316).                   *)
(***************************************************************************)
Init ==
  /\ proofs \in SUBSET (Publishers \X Msgs)
  /\ queries \in SUBSET QueryEvents
  /\ tm \in TreasuryMultipliers
  /\ phase = "storage"
  /\ toReward = {id \in StreamIds : \E m \in Counted : MsgStream[m] = id}
  /\ streamBytes = [id \in StreamIds |-> BytesOf(id)]
  /\ streamContr = [id \in StreamIds |-> ContributorsOf(id)]
  /\ fees = Fees(SumOver(streamBytes, toReward), tm)
  /\ streams = <<>> /\ consumers = <<>>
  /\ nodes = [n \in Brokers |-> 0] /\ acc = [n \in Brokers |-> 0]
  /\ delegates = [p \in DelegPairs |-> 0]
  /\ treasury = 0
  /\ cursor = 0 /\ loopStart = 0

\* lines 319-333: a stream's capture, its treasury share, rewardNodes
RewardStream(id) ==
  /\ phase = "storage" /\ id \in toReward
  /\ toReward' = toReward \ {id}
  /\ streams' = Append(streams, [id |-> id, capture |-> fees.writeFee * streamBytes[id],
                                 bytes |-> streamBytes[id]])
  /\ treasury' = treasury + fees.writeTreasury * streamBytes[id]
  /\ RewardNodes(fees.writeNode * streamBytes[id], streamContr[id], TRUE)
  /\ UNCHANGED <<proofs, queries, tm, phase, streamBytes, streamContr, fees,
                 consumers, cursor, loopStart>>

StorageDone ==
  /\ phase = "storage" /\ toReward = {}
  /\ phase' = "queries"
  /\ UNCHANGED <<proofs, queries, tm, toReward, streamBytes, streamContr, fees,
                 streams, consumers, nodes, delegates, treasury, acc, cursor, loopStart>>

\* lines 354-410: a query request's capture added to its consumer, its
\* treasury share, rewardNodes over the consensus publishers
RewardQuery(q) ==
  LET i == CHOOSE j \in 0..Len(consumers) :
             \/ j > 0 /\ consumers[j].id = q.consumer
             \/ j = 0 /\ \A k \in 1..Len(consumers) : consumers[k].id # q.consumer
      cap == fees.readFee * q.size IN
  /\ phase = "queries" /\ q \in queries
  /\ queries' = queries \ {q}
  /\ consumers' =
       IF i = 0 THEN Append(consumers, [id |-> q.consumer, capture |-> cap, bytes |-> q.size])
       ELSE [consumers EXCEPT ![i].capture = @ + cap, ![i].bytes = @ + q.size]
  /\ treasury' = treasury + fees.readTreasury * q.size
  /\ RewardNodes(fees.readNode * q.size, q.contributors, FALSE)
  /\ UNCHANGED <<proofs, tm, phase, toReward, streamBytes, streamContr, fees,
                 streams, cursor, loopStart>>

QueriesDone ==
  /\ phase = "queries" /\ queries = {}
  /\ phase' = "streamsConv"
  /\ cursor' = 1 /\ loopStart' = Len(streams)
  /\ UNCHANGED <<proofs, queries, tm, toReward, streamBytes, streamContr, fees,
                 streams, consumers, nodes, delegates, treasury, acc>>

(***************************************************************************)
(* Lines 417-430: for (const x of list) list.push(converted x). The array  *)
(* iterator reads list.length at every step, so the entries pushed are     *)
(* visited too.                                                            *)
(***************************************************************************)
Converted(e) == [id |-> e.id, capture |-> FromUSD(e.capture), bytes |-> e.bytes]

ConvertStream ==
  /\ phase = "streamsConv" /\ cursor <= Len(streams)
  /\ Len(streams) < MaxListLen
  /\ streams' = Append(streams, Converted(streams[cursor]))
  /\ cursor' = cursor + 1
  /\ UNCHANGED <<proofs, queries, tm, phase, toReward, streamBytes, streamContr,
                 fees, consumers, nodes, delegates, treasury, acc, loopStart>>

StreamsConverted ==
  /\ phase = "streamsConv" /\ cursor > Len(streams)
  /\ phase' = "consumersConv"
  /\ cursor' = 1 /\ loopStart' = Len(consumers)
  /\ UNCHANGED <<proofs, queries, tm, toReward, streamBytes, streamContr, fees,
                 streams, consumers, nodes, delegates, treasury, acc>>

ConvertConsumer ==
  /\ phase = "consumersConv" /\ cursor <= Len(consumers)
  /\ Len(consumers) < MaxListLen
  /\ consumers' = Append(consumers, Converted(consumers[cursor]))
  /\ cursor' = cursor + 1
  /\ UNCHANGED <<proofs, queries, tm, phase, toReward, streamBytes, streamContr,
                 fees, streams, nodes, delegates, treasury, acc, loopStart>>

(***************************************************************************)
(* Lines 431-463: the nodes, delegates and treasury converted, the report  *)
(* sorted. The loop over the consumers is only left when both lists are   *)
(* empty, so rewardNodes never ran and Object.keys(report.nodes) is empty; *)
(* line 438 replaces each delegate's entries by {} before reading them.    *)
(***************************************************************************)
ConsumersConverted ==
  /\ phase = "consumersConv" /\ cursor > Len(consumers)
  /\ phase' = "done"
  /\ treasury' = FromUSD(treasury)
  /\ delegates' = [p \in DelegPairs |-> 0]
  /\ UNCHANGED <<proofs, queries, tm, toReward, streamBytes, streamContr, fees,
                 streams, consumers, nodes, acc, cursor, loopStart>>

Next ==
  \/ \E id \in StreamIds : RewardStream(id)
  \/ StorageDone
  \/ \E q \in QueryEvents : RewardQuery(q)
  \/ QueriesDone
  \/ ConvertStream \/ StreamsConverted
  \/ ConvertConsumer \/ ConsumersConverted

Spec == Init /\ [][Next]_vars

-----------------------------------------------------------------------------

Accounting == phase \in {"storage", "queries"}

\* While the report is accounted in USD, the treasury and the nodes together
\* never receive more than the streams and consumers are charged: integer
\* division in rewardNodes may leave dust, but never creates value.
NoValueCreated ==
  Accounting =>
    treasury + SumOver(nodes, Brokers) <= SumSeq(streams) + SumSeq(consumers)

\* A node's delegates are never credited more than the node itself: the
\* entries rewardNodes gives the delegates of a node add up, in magnitude,
\* to at most the node's own balance difference, as the delegated amounts
\* add up to the node's stake.
DelegateSharesWithinNode ==
  \A n \in Brokers :
    SumOver([p \in DelegPairs |-> IF delegates[p] < 0 THEN -delegates[p] ELSE delegates[p]],
            {p \in DelegPairs : p[2] = n})
      <= IF nodes[n] < 0 THEN -nodes[n] ELSE nodes[n]

\* Line 142: the report gives each node the difference to apply to its
\* balance for the whole bundle, the sum of its differences over all the
\* rewardNodes calls.
NodeBalancesAccumulate == Accounting => nodes = acc

\* The conversion loops visit each entry the report had when they started,
\* and no more: the loop over report.streams ends.
ConversionVisitsOriginalsOnly ==
  phase \in {"streamsConv", "consumersConv"} => cursor <= loopStart + 1

=============================================================================
