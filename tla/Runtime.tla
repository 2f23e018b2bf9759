------------------------------- MODULE Runtime ------------------------------
(***************************************************************************)
(* The validator's key schedule (src/packages/validator/src/validator.ts), *)
(* after validateSetConfig has accepted the pool's config:                 *)
(* the KYVE node asks nextKey for the key after the last one cached,       *)
(* getDataItem for its item, and summarizeDataBundle for the report of a   *)
(* full bundle, whose range is [bundleStartKey * 1000, lastKey * 1000) ms. *)
(*                                                                         *)
(* A key is a number of seconds; the key "" of a new pool is 0, as         *)
(* parseInt gives NaN and !NaN holds as !0 does. The KYVE loop (runCache)  *)
(* and the TimeIndexer's latestTimestamp are outside this repository: the  *)
(* loop calls the runtime in order and retries an item that came back      *)
(* null; latestTimestamp only grows. A restart of the node loses the       *)
(* runtime's caches and the bundle not yet reported, and resumes after the *)
(* last key of the last report.                                            *)
(***************************************************************************)
EXTENDS Integers, Sequences

CONSTANTS
  Sources,        \* RPC sources a pool config may name
  ChainOf,        \* ChainOf[s]: chainId that s's provider.getNetwork() reports
  PolygonRpc,     \* the sources whose URL includes 'polygon-rpc.com'
  Alchemy,        \* the Alchemy source that replaces them
  ContractChains, \* chain ids with an entry in ContractAddresses
  RawConfigs,     \* the sources lists of the pool configs the node may read
  StartKeyValue,  \* timestamp of the pool's start block (managers.getBlock)
  BundleSize,     \* max_bundle_size of the pool
  MaxTime,        \* bound on latestTimestamp, and so on the keys
  MaxRestarts     \* bound on node restarts

KEY_STEP == 1

ASSUME StartKeyValue \in Nat \ {0} /\ BundleSize \in Nat \ {0}
ASSUME PolygonRpc \subseteq Sources /\ RawConfigs \subseteq SUBSET Sources

NoConfig == [sources |-> {}, chain |-> 0]

VARIABLES
  config,     \* this.config: the sources and the chain of systemStreamId
  startKey,   \* this._startKey (0: not fetched)
  current,    \* key of the last item cached (0: the pool's key "")
  pending,    \* the key nextKey returned, its item not yet produced
  latest,     \* time.latestTimestamp
  pc,         \* "config", "next", "item", "summarize", "halted"
  bundle,     \* keys of the items of the bundle being collected
  reports,    \* ranges [from, to] of the reports, in seconds
  restarts    \* restarts so far

vars == <<config, startKey, current, pending, latest, pc, bundle, reports, restarts>>

\* startKey(): fetched once, then cached; `!this._startKey` refetches a 0
StartKey == IF startKey = 0 THEN StartKeyValue ELSE startKey

\* nextKey(core, key): the start key for "" (or "0"), else key + KEY_STEP
NextKeyOf(key) == IF key = 0 THEN StartKey ELSE key + KEY_STEP

\* mutant: the report starts at the bundle's first key
BundleStartKeyNoStep(firstKey) == firstKey

\* summarizeDataBundle: bundleStartKey = firstItem.key - KEY_STEP
BundleStartKey(firstKey) == firstKey - KEY_STEP

TypeOK ==
  /\ config \in [sources : SUBSET (Sources \cup {Alchemy}), chain : {0} \cup ContractChains]
  /\ startKey \in {0, StartKeyValue}
  /\ current \in 0..MaxTime /\ pending \in 0..MaxTime
  /\ latest \in 0..MaxTime
  /\ pc \in {"config", "next", "item", "summarize", "halted"}
  /\ bundle \in Seq(1..MaxTime) /\ Len(bundle) <= BundleSize
  /\ reports \in Seq([from : 0..MaxTime, to : 1..MaxTime])
  /\ restarts \in 0..MaxRestarts

\* a new pool: nothing cached; the TimeIndexer at any second up to the
\* start key (the later ones are reached by TimeAdvances)
Init ==
  /\ config = NoConfig
  /\ startKey = 0
  /\ current = 0 /\ pending = 0
  /\ latest \in 0..StartKeyValue
  /\ pc = "config"
  /\ bundle = <<>> /\ reports = <<>>
  /\ restarts = 0

\* the sources after the alpha-network rewrite: any polygon-rpc.com source
\* replaces the whole list by the Alchemy source
RewrittenSources(raw) == IF raw \cap PolygonRpc # {} THEN {Alchemy} ELSE raw

\* the getNetwork() loop: every source reports the chainId of the first
SourcesAgree(srcs) == \A s, t \in srcs : ChainOf[s] = ChainOf[t]

\* the chain of this.config: the chainId of the (first) source
ChainOfSources(srcs) == ChainOf[CHOOSE s \in srcs : TRUE]

\* validateSetConfig returns without throwing: sources are listed, they
\* agree on the chain, and ContractAddresses has that chain
ConfigValid(raw) ==
  /\ raw # {}
  /\ SourcesAgree(RewrittenSources(raw))
  /\ ChainOfSources(RewrittenSources(raw)) \in ContractChains

\* validateSetConfig(rawConfig), called by the node before it caches:
\* this.config takes the sources and the chain's systemStreamId
ConfigAccepted(raw) ==
  /\ pc = "config"
  /\ ConfigValid(raw)
  /\ config' = [sources |-> RewrittenSources(raw),
                chain |-> ChainOfSources(RewrittenSources(raw))]
  /\ pc' = "next"
  /\ UNCHANGED <<startKey, current, pending, latest, bundle, reports, restarts>>

\* validateSetConfig throws, and the node stops
ConfigRejected(raw) ==
  /\ pc = "config"
  /\ ~ConfigValid(raw)
  /\ pc' = "halted"
  /\ UNCHANGED <<config, startKey, current, pending, latest, bundle, reports, restarts>>

ValidateSetConfig(raw) == ConfigAccepted(raw) \/ ConfigRejected(raw)

\* runCache calls nextKey with the key of the last item cached
NextKey ==
  /\ pc = "next"
  /\ NextKeyOf(current) <= MaxTime
  /\ pending' = NextKeyOf(current)
  /\ startKey' = IF current = 0 THEN StartKey ELSE startKey
  /\ pc' = "item"
  /\ UNCHANGED <<config, current, latest, bundle, reports, restarts>>

\* mutant: an item is produced one second early
GetDataItemEarly ==
  /\ pc = "item"
  /\ pending - 1 <= latest
  /\ bundle' = Append(bundle, pending)
  /\ current' = pending
  /\ pc' = IF Len(bundle) + 1 = BundleSize THEN "summarize" ELSE "next"
  /\ UNCHANGED <<config, startKey, pending, latest, reports, restarts>>

\* mutant: an item is produced only once its second is over
GetDataItemLate ==
  /\ pc = "item"
  /\ pending < latest
  /\ bundle' = Append(bundle, pending)
  /\ current' = pending
  /\ pc' = IF Len(bundle) + 1 = BundleSize THEN "summarize" ELSE "next"
  /\ UNCHANGED <<config, startKey, pending, latest, reports, restarts>>

(***************************************************************************)
(* getDataItem: null while keyInt > latestTimestamp, so runCache retries;  *)
(* otherwise the item is produced and cached. A key of 0 gives an empty    *)
(* item; nextKey never returns one, as StartKeyValue > 0.                  *)
(***************************************************************************)
GetDataItem ==
  /\ pc = "item"
  /\ pending <= latest
  /\ bundle' = Append(bundle, pending)
  /\ current' = pending
  /\ pc' = IF Len(bundle) + 1 = BundleSize THEN "summarize" ELSE "next"
  /\ UNCHANGED <<config, startKey, pending, latest, reports, restarts>>

\* mutant: the bundle is not emptied once reported
SummarizeKeepsBundle ==
  /\ pc = "summarize"
  /\ reports' = Append(reports, [from |-> BundleStartKey(bundle[1]),
                                 to |-> bundle[Len(bundle)]])
  /\ pc' = "next"
  /\ UNCHANGED <<config, startKey, current, pending, latest, restarts, bundle>>

\* summarizeDataBundle: the report of [bundleStartKey, lastItem.key]
SummarizeDataBundle ==
  /\ pc = "summarize"
  /\ reports' = Append(reports, [from |-> BundleStartKey(bundle[1]),
                                 to |-> bundle[Len(bundle)]])
  /\ bundle' = <<>>
  /\ pc' = "next"
  /\ UNCHANGED <<config, startKey, current, pending, latest, restarts>>

\* the TimeIndexer indexes the next second
TimeAdvances ==
  /\ latest < MaxTime
  /\ latest' = latest + 1
  /\ UNCHANGED <<config, startKey, current, pending, pc, bundle, reports, restarts>>

\* the node restarts: the runtime is new and the pool's current key is the
\* last key of the last report
Restart ==
  /\ restarts < MaxRestarts
  /\ restarts' = restarts + 1
  /\ config' = NoConfig
  /\ startKey' = 0
  /\ current' = IF reports = <<>> THEN 0 ELSE reports[Len(reports)].to
  /\ pending' = 0
  /\ pc' = "config"
  /\ bundle' = <<>>
  /\ UNCHANGED <<latest, reports>>

Next ==
  \/ \E raw \in RawConfigs : ValidateSetConfig(raw)
  \/ NextKey \/ GetDataItem \/ SummarizeDataBundle
  \/ TimeAdvances \/ Restart

\* runCache loops as long as the node runs; the TimeIndexer keeps indexing
Fairness ==
  /\ WF_vars(\E raw \in RawConfigs : ValidateSetConfig(raw))
  /\ WF_vars(NextKey) /\ WF_vars(GetDataItem) /\ WF_vars(SummarizeDataBundle)
  /\ WF_vars(TimeAdvances)

Spec == Init /\ [][Next]_vars /\ Fairness

-----------------------------------------------------------------------------

\* The reports of consecutive bundles tile the time line from the second
\* before the start key: each range is non-empty and starts where the
\* previous one ended, across restarts of the node, so every storage or
\* query event is charged by exactly one report.
ReportsTile ==
  \A i \in 1..Len(reports) :
    /\ reports[i].from < reports[i].to
    /\ reports[i].from = IF i = 1 THEN StartKeyValue - KEY_STEP ELSE reports[i - 1].to

\* A report never covers time the TimeIndexer has not reached: the last key
\* of every report is at most latestTimestamp, now and later.
ReportsNotAhead == \A i \in 1..Len(reports) : reports[i].to <= latest

\* Every key up to MaxTime that completes a bundle is eventually covered by
\* a report, whatever the restarts (finitely many) discard, unless the node
\* stopped on a config validateSetConfig rejected.
Covered(k) == \E i \in 1..Len(reports) : reports[i].from < k /\ k <= reports[i].to
Reportable ==
  {k \in StartKeyValue..MaxTime : (k - StartKeyValue + 1) % BundleSize = 0}
KeysEventuallyReported ==
  \A k \in Reportable : <>(Covered(k) \/ pc = "halted")

=============================================================================
