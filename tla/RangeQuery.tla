----------------------------- MODULE RangeQuery -----------------------------
(***************************************************************************)
(* One range read of LogStore (src/packages/client/src/exports-commonjs.js)*)
(* requestFrom / requestRange -> fetchRange: getBucketsByTimestamp, the    *)
(* fast path or the three-query split, one Cassandra stream per physical   *)
(* query, merge2 reading those streams one after the other, pipeline into  *)
(* the result Transform (parseRow drops NULL payloads), the consumer       *)
(* reading or destroying the result, and a physical query failing.         *)
(*                                                                         *)
(* A row is its clustering key <<ts, seq>>. The backend is taken to return *)
(* each physical query's rows in (ts, seq) order, the precondition spec 9  *)
(* names for the merge. getBucketsByTimestamp (BucketManager, not under    *)
(* src/) is modelled from spec 4.1.                                        *)
(***************************************************************************)
EXTENDS Naturals, Sequences, FiniteSets

CONSTANTS
  Ts,         \* timestamps a stored message can have
  Seqs,       \* sequence numbers; Min/Max are MIN/MAX_SEQUENCE_NUMBER_VALUE
  MaxTs,      \* MAX_TIMESTAMP_VALUE, above every stored timestamp
  TsWindow,   \* TsWindow[t]: the bucket window holding timestamp t
  Requests,   \* fetchRange arguments a caller may pass
  Cap         \* buffered rows at which the pipeline pauses (highWaterMark)

MinSeq == CHOOSE s \in Seqs : \A x \in Seqs : s <= x
MaxSeq == CHOOSE s \in Seqs : \A x \in Seqs : x <= s
Keys == Ts \X Seqs
Windows == {TsWindow[t] : t \in Ts}

ASSUME \A t \in Ts : t < MaxTs
ASSUME Requests \subseteq [from : Ts, fromSeq : Seqs, to : Ts \cup {MaxTs}, toSeq : Seqs]

VARIABLES
  req,        \* the arguments of this fetchRange call
  stored,     \* rows of stream_data for the stream partition
  nulls,      \* stored rows whose payload is NULL
  buckets,    \* windows that have a bucket
  stage,      \* "lookup": getBucketsByTimestamp pending; "piping"; "done"
  queries,    \* rows each physical query stream has still to produce
  cur,        \* the stream merge2 is reading
  status,     \* resultStream: "open", "ended", "failed", "destroyed";
              \* "crashed": an unhandled 'error' stopped the process
  buffer,     \* rows pushed by the Transform, not yet read
  delivered   \* messages the consumer has read

vars == <<req, stored, nulls, buckets, stage, queries, cur, status, buffer,
          delivered>>

\* clustering order of stream_data: by ts, then sequence_no
KeyLess(a, b) == a[1] < b[1] \/ (a[1] = b[1] /\ a[2] < b[2])

\* the rows of S in clustering order
Sorted(S) ==
  [i \in 1..Cardinality(S) |->
     CHOOSE k \in S : Cardinality({j \in S : KeyLess(j, k)}) = i - 1]

\* the messages the request denotes: stored, readable, within the bounds
Expected(r) ==
  Sorted({k \in stored \ nulls :
            /\ ~KeyLess(k, <<r.from, r.fromSeq>>)
            /\ ~KeyLess(<<r.to, r.toSeq>>, k)})

\* getBucketsByTimestamp: the buckets whose window meets [from, to]
BucketsInRange(from, to) ==
  {w \in buckets : \E t \in Ts : TsWindow[t] = w /\ from <= t /\ t <= to}

\* mutant: the middle query bounds the timestamp with >= instead of >
PhysicalQueriesMiddleInclusive(r, ids) ==
  LET rows == {k \in stored : TsWindow[k[1]] \in ids} IN
  IF r.fromSeq = MinSeq /\ r.toSeq = MaxSeq
  THEN << Sorted({k \in rows : r.from <= k[1] /\ k[1] <= r.to}) >>
  ELSE << Sorted({k \in rows : k[1] = r.from /\ k[2] >= r.fromSeq}),
          Sorted({k \in rows : r.from <= k[1] /\ k[1] < r.to}),
          Sorted({k \in rows : k[1] = r.to /\ k[2] <= r.toSeq}) >>

\* the result of each physical query fetchRange builds, in merge2's order
PhysicalQueries(r, ids) ==
  LET rows == {k \in stored : TsWindow[k[1]] \in ids} IN
  IF r.fromSeq = MinSeq /\ r.toSeq = MaxSeq
  THEN << Sorted({k \in rows : r.from <= k[1] /\ k[1] <= r.to}) >>
  ELSE << Sorted({k \in rows : k[1] = r.from /\ k[2] >= r.fromSeq}),
          Sorted({k \in rows : r.from < k[1] /\ k[1] < r.to}),
          Sorted({k \in rows : k[1] = r.to /\ k[2] <= r.toSeq}) >>

\* requestFrom: fetchRange up to MAX_TIMESTAMP_VALUE, MAX_SEQUENCE_NUMBER_VALUE
RequestFrom(fromTimestamp, fromSequenceNo) ==
  [from |-> fromTimestamp, fromSeq |-> fromSequenceNo, to |-> MaxTs, toSeq |-> MaxSeq]

\* requestRange (publisherId and msgChainId both given or both absent)
RequestRange(fromTimestamp, fromSequenceNo, toTimestamp, toSequenceNo) ==
  [from |-> fromTimestamp, fromSeq |-> fromSequenceNo,
   to |-> toTimestamp, toSeq |-> toSequenceNo]

TypeOK ==
  /\ req \in Requests
  /\ stored \subseteq Keys /\ nulls \subseteq stored
  /\ buckets \subseteq Windows
  /\ stage \in {"lookup", "piping", "done"}
  /\ queries \in Seq(Seq(Keys))
  /\ cur \in Nat
  /\ status \in {"open", "ended", "failed", "destroyed", "crashed"}
  /\ buffer \in Seq(Keys) /\ Len(buffer) <= Cap
  /\ delivered \in Seq(Keys)

(***************************************************************************)
(* requestFrom/requestRange has returned the result stream of fetchRange;  *)
(* getBucketsByTimestamp is pending. Any store with at most one NULL-      *)
(* payload row, and a bucket for every window that holds a row.            *)
(***************************************************************************)
Init ==
  /\ req \in Requests
  /\ stored \in SUBSET Keys
  /\ nulls \in {n \in SUBSET stored : Cardinality(n) <= 1}
  /\ buckets \in {b \in SUBSET Windows : \A k \in stored : TsWindow[k[1]] \in b}
  /\ stage = "lookup"
  /\ queries = <<>>
  /\ cur = 0
  /\ status = "open"
  /\ buffer = <<>>
  /\ delivered = <<>>

(***************************************************************************)
(* The .then of getBucketsByTimestamp. No bucket: resultStream.end().      *)
(* Otherwise build the queries, start one stream per query and pipe        *)
(* merge2 of them into the result; if the result is already destroyed the  *)
(* pipeline fails at once and destroys the streams it just started.        *)
(***************************************************************************)
ResolveBuckets ==
  LET ids == BucketsInRange(req.from, req.to) IN
  /\ stage = "lookup"
  /\ \/ /\ ids = {}
        /\ status' = IF status = "open" THEN "ended" ELSE status
        /\ stage' = "done"
        /\ UNCHANGED <<queries, cur>>
     \/ /\ ids # {}
        /\ queries' = PhysicalQueries(req, ids)
        /\ cur' = 1
        /\ stage' = IF status = "open" THEN "piping" ELSE "done"
        /\ UNCHANGED status
  /\ UNCHANGED <<req, stored, nulls, buckets, buffer, delivered>>

\* getBucketsByTimestamp rejects: .catch destroys the result stream
LookupFails ==
  /\ stage = "lookup"
  /\ stage' = "done"
  /\ status' = IF status = "open" THEN "failed" ELSE status
  /\ buffer' = IF status = "open" THEN <<>> ELSE buffer
  /\ UNCHANGED <<req, stored, nulls, buckets, queries, cur, delivered>>

\* mutant: rows are written on without waiting for the buffer to drain
PumpIgnoresBackpressure ==
  /\ stage = "piping" /\ status = "open"
  /\ cur <= Len(queries) /\ queries[cur] # <<>>
  /\ LET row == Head(queries[cur]) IN
       /\ queries' = [queries EXCEPT ![cur] = Tail(@)]
       /\ buffer' = IF row \in nulls THEN buffer ELSE Append(buffer, row)
  /\ UNCHANGED <<req, stored, nulls, buckets, stage, cur, status, delivered>>

\* merge2 passes the next row of the current stream through the Transform,
\* which drops a NULL payload (parseRow) and pushes the message otherwise
Pump ==
  /\ stage = "piping" /\ status = "open"
  /\ cur <= Len(queries) /\ queries[cur] # <<>>
  /\ Len(buffer) < Cap
  /\ LET row == Head(queries[cur]) IN
       /\ queries' = [queries EXCEPT ![cur] = Tail(@)]
       /\ buffer' = IF row \in nulls THEN buffer ELSE Append(buffer, row)
  /\ UNCHANGED <<req, stored, nulls, buckets, stage, cur, status, delivered>>

\* the current stream ends: merge2 moves to the next one, or, after the
\* last, ends and the pipeline ends the result stream
NextSource ==
  /\ stage = "piping" /\ status = "open"
  /\ cur <= Len(queries) /\ queries[cur] = <<>>
  /\ IF cur = Len(queries)
       THEN /\ status' = "ended" /\ stage' = "done" /\ UNCHANGED cur
       ELSE /\ cur' = cur + 1 /\ UNCHANGED <<status, stage>>
  /\ UNCHANGED <<req, stored, nulls, buckets, queries, buffer, delivered>>

\* the stream merge2 is piping fails: its pipeError listener passes the error
\* on, and the pipeline callback destroys the result and every stream
QueryFails ==
  /\ stage = "piping" /\ status = "open"
  /\ cur <= Len(queries)
  /\ status' = "failed"
  /\ buffer' = <<>>
  /\ stage' = "done"
  /\ UNCHANGED <<req, stored, nulls, buckets, queries, cur, delivered>>

(***************************************************************************)
(* A stream merge2 has not reached yet fails. The streams are all started  *)
(* at once (queries.map), and merge2 adds its error listener to a stream   *)
(* only when it pipes it: the 'error' event has no listener, so it is      *)
(* thrown as an uncaught exception and the process stops. Nothing more is  *)
(* read, and the result neither ends nor fails.                            *)
(***************************************************************************)
QueuedQueryFails(i) ==
  /\ stage = "piping" /\ status = "open"
  /\ cur < i /\ i <= Len(queries)
  /\ status' = "crashed"
  /\ stage' = "done"
  /\ UNCHANGED <<req, stored, nulls, buckets, queries, cur, buffer, delivered>>

\* the consumer reads a message from the result stream
Read ==
  /\ buffer # <<>>
  /\ status \in {"open", "ended"}
  /\ delivered' = Append(delivered, Head(buffer))
  /\ buffer' = Tail(buffer)
  /\ UNCHANGED <<req, stored, nulls, buckets, stage, queries, cur, status>>

\* the consumer destroys the result stream before reading its end; the
\* pipeline, once built, destroys the physical streams
Destroy ==
  /\ \/ status = "open"
     \/ status = "ended" /\ buffer # <<>>
  /\ status' = "destroyed"
  /\ buffer' = <<>>
  /\ stage' = IF stage = "piping" THEN "done" ELSE stage
  /\ UNCHANGED <<req, stored, nulls, buckets, queries, cur, delivered>>

Next ==
  \/ ResolveBuckets \/ LookupFails
  \/ Pump \/ NextSource \/ QueryFails
  \/ \E i \in 1..3 : QueuedQueryFails(i)
  \/ Read \/ Destroy

(***************************************************************************)
(* Promise callbacks and stream events are run by the event loop; the      *)
(* consumer is assumed to keep reading. Failures and destroy are not fair. *)
(***************************************************************************)
Fairness ==
  /\ WF_vars(ResolveBuckets) /\ WF_vars(Pump) /\ WF_vars(NextSource)
  /\ WF_vars(Read)

Spec == Init /\ [][Next]_vars /\ Fairness

-----------------------------------------------------------------------------

RR == INSTANCE RangeReadSpec WITH
        answer <- Expected(req),
        seen <- delivered,
        eof <- (status = "ended" /\ buffer = <<>>),
        failed <- (status \in {"failed", "destroyed"})

\* Spec 8, what the consumer may see: the stored messages of the range, each
\* once and in (timestamp, sequence) order, then the end; or, before the
\* end, a failure after which nothing more arrives. merge2 reading the
\* physical queries one after the other must keep this order, and a failing
\* query must leave no partial range delivered as complete.
RangeReadSafety == RR!SafetySpec

\* Spec 8 in full: the above, and a stream nobody destroys does end. An
\* unhandled error of a stream merge2 has not reached (QueuedQueryFails)
\* stops the read without an end or a failure.
RangeReadRefinement == RR!Spec

=============================================================================
