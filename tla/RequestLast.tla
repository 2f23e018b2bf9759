---------------------------- MODULE RequestLast ----------------------------
(***************************************************************************)
(* LogStore.requestLast (src/packages/client/src/exports-commonjs.js):     *)
(* eachRow over the stream partition's buckets, newest first, one bucket   *)
(* per page; after each page a COUNT of the bucket just seen, added to  *)
(* total through its low 32 bits; nextPage while total < limit, otherwise  *)
(* makeLastQuery: the newest `limit` rows of the buckets seen, reversed,   *)
(* written into the result stream, then end.                               *)
(*                                                                         *)
(* A row is its timestamp; bucket window w holds rows (w-1)*K+1 .. w*K and *)
(* the bucket table lists buckets newest first (clustering by date_create  *)
(* DESC). Long.low is modelled on a W-bit word.                            *)
(***************************************************************************)
EXTENDS Integers, Sequences, FiniteSets

CONSTANTS
  NB,             \* most buckets the stream partition can have
  K,              \* rows per bucket window
  W,              \* width of the word .low is taken from (32 in the code)
  MaxResendLast,  \* MAX_RESEND_LAST
  Limits          \* limits a caller may pass

Rows == 1..(NB * K)
Win(r) == (r - 1) \div K + 1

ASSUME Limits \subseteq Nat \ {0}

VARIABLES
  limit,      \* limit after the clamp
  requested,  \* limit as passed by the caller
  nb,         \* buckets of the stream partition (windows 1..nb)
  stored,     \* rows of stream_data
  nulls,      \* stored rows with a NULL payload
  scanned,    \* bucketIds.length: buckets returned by eachRow so far
  total,      \* the running total of counted rows
  phase,      \* "page", "count", "last" (query in flight) or "done"
  status,     \* result stream: "open", "ended", "failed", "destroyed"
  buffer,     \* messages written to the result stream, not yet read
  delivered   \* messages the consumer has read

vars == <<limit, requested, nb, stored, nulls, scanned, total, phase, status,
          buffer, delivered>>

\* Long.low: the low W bits of a count, read as a signed integer
Low(c) ==
  LET m == c % (2 ^ W) IN IF m >= 2 ^ (W - 1) THEN m - 2 ^ W ELSE m

\* mutant: the clamp of the limit left out
ClampLimitDropped(l) == l

\* the clamp at the top of requestLast
ClampLimit(l) == IF l > MaxResendLast THEN MaxResendLast ELSE l

\* the i-th bucket eachRow returns: the newest first
BucketAt(i) == nb - i + 1

\* COUNT of bucket b: every stored row, NULL payload or not
CountOf(b) == Cardinality({r \in stored : Win(r) = b})

\* the integers of S in ascending order
Ascending(S) ==
  [i \in 1..Cardinality(S) |-> CHOOSE r \in S : Cardinality({x \in S : x < r}) = i - 1]

\* the n greatest elements of S
Newest(S, n) == {r \in S : Cardinality({x \in S : x > r}) < n}

\* mutant: makeLastQuery([bucketId]), only the bucket counted last
LastRowsLastBucket(n) ==
  LET inSeen == {r \in stored : Win(r) = nb - n + 1}
  IN  Ascending(Newest(inSeen, limit) \ nulls)

(***************************************************************************)
(* makeLastQuery: ORDER BY ts DESC LIMIT limit over the buckets seen, then *)
(* reverse; the Transform drops the NULL payloads.                         *)
(***************************************************************************)
LastRows(n) ==
  LET inSeen == {r \in stored : Win(r) > nb - n}
  IN  Ascending(Newest(inSeen, limit) \ nulls)

\* what spec 4.4 asks: the newest min(limit, 10000) rows, oldest first
Expected ==
  LET l == IF requested < MaxResendLast THEN requested ELSE MaxResendLast
  IN  Ascending(Newest(stored, l) \ nulls)

TypeOK ==
  /\ limit \in 1..MaxResendLast
  /\ requested \in Limits
  /\ nb \in 0..NB
  /\ stored \subseteq Rows /\ nulls \subseteq stored
  /\ scanned \in 0..nb
  /\ total \in Int
  /\ phase \in {"page", "count", "last", "done"}
  /\ status \in {"open", "ended", "failed", "destroyed"}
  /\ buffer \in Seq(Rows) /\ delivered \in Seq(Rows)

(***************************************************************************)
(* requestLast has clamped the limit, created the result stream and started*)
(* eachRow. Any partition with nb buckets whose rows lie in them, at most  *)
(* one of them with a NULL payload.                                        *)
(***************************************************************************)
Init ==
  /\ requested \in Limits
  /\ limit = ClampLimit(requested)
  /\ nb \in 0..NB
  /\ stored \in SUBSET {r \in Rows : Win(r) <= nb}
  /\ nulls \in {n \in SUBSET stored : Cardinality(n) <= 1}
  /\ scanned = 0
  /\ total = 0
  /\ phase = "page"
  /\ status = "open"
  /\ buffer = <<>>
  /\ delivered = <<>>

(***************************************************************************)
(* A page of eachRow arrives: the row callback records the next bucket (if *)
(* any), then the end callback runs. It returns if the result stream has   *)
(* ended; ends it if no bucket was ever seen; otherwise issues the COUNT of *)
(* the last bucket seen. Only 'ended' is checked, not 'destroyed'.         *)
(***************************************************************************)
PageArrives ==
  LET seen == IF scanned < nb THEN scanned + 1 ELSE scanned IN
  /\ phase = "page"
  /\ scanned' = seen
  /\ \/ /\ status = "ended"
        /\ phase' = "done"
        /\ UNCHANGED status
     \/ /\ status # "ended" /\ seen = 0
        /\ phase' = "done"
        /\ status' = IF status = "open" THEN "ended" ELSE status
     \/ /\ status # "ended" /\ seen > 0
        /\ phase' = "count"
        /\ UNCHANGED status
  /\ UNCHANGED <<limit, requested, nb, stored, nulls, total, buffer, delivered>>

\* the COUNT returns: total += row.total.low; nextPage while there is a next
\* page and total < limit and total < MAX_RESEND_LAST, else makeLastQuery
CountReturns ==
  LET t == total + Low(CountOf(BucketAt(scanned))) IN
  /\ phase = "count"
  /\ total' = t
  /\ phase' = IF scanned < nb /\ t < limit /\ t < MaxResendLast THEN "page" ELSE "last"
  /\ UNCHANGED <<limit, requested, nb, stored, nulls, scanned, status, buffer,
                 delivered>>

\* makeLastQuery returns: every row is written (write()'s return value is
\* ignored), then end(); writes to a destroyed stream are dropped
LastReturns ==
  /\ phase = "last"
  /\ phase' = "done"
  /\ IF status = "open"
       THEN /\ buffer' = buffer \o LastRows(scanned)
            /\ status' = "ended"
       ELSE UNCHANGED <<buffer, status>>
  /\ UNCHANGED <<limit, requested, nb, stored, nulls, scanned, total, delivered>>

\* eachRow, the COUNT or the last query fails: resultStream.destroy(err)
QueryFails ==
  /\ phase \in {"page", "count", "last"}
  /\ phase' = "done"
  /\ status' = IF status = "open" THEN "failed" ELSE status
  /\ buffer' = IF status = "open" THEN <<>> ELSE buffer
  /\ UNCHANGED <<limit, requested, nb, stored, nulls, scanned, total, delivered>>

\* the consumer reads a message
Read ==
  /\ buffer # <<>>
  /\ status \in {"open", "ended"}
  /\ delivered' = Append(delivered, Head(buffer))
  /\ buffer' = Tail(buffer)
  /\ UNCHANGED <<limit, requested, nb, stored, nulls, scanned, total, phase,
                 status>>

\* the consumer destroys the result stream before reading its end
Destroy ==
  /\ \/ status = "open"
     \/ status = "ended" /\ buffer # <<>>
  /\ status' = "destroyed"
  /\ buffer' = <<>>
  /\ UNCHANGED <<limit, requested, nb, stored, nulls, scanned, total, phase,
                 delivered>>

Next ==
  \/ PageArrives \/ CountReturns \/ LastReturns \/ QueryFails
  \/ Read \/ Destroy

\* the driver's callbacks run; the consumer keeps reading
Fairness ==
  /\ WF_vars(PageArrives) /\ WF_vars(CountReturns) /\ WF_vars(LastReturns)
  /\ WF_vars(Read)

Spec == Init /\ [][Next]_vars /\ Fairness

-----------------------------------------------------------------------------

RR == INSTANCE RangeReadSpec WITH
        answer <- Expected,
        seen <- delivered,
        eof <- (status = "ended" /\ buffer = <<>>),
        failed <- (status \in {"failed", "destroyed"})

\* Spec 4.4 and 8: requestLast yields the newest min(limit, 10000) stored
\* messages in ascending order, each once, then ends (or fails and stops),
\* however the per-bucket counts add up through Long.low.
RequestLastRefinement == RR!Spec

=============================================================================
