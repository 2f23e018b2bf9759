--------------------------- MODULE StreamSummary ---------------------------
(***************************************************************************)
(* The summary queries of LogStore (src/packages/client/src/               *)
(* exports-commonjs.js): getFirstMessageTimestampInStream,                 *)
(* getLastMessageTimestampInStream, getNumberOfMessagesInStream and        *)
(* getTotalBytesInStream, read against one stream partition's buckets      *)
(* while store() keeps writing into it.                                    *)
(*                                                                         *)
(* Bucket i is the i-th created (date_create order). Its records and size  *)
(* columns are Cassandra ints, and SUM over an int column is an int: both  *)
(* are modelled on a W-bit word. Messages arrive in timestamp order, so    *)
(* getBucketId finds the newest bucket; the BucketManager's rotation and   *)
(* the BatchManager's flush are modelled from spec 4.1 and 4.2.            *)
(***************************************************************************)
EXTENDS Integers, FiniteSets

CONSTANTS
  W,              \* width of Cassandra's int (32)
  MaxBuckets,     \* buckets the rotation policy creates at most
  MaxMsgs,        \* messages stored at most
  MsgSizes,       \* Buffer.byteLength of a serialized message
  MaxBucketSize   \* rotation threshold on a bucket's size

\* a bucket's own columns fit an int (records <= size: every message has a byte)
ASSUME MaxBucketSize < 2 ^ (W - 1) /\ MsgSizes \subseteq Nat \ {0}

VARIABLES
  nb,       \* buckets created so far (rows of the bucket table)
  records,  \* records[i]: the records column of bucket i
  size,     \* size[i]: the size column of bucket i
  rows,     \* rows[i]: timestamps of stream_data rows of bucket i
  pending,  \* <<bucket, ts>> handed to the BatchManager, not flushed
  clock     \* timestamp of the last message stored

vars == <<nb, records, size, rows, pending, clock>>

Buckets == 1..MaxBuckets

\* an int column or aggregate: the low W bits, read as signed
Int32(x) == LET m == x % (2 ^ W) IN IF m >= 2 ^ (W - 1) THEN m - 2 ^ W ELSE m

RECURSIVE SumUpTo(_, _)
\* f[1] + ... + f[n], computed exactly
SumUpTo(f, n) == IF n = 0 THEN 0 ELSE f[n] + SumUpTo(f, n - 1)

MinOf(S) == CHOOSE x \in S : \A y \in S : x <= y
MaxOf(S) == CHOOSE x \in S : \A y \in S : y <= x

\* getFirstMessageTimestampInStream: oldest bucket, its oldest row, else 0
GetFirstMessageTimestamp ==
  IF nb = 0 \/ rows[1] = {} THEN 0 ELSE MinOf(rows[1])

\* getLastMessageTimestampInStream: newest bucket, its newest row, else 0
GetLastMessageTimestamp ==
  IF nb = 0 \/ rows[nb] = {} THEN 0 ELSE MaxOf(rows[nb])

\* getNumberOfMessagesInStream: SUM(records), returned as it is
GetNumberOfMessages == Int32(SumUpTo(records, nb))

\* mutant: the slow path adds the rows to the negative sum it replaces
GetTotalBytesNoReset ==
  LET count == Int32(SumUpTo(size, nb))
  IN  IF count < 0 THEN count + SumUpTo(size, nb) ELSE count

\* getTotalBytesInStream: SUM(size); when negative, count = 0 and the size
\* of every bucket row is added up in JavaScript
GetTotalBytes ==
  LET count == Int32(SumUpTo(size, nb))
  IN  IF count < 0 THEN SumUpTo(size, nb) ELSE count

TypeOK ==
  /\ nb \in 0..MaxBuckets
  /\ records \in [Buckets -> 0..MaxMsgs]
  /\ size \in [Buckets -> 0..MaxBucketSize]
  /\ rows \in [Buckets -> SUBSET (1..MaxMsgs)]
  /\ pending \subseteq Buckets \X (1..MaxMsgs)
  /\ clock \in 0..MaxMsgs

\* a new stream partition: no bucket, no row
Init ==
  /\ nb = 0
  /\ records = [i \in Buckets |-> 0]
  /\ size = [i \in Buckets |-> 0]
  /\ rows = [i \in Buckets |-> {}]
  /\ pending = {}
  /\ clock = 0

\* the rotation policy creates the next bucket once the newest one has
\* been written to (spec 4.1)
CreateBucket ==
  /\ nb < MaxBuckets
  /\ nb > 0 => records[nb] > 0
  /\ nb' = nb + 1
  /\ UNCHANGED <<records, size, rows, pending, clock>>

\* mutant: incrementBucket(bucketId, size) with its counters swapped
StoreSwapped(s) ==
  /\ nb > 0 /\ clock < MaxMsgs
  /\ size[nb] + s <= MaxBucketSize
  /\ clock' = clock + 1
  /\ records' = [records EXCEPT ![nb] = @ + s]
  /\ size' = [size EXCEPT ![nb] = @ + 1]
  /\ pending' = pending \cup {<<nb, clock + 1>>}
  /\ UNCHANGED <<nb, rows>>

(***************************************************************************)
(* store() of a message of byteLength s, its bucket found: incrementBucket *)
(* adds one record and s bytes, then the message goes to the BatchManager. *)
(* The size guard is the rotation threshold the BucketManager keeps.      *)
(***************************************************************************)
Store(s) ==
  /\ nb > 0 /\ clock < MaxMsgs
  /\ size[nb] + s <= MaxBucketSize
  /\ clock' = clock + 1
  /\ records' = [records EXCEPT ![nb] = @ + 1]
  /\ size' = [size EXCEPT ![nb] = @ + s]
  /\ pending' = pending \cup {<<nb, clock + 1>>}
  /\ UNCHANGED <<nb, rows>>

\* the BatchManager writes a message's row (spec 4.2)
Flush(p) ==
  /\ p \in pending
  /\ pending' = pending \ {p}
  /\ rows' = [rows EXCEPT ![p[1]] = @ \cup {p[2]}]
  /\ UNCHANGED <<nb, records, size, clock>>

\* the batch write fails: the counters incremented stay as they are
WriteFails(p) ==
  /\ p \in pending
  /\ pending' = pending \ {p}
  /\ UNCHANGED <<nb, records, size, rows, clock>>

Next ==
  \/ CreateBucket
  \/ \E s \in MsgSizes : Store(s)
  \/ \E p \in pending : Flush(p) \/ WriteFails(p)

Spec == Init /\ [][Next]_vars

-----------------------------------------------------------------------------

TotalSize == SumUpTo(size, nb)

\* getTotalBytesInStream returns the exact sum of the buckets' sizes as long
\* as that sum is below 2^W: SUM is right below 2^(W-1), and the row-by-row
\* slow path repairs the negative values between 2^(W-1) and 2^W.
TotalBytesExactBelow2W ==
  TotalSize < 2 ^ W => GetTotalBytes = TotalSize

=============================================================================
