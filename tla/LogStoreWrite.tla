--------------------------- MODULE LogStoreWrite ---------------------------
(***************************************************************************)
(* The write path of LogStore (src/packages/client/src/exports-commonjs.js,*)
(* class LogStore): store(), its retry timers kept in pendingStores, the   *)
(* setImmediate hand-off to the BatchManager, and close().                 *)
(*                                                                         *)
(* BucketManager and BatchManager are not under src/; they are modelled    *)
(* from the spec (4.1, 4.2): a bucket is known for a time window or not,   *)
(* new buckets appear through an external rotation policy, incrementBucket *)
(* adds to a per-bucket record counter, and a flush writes any non-empty   *)
(* part of a bucket's batch and reports one outcome for it.                *)
(*                                                                         *)
(* A message is abstracted to a model value; its timestamp to the time     *)
(* window it falls in, so that "bucket found" is "its window has a bucket".*)
(***************************************************************************)
EXTENDS Naturals, FiniteSets

CONSTANTS
  Msgs,       \* messages that callers hand to store()
  Windows,    \* time windows; a bucket is identified by its window
  MsgWindow   \* MsgWindow[m]: the window containing m's timestamp

ASSUME MsgWindow \in [Msgs -> Windows]

VARIABLES
  buckets,        \* windows the BucketManager knows a bucket for
  records,        \* records[w]: BucketManager's record counter of bucket w
  phase,          \* phase[m]: where store(m) is (see Phases)
  outcome,        \* outcome[m]: state of the promise store(m) returned
  pendingStores,  \* messages with an entry (uuid -> timeout) in pendingStores
  stored,         \* messages whose row is in stream_data
  closed,         \* close() has been called
  parkedAtClose   \* history: messages whose retry timer was live at close()

vars == <<buckets, records, phase, outcome, pendingStores, stored, closed,
          parkedAtClose>>

(***************************************************************************)
(* idle: store(m) not called yet; parked: a retry timer is live;           *)
(* immediate: setImmediate(batchManager.store) is queued; batched: in a    *)
(* BatchManager batch; done: the batch callback ran; cancelled: the retry  *)
(* timer was cleared by close().                                           *)
(***************************************************************************)
Phases == {"idle", "parked", "immediate", "batched", "done", "cancelled"}

TypeOK ==
  /\ buckets \subseteq Windows
  /\ records \in [Windows -> Nat]
  /\ phase \in [Msgs -> Phases]
  /\ outcome \in [Msgs -> {"pending", "resolved", "rejected"}]
  /\ pendingStores \subseteq Msgs
  /\ stored \subseteq Msgs
  /\ closed \in BOOLEAN
  /\ parkedAtClose \subseteq Msgs

\* constructor: no bucket known yet, pendingStores = new Map()
Init ==
  /\ buckets = {}
  /\ records = [w \in Windows |-> 0]
  /\ phase = [m \in Msgs |-> "idle"]
  /\ outcome = [m \in Msgs |-> "pending"]
  /\ pendingStores = {}
  /\ stored = {}
  /\ closed = FALSE
  /\ parkedAtClose = {}

\* mutant: the pending timer is registered under the bucket key, not a uuid
AttemptKeyedByWindow(m, ps) ==
  \/ /\ MsgWindow[m] \in buckets
     /\ records' = [records EXCEPT ![MsgWindow[m]] = @ + 1]
     /\ phase' = [phase EXCEPT ![m] = "immediate"]
     /\ pendingStores' = ps
  \/ /\ MsgWindow[m] \notin buckets
     /\ phase' = [phase EXCEPT ![m] = "parked"]
     /\ pendingStores' = ps \cup {MsgWindow[m]}
     /\ UNCHANGED records

(***************************************************************************)
(* The body of store(m), run with pendingStores equal to ps: getBucketId;  *)
(* when a bucket is found, incrementBucket and queue the hand-off to the   *)
(* BatchManager; otherwise set a retry timer and register it.              *)
(***************************************************************************)
Attempt(m, ps) ==
  \/ /\ MsgWindow[m] \in buckets
     /\ records' = [records EXCEPT ![MsgWindow[m]] = @ + 1]
     /\ phase' = [phase EXCEPT ![m] = "immediate"]
     /\ pendingStores' = ps
  \/ /\ MsgWindow[m] \notin buckets
     /\ phase' = [phase EXCEPT ![m] = "parked"]
     /\ pendingStores' = ps \cup {m}
     /\ UNCHANGED records

\* store(streamMessage) called by a producer (there is no closed check)
Store(m) ==
  /\ phase[m] = "idle"
  /\ Attempt(m, pendingStores)
  /\ UNCHANGED <<buckets, outcome, stored, closed, parkedAtClose>>

\* mutant: the timer callback deletes its entry but never calls store() again
RetryTimerNoRestore(m) ==
  /\ phase[m] = "parked"
  /\ phase' = [phase EXCEPT ![m] = "cancelled"]
  /\ pendingStores' = pendingStores \ {m}
  /\ UNCHANGED <<buckets, records, outcome, stored, closed, parkedAtClose>>

\* the retry timer fires: pendingStores.delete(uuid), then store() again
RetryTimer(m) ==
  /\ phase[m] = "parked"
  /\ Attempt(m, pendingStores \ {m})
  /\ UNCHANGED <<buckets, outcome, stored, closed, parkedAtClose>>

\* the setImmediate callback: batchManager.store(bucketId, msg, cb)
HandOff(m) ==
  /\ phase[m] = "immediate"
  /\ phase' = [phase EXCEPT ![m] = "batched"]
  /\ UNCHANGED <<buckets, records, outcome, pendingStores, stored, closed,
                 parkedAtClose>>

(***************************************************************************)
(* BatchManager flushes part of the batch of bucket w; every callback of   *)
(* the flushed messages runs with the same result: resolve(true) after the *)
(* 'write' event, or reject(err). Once close() has shut the Cassandra      *)
(* client down, a flush can only fail.                                     *)
(***************************************************************************)
Flush(w) ==
  \E flushed \in SUBSET {m \in Msgs : phase[m] = "batched" /\ MsgWindow[m] = w} :
    /\ flushed # {}
    /\ phase' = [m \in Msgs |-> IF m \in flushed THEN "done" ELSE phase[m]]
    /\ \/ /\ ~closed
          /\ stored' = stored \cup flushed
          /\ outcome' = [m \in Msgs |-> IF m \in flushed THEN "resolved" ELSE outcome[m]]
       \/ /\ outcome' = [m \in Msgs |-> IF m \in flushed THEN "rejected" ELSE outcome[m]]
          /\ UNCHANGED stored
    /\ UNCHANGED <<buckets, records, pendingStores, closed, parkedAtClose>>

\* the BucketManager's rotation policy creates the bucket of window w
CreateBucket(w) ==
  /\ ~closed
  /\ w \notin buckets
  /\ buckets' = buckets \cup {w}
  /\ UNCHANGED <<records, phase, outcome, pendingStores, stored, closed,
                 parkedAtClose>>

\* mutant: close() deletes the pendingStores entries without clearTimeout
CloseKeepsTimers ==
  /\ ~closed
  /\ pendingStores' = {}
  /\ closed' = TRUE
  /\ parkedAtClose' = {m \in Msgs : phase[m] = "parked"}
  /\ UNCHANGED <<buckets, records, phase, outcome, stored>>

(***************************************************************************)
(* close(): clearTimeout and delete every pendingStores entry, stop the    *)
(* BucketManager and the BatchManager, shut the client down. The promises  *)
(* of the cleared stores are left as they are. A second close() changes    *)
(* nothing, so it is left out.                                             *)
(***************************************************************************)
Close ==
  /\ ~closed
  /\ phase' = [m \in Msgs |-> IF m \in pendingStores THEN "cancelled" ELSE phase[m]]
  /\ pendingStores' = {}
  /\ closed' = TRUE
  /\ parkedAtClose' = {m \in Msgs : phase[m] = "parked"}
  /\ UNCHANGED <<buckets, records, outcome, stored>>

Next ==
  \/ \E m \in Msgs : Store(m) \/ RetryTimer(m) \/ HandOff(m)
  \/ \E w \in Windows : Flush(w) \/ CreateBucket(w)
  \/ Close

(***************************************************************************)
(* The event loop eventually runs every due timer and immediate, the       *)
(* BatchManager eventually flushes, and (spec 4.3) a missing bucket is     *)
(* eventually created. Producers and close() are callers: not fair.        *)
(***************************************************************************)
Fairness ==
  /\ \A m \in Msgs : WF_vars(RetryTimer(m)) /\ WF_vars(HandOff(m))
  /\ \A w \in Windows : WF_vars(Flush(w)) /\ WF_vars(CreateBucket(w))

Spec == Init /\ [][Next]_vars /\ Fairness

-----------------------------------------------------------------------------
(***************************************************************************)
(* Properties.                                                             *)
(***************************************************************************)

\* A store() whose bucket was missing is retried until it lands, so every
\* store() call settles (resolve or reject) unless close() intervenes.
StoreSettlesUnlessClosed ==
  \A m \in Msgs : (phase[m] # "idle") ~> (outcome[m] # "pending" \/ closed)

\* Spec 8: every store() call either succeeds or, when close() comes first,
\* is cancelled; the caller's promise is never left pending for ever.
StoreSettles ==
  \A m \in Msgs : (phase[m] # "idle") ~> (outcome[m] # "pending")

\* Spec 4.3: close() must not deliver already-parked messages afterwards:
\* a message whose retry timer was live at close() never reaches the
\* BatchManager (the timer must have been registered and cleared).
ParkedNotDeliveredAfterClose ==
  \A m \in parkedAtClose : phase[m] \in {"parked", "cancelled"}

=============================================================================
