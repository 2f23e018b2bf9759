------------------------------ MODULE LogStore -------------------------------
(***************************************************************************)
(* The client's LogStore from start to close: startCassandraLogStore       *)
(* (Bootstrap) connects, and only the LogStore it returns takes store()    *)
(* calls and close() (LogStoreWrite). A bootstrap that throws leaves no    *)
(* LogStore, so no write ever starts.                                      *)
(***************************************************************************)
EXTENDS Naturals

CONSTANTS Msgs, Windows, MsgWindow, NbTrials

VARIABLES buckets, records, phase, outcome, pendingStores, stored, closed,
          parkedAtClose, boot, retryCount, failures

W == INSTANCE LogStoreWrite
B == INSTANCE Bootstrap

writeVars == <<buckets, records, phase, outcome, pendingStores, stored, closed,
               parkedAtClose>>
bootVars == <<boot, retryCount, failures>>
vars == <<writeVars, bootVars>>

\* startCassandraLogStore has returned the LogStore
Started == boot = "returned"

\* a step of the returned LogStore; the bootstrap is over
OnLogStore(A) == Started /\ A /\ UNCHANGED bootVars

TypeOK == W!TypeOK /\ B!TypeOK

Init == W!Init /\ B!Init

Next ==
  \/ B!Next /\ UNCHANGED writeVars
  \/ OnLogStore(W!Next)

\* the bootstrap's fairness, and the event loop's and BatchManager's of
\* LogStoreWrite for the steps of a LogStore that exists
Fairness ==
  /\ B!Fairness
  /\ \A m \in Msgs : WF_vars(OnLogStore(W!RetryTimer(m)))
                     /\ WF_vars(OnLogStore(W!HandOff(m)))
  /\ \A w \in Windows : WF_vars(OnLogStore(W!Flush(w)))
                        /\ WF_vars(OnLogStore(W!CreateBucket(w)))

Spec == Init /\ [][Next]_vars /\ Fairness

-----------------------------------------------------------------------------

\* Every store() call on the LogStore settles unless close() intervenes
\* (LogStoreWrite's retry timers), stated over the whole client lifetime.
StoreSettlesUnlessClosed == W!StoreSettlesUnlessClosed

\* close() never lets a parked message reach the BatchManager afterwards.
ParkedNotDeliveredAfterClose == W!ParkedNotDeliveredAfterClose

\* The bootstrap throws only after exactly nbTrials failed connect() calls.
ThrowsOnlyAfterAllTrials == B!ThrowsOnlyAfterAllTrials

\* startCassandraLogStore eventually returns a LogStore or throws.
BootstrapSettles == B!BootstrapSettles

=============================================================================
