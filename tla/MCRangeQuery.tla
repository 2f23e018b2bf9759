--------------------------- MODULE MCRangeQuery ----------------------------
(***************************************************************************)
(* Model for RangeQuery: timestamps 1..3 in two bucket windows, sequence   *)
(* numbers 0..1 (so that both the fast path and the sequence-bounded split *)
(* occur), MAX_TIMESTAMP_VALUE = 4, and a pipeline that pauses at 2        *)
(* buffered rows.                                                          *)
(***************************************************************************)
EXTENDS RangeQuery

MCTs == 1..3
MCSeqs == 0..1
MCTsWindow == [t \in MCTs |-> IF t <= 2 THEN "w1" ELSE "w2"]

AllRequests ==
  {RequestFrom(f, s) : f \in MCTs, s \in MCSeqs}
  \cup {RequestRange(f, fs, t, ts) : f \in MCTs, fs \in MCSeqs, t \in MCTs, ts \in MCSeqs}

\* the requests whose two bounds are at one timestamp with a sequence bound
SameTimestampRequests ==
  {r \in AllRequests : r.from = r.to /\ ~(r.fromSeq = 0 /\ r.toSeq = 1)}

\* every other request: the fast path, from < to, or from > to
OtherRequests == AllRequests \ SameTimestampRequests

=============================================================================
