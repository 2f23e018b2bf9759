--------------------------- MODULE RangeReadSpec ---------------------------
(***************************************************************************)
(* What a consumer of a LogStore read stream may observe (spec 4.4, 8):    *)
(* the messages of the answer, each once and in (timestamp, sequence)      *)
(* order, then the end of the stream; or, at any point before the end, an  *)
(* error after which nothing more arrives. The answer is a variable that   *)
(* no step changes, so that an implementation can map it to the answer of  *)
(* the request it serves.                                                  *)
(***************************************************************************)
EXTENDS Naturals, Sequences

VARIABLES
  answer,  \* the sequence the request must produce
  seen,    \* what the consumer has read so far
  eof,     \* the consumer has observed 'end'
  failed   \* the stream was destroyed (error or consumer abort)

rvars == <<answer, seen, eof, failed>>

Init ==
  /\ seen = <<>>
  /\ eof = FALSE
  /\ failed = FALSE

\* the consumer reads the next message of the answer; 'end' may be
\* observed together with the last one
Deliver ==
  /\ ~eof /\ ~failed
  /\ Len(seen) < Len(answer)
  /\ seen' = Append(seen, answer[Len(seen) + 1])
  /\ eof' \in BOOLEAN
  /\ eof' => seen' = answer
  /\ UNCHANGED <<answer, failed>>

\* 'end' observed once the whole answer has been read
End ==
  /\ ~eof /\ ~failed
  /\ seen = answer
  /\ eof' = TRUE
  /\ UNCHANGED <<answer, seen, failed>>

\* the stream is destroyed before its end
Fail ==
  /\ ~eof /\ ~failed
  /\ failed' = TRUE
  /\ UNCHANGED <<answer, seen, eof>>

Next == Deliver \/ End \/ Fail

\* what may be observed, without any promise that it ends
SafetySpec == Init /\ [][Next]_rvars

\* a stream that is not destroyed eventually delivers its whole answer
Spec == Init /\ [][Next]_rvars /\ WF_rvars(Deliver \/ End)

=============================================================================
