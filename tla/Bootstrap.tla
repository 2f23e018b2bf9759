----------------------------- MODULE Bootstrap -------------------------------
(***************************************************************************)
(* startCassandraLogStore (src/packages/client/src/exports-commonjs.js):   *)
(* the connection bootstrap. It calls cassandraClient.connect() up to      *)
(* nbTrials times, sleeping 5 s after each failure, returns a new LogStore *)
(* after the first successful connect and throws once the trials are used  *)
(* up. The outcome of connect() is the database's choice; the driver       *)
(* settles each call (its own connect timeout), and the sleep's timer      *)
(* fires. The error text and the request logger are left out.              *)
(***************************************************************************)
EXTENDS Naturals

CONSTANT NbTrials   \* nbTrials (20 in the code)

ASSUME NbTrials \in Nat

\* history bound: failures are counted up to one more than the trials
MaxFailuresTracked == NbTrials + 1

VARIABLES
  boot,        \* "connecting", "sleeping", "returned", "thrown"
  retryCount,  \* retryCount
  failures     \* history: connect() calls that failed

vars == <<boot, retryCount, failures>>

TypeOK ==
  /\ boot \in {"connecting", "sleeping", "returned", "thrown"}
  /\ retryCount \in 0..NbTrials
  /\ failures \in 0..MaxFailuresTracked

\* mutant: the loop condition retryCount >= 0
BootLoopOffByOne(rc) == IF rc >= 0 THEN "connecting" ELSE "thrown"

\* while (retryCount > 0) { ... }  throw new Error(...)
BootLoop(rc) == IF rc > 0 THEN "connecting" ELSE "thrown"

Init ==
  /\ retryCount = NbTrials
  /\ boot = BootLoop(NbTrials)
  /\ failures = 0

\* await cassandraClient.connect() resolves: return new LogStore(...)
ConnectSucceeds ==
  /\ boot = "connecting"
  /\ boot' = "returned"
  /\ UNCHANGED <<retryCount, failures>>

\* connect() rejects: retryCount -= 1, then await sleep(5000)
ConnectFails ==
  /\ boot = "connecting"
  /\ retryCount' = retryCount - 1
  /\ boot' = "sleeping"
  /\ failures' = IF failures < MaxFailuresTracked THEN failures + 1 ELSE failures

\* mutant: sleep's timer callback returns resolve instead of calling it
WakeUnresolved ==
  /\ boot = "sleeping"
  /\ FALSE
  /\ UNCHANGED vars

\* the sleep's timer fires: lastError = err, back to the loop condition
Wake ==
  /\ boot = "sleeping"
  /\ boot' = BootLoop(retryCount)
  /\ UNCHANGED <<retryCount, failures>>

Connect == ConnectSucceeds \/ ConnectFails

Next == Connect \/ Wake

\* the driver settles every connect() and the event loop fires the timer;
\* which way connect() settles is not assumed
Fairness == WF_vars(Connect) /\ WF_vars(Wake)

Spec == Init /\ [][Next]_vars /\ Fairness

-----------------------------------------------------------------------------

\* Spec 5 and 7: the bootstrap fails hard only after exactly nbTrials connect()
\* attempts have failed, and never makes more than nbTrials attempts.
ThrowsOnlyAfterAllTrials ==
  /\ failures <= NbTrials
  /\ boot = "thrown" => failures = NbTrials

\* startCassandraLogStore settles: it returns a LogStore or throws, however
\* often the database refuses, as the retry loop counts its trials down.
BootstrapSettles == <>(boot \in {"returned", "thrown"})

=============================================================================
