--------------------------- MODULE SystemRecovery ---------------------------
(***************************************************************************)
(* SystemRecovery (src/unnamed/part_001): the validator subscribes to the  *)
(* system stream, draws a requestId and POSTs it to a broker's /recovery   *)
(* endpoint, then seeds one progress entry per broker the response names.  *)
(* Each broker publishes a RecoveryResponse (a payload of system messages) *)
(* and then a RecoveryComplete for that requestId. Every message runs      *)
(* onMessage in its own setImmediate task; a RecoveryResponse task awaits  *)
(* onSystemMessage once per payload item, so tasks interleave. The         *)
(* progress getter reports completion; the RecoveryComplete task calls     *)
(* stop() once it does.                                                    *)
(*                                                                         *)
(* A progress entry is a JS object the map holds: gen[p] counts the        *)
(* objects created for p, and a task keeps the gen of the object it        *)
(* fetched at line 152, so that a write to an object the map no longer     *)
(* holds is lost, as in the code.                                          *)
(***************************************************************************)
EXTENDS Integers, FiniteSets

CONSTANTS
  Listed,     \* brokers named by the /recovery response; each answers
  Outsiders,  \* other publishers of recovery messages on the system stream
  Items       \* Items[b]: length of broker b's RecoveryResponse payload

ASSUME Listed \cap Outsiders = {}
ASSUME Items \in [Listed -> Nat]

Publishers == Listed \cup Outsiders

\* progress.timestamp === undefined
UNDEFINED == -1
\* metadata.timestamp of a RecoveryResponse (any positive value)
ResponseTs == 1

VARIABLES
  pc,          \* start(): "init", "subscribed", "posting" (requestId drawn,
               \* POST in flight), "started", "failed"
  subscribed,  \* the subscription delivers messages (until stop())
  sent,        \* sent[b]: messages broker b published for our requestId
               \* (1: the RecoveryResponse, 2: also the RecoveryComplete)
  recv,        \* recv[b]: those whose onMessage task has started
  entries,     \* keys of this.progresses
  ts,          \* ts[p]: progress.timestamp of the object the map holds
  complete,    \* complete[p]: its isComplete
  gen,         \* gen[p]: objects created for p so far
  hgen,        \* hgen[b]: the object b's RecoveryResponse task writes to
  remaining,   \* remaining[b]: payload items b's task has still to apply
  applied,     \* applied[b]: payload items onSystemMessage has applied
  early        \* one of our broker messages ran before the POST returned

vars == <<pc, subscribed, sent, recv, entries, ts, complete, gen, hgen,
          remaining, applied, early>>

\* mutant: the getter combines the entries with || instead of &&
ProgressAnyComplete ==
  \E p \in entries : ts[p] # UNDEFINED /\ complete[p]

\* the progress getter (lines 99-115): complete iff every entry has a
\* timestamp and isComplete; an empty map is complete
ProgressComplete ==
  \A p \in entries : ts[p] # UNDEFINED /\ complete[p]

TypeOK ==
  /\ pc \in {"init", "subscribed", "posting", "started", "failed"}
  /\ subscribed \in BOOLEAN
  /\ sent \in [Listed -> 0..2] /\ recv \in [Listed -> 0..2]
  /\ entries \subseteq Publishers
  /\ ts \in [Publishers -> {UNDEFINED, 0, ResponseTs}]
  /\ complete \in [Publishers -> BOOLEAN]
  /\ gen \in [Publishers -> 0..2] /\ hgen \in [Listed -> 0..2]
  /\ remaining \in [Listed -> Nat]
  /\ applied \in [Listed -> Nat] /\ \A b \in Listed : applied[b] <= Items[b]
  /\ early \in BOOLEAN

Init ==
  /\ pc = "init"
  /\ subscribed = FALSE
  /\ sent = [b \in Listed |-> 0] /\ recv = [b \in Listed |-> 0]
  /\ entries = {}
  /\ ts = [p \in Publishers |-> UNDEFINED]
  /\ complete = [p \in Publishers |-> FALSE]
  /\ gen = [p \in Publishers |-> 0] /\ hgen = [b \in Listed |-> 0]
  /\ remaining = [b \in Listed |-> 0] /\ applied = [b \in Listed |-> 0]
  /\ early = FALSE

\* start(): await subscriber.subscribe (lines 56-58)
Subscribe ==
  /\ pc = "init"
  /\ pc' = "subscribed"
  /\ subscribed' = TRUE
  /\ UNCHANGED <<sent, recv, entries, ts, complete, gen, hgen, remaining,
                 applied, early>>

\* start(): the endpoint, address and signature are awaited, the requestId
\* drawn and the POST sent (lines 60-82)
SendRequest ==
  /\ pc = "subscribed"
  /\ pc' = "posting"
  /\ UNCHANGED <<subscribed, sent, recv, entries, ts, complete, gen, hgen,
                 remaining, applied, early>>

\* getBrokerEndpoint throws, or the POST rejects: start() rejects
StartFails ==
  /\ pc \in {"subscribed", "posting"}
  /\ pc' = "failed"
  /\ UNCHANGED <<subscribed, sent, recv, entries, ts, complete, gen, hgen,
                 remaining, applied, early>>

\* the POST returns: progresses.set(b, {isComplete: false}) for every
\* broker named, replacing an entry an earlier task created (lines 84-87)
PostReturns ==
  /\ pc = "posting"
  /\ pc' = "started"
  /\ entries' = entries \cup Listed
  /\ ts' = [p \in Publishers |-> IF p \in Listed THEN UNDEFINED ELSE ts[p]]
  /\ complete' = [p \in Publishers |-> IF p \in Listed THEN FALSE ELSE complete[p]]
  /\ gen' = [p \in Publishers |-> IF p \in Listed THEN gen[p] + 1 ELSE gen[p]]
  /\ UNCHANGED <<subscribed, sent, recv, hgen, remaining, applied, early>>

\* broker b, having received the POST, publishes its next message
Publish(b) ==
  /\ pc \in {"posting", "started"}
  /\ sent[b] < 2
  /\ sent' = [sent EXCEPT ![b] = @ + 1]
  /\ UNCHANGED <<pc, subscribed, recv, entries, ts, complete, gen, hgen,
                 remaining, applied, early>>

\* lines 152-156: the entry of publisher p, created when missing
Fetched(p) ==
  /\ entries' = entries \cup {p}
  /\ gen' = IF p \in entries THEN gen ELSE [gen EXCEPT ![p] = @ + 1]

\* a message of another requestId: the entry is created, then the
\* requestId check returns (lines 162-164, 184-186)
Foreign(p) ==
  /\ subscribed
  /\ p \notin entries
  /\ Fetched(p)
  /\ ts' = [ts EXCEPT ![p] = UNDEFINED]
  /\ complete' = [complete EXCEPT ![p] = FALSE]
  /\ UNCHANGED <<pc, subscribed, sent, recv, hgen, remaining, applied, early>>

\* the task of b's RecoveryResponse starts: it keeps the object fetched and
\* enters the payload loop (lines 152-176 up to the first await)
ReceiveResponse(b) ==
  /\ subscribed
  /\ recv[b] = 0 /\ sent[b] >= 1
  /\ recv' = [recv EXCEPT ![b] = 1]
  /\ Fetched(b)
  /\ ts' = IF b \in entries THEN ts ELSE [ts EXCEPT ![b] = UNDEFINED]
  /\ complete' = IF b \in entries THEN complete ELSE [complete EXCEPT ![b] = FALSE]
  /\ hgen' = [hgen EXCEPT ![b] = gen'[b]]
  /\ remaining' = [remaining EXCEPT ![b] = Items[b]]
  /\ early' = (early \/ pc # "started")
  /\ UNCHANGED <<pc, subscribed, sent, applied>>

\* mutant: the loop runs one iteration past the payload
ApplyItemOneMore(b) ==
  /\ remaining[b] >= 0
  /\ remaining' = [remaining EXCEPT ![b] = IF @ > 0 THEN @ - 1 ELSE 0]
  /\ applied' = [applied EXCEPT ![b] = @ + 1]
  /\ ts' = IF hgen[b] = gen[b] THEN [ts EXCEPT ![b] = ResponseTs] ELSE ts
  /\ UNCHANGED <<pc, subscribed, sent, recv, entries, complete, gen, hgen, early>>

\* one iteration of the payload loop: await onSystemMessage, then
\* progress.timestamp = metadata.timestamp on the object kept
ApplyItem(b) ==
  /\ remaining[b] > 0
  /\ remaining' = [remaining EXCEPT ![b] = @ - 1]
  /\ applied' = [applied EXCEPT ![b] = @ + 1]
  /\ ts' = IF hgen[b] = gen[b] THEN [ts EXCEPT ![b] = ResponseTs] ELSE ts
  /\ UNCHANGED <<pc, subscribed, sent, recv, entries, complete, gen, hgen, early>>

\* mutant: no timestamp 0 for a broker that sent no payload (196-198)
ReceiveCompleteNoDefault(b) ==
  /\ subscribed
  /\ recv[b] = 1 /\ sent[b] = 2
  /\ recv' = [recv EXCEPT ![b] = 2]
  /\ Fetched(b)
  /\ ts' = IF b \notin entries THEN [ts EXCEPT ![b] = UNDEFINED] ELSE ts
  /\ complete' = [complete EXCEPT ![b] = TRUE]
  /\ subscribed' = ~ProgressComplete'
  /\ early' = (early \/ pc # "started")
  /\ UNCHANGED <<pc, sent, hgen, remaining, applied>>

(***************************************************************************)
(* The task of b's RecoveryComplete (lines 152-156, 181-205), synchronous  *)
(* up to stop(): an undefined timestamp becomes 0, isComplete is set, and  *)
(* if the progress getter then reports completion, stop() unsubscribes.    *)
(***************************************************************************)
ReceiveComplete(b) ==
  /\ subscribed
  /\ recv[b] = 1 /\ sent[b] = 2
  /\ recv' = [recv EXCEPT ![b] = 2]
  /\ Fetched(b)
  /\ ts' = IF ts[b] = UNDEFINED \/ b \notin entries
             THEN [ts EXCEPT ![b] = 0] ELSE ts
  /\ complete' = [complete EXCEPT ![b] = TRUE]
  /\ subscribed' = ~ProgressComplete'
  /\ early' = (early \/ pc # "started")
  /\ UNCHANGED <<pc, sent, hgen, remaining, applied>>

Next ==
  \/ Subscribe \/ SendRequest \/ StartFails \/ PostReturns
  \/ \E b \in Listed :
       Publish(b) \/ ReceiveResponse(b) \/ ApplyItem(b) \/ ReceiveComplete(b)
  \/ \E p \in Publishers : Foreign(p)

(***************************************************************************)
(* Brokers that received the POST answer, the subscription delivers while  *)
(* it lasts, and the event loop runs every task. start()'s own steps and   *)
(* other publishers are not assumed to happen.                             *)
(***************************************************************************)
Fairness ==
  \A b \in Listed :
    /\ WF_vars(Publish(b)) /\ WF_vars(ReceiveResponse(b))
    /\ WF_vars(ApplyItem(b)) /\ WF_vars(ReceiveComplete(b))

Spec == Init /\ [][Next]_vars /\ Fairness

-----------------------------------------------------------------------------

\* Once start() has returned, the progress getter reports completion only
\* when every broker the POST named has had its RecoveryComplete handled,
\* although line 86 replaces entries that earlier tasks created.
CompleteMeansAllCompleted ==
  (pc = "started" /\ ProgressComplete) => \A b \in Listed : recv[b] = 2

\* The progress getter reports completion only when every payload item of
\* every broker's RecoveryResponse has been applied by onSystemMessage,
\* although a RecoveryComplete task runs while a RecoveryResponse task waits.
CompleteOnlyAfterAllApplied ==
  (pc = "started" /\ ProgressComplete) => \A b \in Listed : applied[b] = Items[b]

\* Once start() has returned, recovery completes: every broker answers
\* and the getter eventually reports isComplete.
RecoveryCompletes == (pc = "started") ~> (pc = "started" /\ ProgressComplete)

\* Recovery completes after start() has returned, provided no broker's
\* answer ran before the POST returned.
RecoveryCompletesUnlessEarly ==
  (pc = "started" /\ ~early) ~> (pc = "started" /\ ProgressComplete)

=============================================================================
