------------------------------ MODULE OpenQueue ------------------------------
(***************************************************************************)
(* src/app/src/openq.c: the one-slot, latest-wins request queue between    *)
(* the thread that asks for streams and the one worker that opens them.    *)
(* The operators are the functions of openq.c on a queue value; the        *)
(* actions are the calls player_ff.c makes, each under one mutex.  The     *)
(* headstart and the resume point travel with the URL in a request and are *)
(* part of the member of Specs it carries.                                 *)
(***************************************************************************)
EXTENDS Integers

CONSTANTS Specs, NoSpec, Outcomes, NoOutcome,
          SeqMod      \* unsigned sequence numbers wrap at 2^32

ASSUME SeqModAssumption == SeqMod \in Nat /\ SeqMod > 2
ASSUME OutcomesAssumption == Outcomes \subseteq Int /\ 0 \in Outcomes

VARIABLES q,          \* the Openq struct
          job         \* the request handed out by the last openq_take
queueVars == <<q, job>>

Seqs     == 0 .. SeqMod - 1
Kinds    == {"play", "stop"}
NoKind   == "none"
Asks     == ({"play"} \X Specs) \cup {<<"stop", NoSpec>>}
Requests == [seq : Seqs, kind : Kinds \cup {NoKind}, spec : Specs \cup {NoSpec}]
NoRequest == [seq |-> 0, kind |-> NoKind, spec |-> NoSpec]

EmptyQueue ==
  [lastSeq |-> 0, lastKind |-> NoKind, runSeq |-> 0, havePending |-> FALSE,
   pending |-> NoRequest, doneSeq |-> 0, doneKind |-> NoKind, doneRc |-> 0,
   polledSeq |-> 0]

\* Mutant: the counter wraps to 0, which means "none" everywhere.
NextSeqToZero(n) == (n + 1) % SeqMod

\* Mutant: the counter is wider than the numbers it is compared with.
NextSeqNoWrap(n) == n + 1

NextSeq(n) == IF n + 1 = SeqMod THEN 1 ELSE n + 1

\* Mutant: a queued request keeps its place when a newer one arrives.
SubmittedKeepsQueued(queue, k, s) ==
  LET n == NextSeq(queue.lastSeq)
  IN  IF queue.havePending THEN [queue EXCEPT !.lastSeq = n, !.lastKind = k]
      ELSE [queue EXCEPT !.lastSeq = n, !.lastKind = k, !.havePending = TRUE,
                         !.pending = [seq |-> n, kind |-> k, spec |-> s]]

Submitted(queue, k, s) ==
  LET n == NextSeq(queue.lastSeq)
  IN  [queue EXCEPT !.lastSeq = n, !.lastKind = k, !.havePending = TRUE,
                    !.pending = [seq |-> n, kind |-> k, spec |-> s]]

CancelsRunning(queue) == queue.runSeq # 0

Taken(queue) ==
  [queue EXCEPT !.havePending = FALSE, !.runSeq = queue.pending.seq]

Finished(queue, seq, rc) ==
  [queue EXCEPT !.runSeq   = IF @ = seq THEN 0 ELSE @,
                !.doneSeq  = seq,
                !.doneRc   = rc,
                !.doneKind = IF seq = queue.lastSeq THEN queue.lastKind ELSE NoKind]

Busy(queue) == queue.havePending \/ queue.runSeq # 0

Superseded(queue, seq) == seq # queue.lastSeq

\* Mutant: the last result is reported whatever has been asked since.
HasReportOfAny(queue) ==
  /\ queue.doneSeq # 0
  /\ queue.doneSeq # queue.polledSeq
  /\ queue.doneKind = "play"

HasReport(queue) ==
  /\ queue.doneSeq # 0
  /\ queue.doneSeq = queue.lastSeq
  /\ queue.doneSeq # queue.polledSeq
  /\ queue.doneKind = "play"

Polled(queue) == [queue EXCEPT !.polledSeq = queue.doneSeq]

-----------------------------------------------------------------------------
(* The calls, as player_ff.c makes them: one worker, one request at a time. *)

\* A number is never issued while an earlier use of it is still remembered:
\* it would take 2^32 requests in a row with nothing polled in between.
SeqFresh == NextSeq(q.lastSeq) \notin {q.runSeq, q.doneSeq, q.polledSeq}

QueueInit == q = EmptyQueue /\ job = NoRequest

Submit(k, s) == SeqFresh /\ q' = Submitted(q, k, s) /\ UNCHANGED job

Take ==
  /\ q.havePending
  /\ q.runSeq = 0
  /\ q' = Taken(q)
  /\ job' = q.pending

Finish(rc) ==
  /\ q.runSeq # 0
  /\ q' = Finished(q, job.seq, rc)
  /\ UNCHANGED job

Poll == HasReport(q) /\ q' = Polled(q) /\ UNCHANGED job

QueueNext ==
  \/ \E ask \in Asks : Submit(ask[1], ask[2])
  \/ Take
  \/ \E rc \in Outcomes : Finish(rc)
  \/ Poll

QueueSpec == QueueInit /\ [][QueueNext]_queueVars

-----------------------------------------------------------------------------
\* The queue and the executing request hold values of their types.
QueueTypeOK ==
  /\ q \in [lastSeq : Seqs, lastKind : Kinds \cup {NoKind}, runSeq : Seqs,
            havePending : BOOLEAN, pending : Requests, doneSeq : Seqs,
            doneKind : Kinds \cup {NoKind}, doneRc : Outcomes, polledSeq : Seqs]
  /\ job \in Requests

\* What the slot, the running number and the newest number say of each other.
\* The parts a report relies on: nothing newer is queued or executing when the
\* finished number is the newest (the comment on openq_poll), and an idle queue
\* has finished the newest request, so no request is lost.
PendingIsNewest ==
  q.havePending => /\ q.pending.seq = q.lastSeq
                   /\ q.pending.kind = q.lastKind
                   /\ q.lastSeq # q.runSeq
                   /\ q.lastSeq # q.doneSeq
                   /\ q.lastSeq # 0
RunningIsJob ==
  q.runSeq # 0 => /\ job.seq = q.runSeq
                  /\ q.runSeq # q.doneSeq
                  /\ (~q.havePending => q.runSeq = q.lastSeq)
                  /\ (q.runSeq = q.lastSeq => job.kind = q.lastKind)
IdleIsSettled ==
  (~Busy(q) /\ q.lastSeq # 0) => /\ q.doneSeq = q.lastSeq
                                 /\ q.doneKind = q.lastKind
NothingBeforeFirst ==
  q.lastSeq = 0 => q = EmptyQueue
PolledOnlyDone ==
  (q.polledSeq = q.lastSeq /\ q.lastSeq # 0) => q.doneSeq = q.lastSeq
KindOfNewest ==
  q.lastSeq # 0 => q.lastKind \in Kinds

QueueInv ==
  /\ PendingIsNewest
  /\ RunningIsJob
  /\ IdleIsSettled
  /\ NothingBeforeFirst
  /\ PolledOnlyDone
  /\ KindOfNewest

\* A result is handed out only while it is the newest request's and nothing else
\* is queued or executing, and never twice: main's reconnect backoff and its
\* queue advance act on the stream that is on screen (openq_poll).
ReportsOnlyNewest ==
  [][q'.polledSeq # q.polledSeq => /\ q'.polledSeq = q.lastSeq
                                   /\ ~Busy(q)
                                   /\ q.lastKind = "play"]_queueVars

-----------------------------------------------------------------------------
RunsNewest == q.runSeq # 0 /\ q.runSeq = q.lastSeq
Settled    == q.lastSeq # 0 /\ ~Busy(q)

Latest == INSTANCE LatestWins WITH
  kind    <- q.lastKind,
  spec    <- IF q.havePending THEN q.pending.spec
             ELSE IF RunsNewest THEN job.spec ELSE NoSpec,
  phase   <- IF q.havePending THEN "queued"
             ELSE IF RunsNewest THEN "running"
             ELSE IF q.lastSeq = 0 THEN "idle"
             ELSE IF q.polledSeq = q.lastSeq THEN "reported" ELSE "done",
  stale   <- q.runSeq # 0 /\ q.runSeq # q.lastSeq,
  outcome <- IF Settled THEN q.doneRc ELSE NoOutcome

\* The queue keeps every promise of LatestWins: intermediate zaps are dropped
\* and never replayed, a superseded request reports nothing, and the result of
\* the newest play is handed out once (openq.h, "Rules").
ImplementsLatestWins == Latest!Spec
=============================================================================
