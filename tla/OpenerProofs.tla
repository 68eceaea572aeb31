---------------------------- MODULE OpenerProofs ----------------------------
(***************************************************************************)
(* The opener of player_ff.c, for every number of requests and of threads  *)
(* that call into the pipeline: its queue is that of openq.c, the pipeline *)
(* has one owner, an abort reaches the superseded open and nothing else,   *)
(* and what is up when nothing is busy is what was asked for last.         *)
(***************************************************************************)
EXTENDS Opener, TLAPS

\* The queue of openq.c on its own: for every set of requests and of outcomes and every width
\* of the sequence numbers it keeps QueueInv and implements LatestWins.

\* A freshly issued number is a number, is not the "none" number 0, and differs
\* from the one before it (the wrap in openq_submit skips 0).
LEMMA NextSeqFacts ==
  ASSUME NEW n \in Seqs
  PROVE  NextSeq(n) \in Seqs /\ NextSeq(n) # 0 /\ NextSeq(n) # n
BY SeqModAssumption DEF NextSeq, Seqs

\* A request is to play one of Specs or to stop.
LEMMA AskFacts ==
  ASSUME NEW ask \in Asks
  PROVE  ask[1] \in Kinds /\ ask[2] \in Specs \cup {NoSpec}
BY DEF Asks, Kinds

\* Every call of openq.c leaves the queue and the job inside their types.
LEMMA QueueTypeStep ==
  ASSUME QueueTypeOK, [QueueNext]_queueVars
  PROVE  QueueTypeOK'
<1> USE DEF QueueTypeOK
<1>1. ASSUME NEW ask \in Asks, Submit(ask[1], ask[2])
      PROVE  QueueTypeOK'
  <2>1. NextSeq(q.lastSeq) \in Seqs
    BY NextSeqFacts
  <2> QED BY <1>1, <2>1, AskFacts DEF Submit, Submitted, Requests
<1>2. CASE Take
  BY <1>2 DEF Take, Taken, Requests
<1>3. ASSUME NEW outcome \in Outcomes, Finish(outcome)
      PROVE  QueueTypeOK'
  <2>1. 0 \in Seqs
    BY SeqModAssumption DEF Seqs
  <2> QED BY <1>3, <2>1 DEF Finish, Finished, Requests
<1>4. CASE Poll
  BY <1>4 DEF Poll, Polled
<1>5. CASE UNCHANGED queueVars
  BY <1>5 DEF queueVars
<1> QED BY <1>1, <1>2, <1>3, <1>4, <1>5 DEF QueueNext

\* The queue and the executing request always hold values of their types.
THEOREM QueueTypeCorrect == QueueSpec => []QueueTypeOK
<1>1. QueueInit => QueueTypeOK
  BY SeqModAssumption, OutcomesAssumption
  DEF QueueInit, QueueTypeOK, EmptyQueue, NoRequest, Requests, Seqs
<1> QED BY <1>1, QueueTypeStep, PTL DEF QueueSpec

\* One call of openq.c preserves what the queue's fields say of each other.
LEMMA QueueInvStep ==
  ASSUME QueueTypeOK, QueueInv, [QueueNext]_queueVars
  PROVE  QueueInv'
<1> USE DEF QueueInv, PendingIsNewest, RunningIsJob, IdleIsSettled,
            NothingBeforeFirst, PolledOnlyDone, KindOfNewest, QueueTypeOK, Busy
<1>1. ASSUME NEW ask \in Asks, Submit(ask[1], ask[2])
      PROVE  QueueInv'
  <2>1. NextSeq(q.lastSeq) # 0
    BY NextSeqFacts
  <2> QED BY <1>1, <2>1, AskFacts DEF Submit, Submitted, SeqFresh
<1>2. CASE Take
  BY <1>2 DEF Take, Taken
<1>3. ASSUME NEW outcome \in Outcomes, Finish(outcome)
      PROVE  QueueInv'
  BY <1>3 DEF Finish, Finished
<1>4. CASE Poll
  BY <1>4 DEF Poll, Polled, HasReport
<1>5. CASE UNCHANGED queueVars
  BY <1>5 DEF queueVars
<1> QED BY <1>1, <1>2, <1>3, <1>4, <1>5 DEF QueueNext

\* No request is lost: an idle queue has finished the newest one, and a request
\* that waits or runs is known by its own number (QueueInv, checked by the run).
THEOREM QueueInvariant == QueueSpec => []QueueInv
<1>1. QueueInit => QueueInv
  BY DEF QueueInit, QueueInv, PendingIsNewest, RunningIsJob, IdleIsSettled,
         NothingBeforeFirst, PolledOnlyDone, KindOfNewest, EmptyQueue, Busy
<1> QED BY <1>1, QueueInvStep, QueueTypeCorrect, PTL DEF QueueSpec

\* Reports are of the newest request, finished and unchallenged, and given once.
THEOREM ReportsNewest == QueueSpec => ReportsOnlyNewest
<1> DEFINE Report == q'.polledSeq # q.polledSeq => /\ q'.polledSeq = q.lastSeq
                                                   /\ ~Busy(q)
                                                   /\ q.lastKind = "play"
<1>1. ASSUME QueueTypeOK, QueueInv, [QueueNext]_queueVars
      PROVE  [Report]_queueVars
  <2>1. CASE Poll
    BY <1>1, <2>1 DEF Poll, Polled, HasReport, QueueTypeOK, QueueInv,
       PendingIsNewest, RunningIsJob, IdleIsSettled, Busy
  <2>2. CASE QueueNext /\ ~Poll
    <3>1. q'.polledSeq = q.polledSeq
      BY <1>1, <2>2 DEF QueueNext, Submit, Submitted, Take, Taken, Finish,
         Finished, QueueTypeOK
    <3> QED BY <3>1
  <2>3. CASE UNCHANGED queueVars
    BY <2>3
  <2> QED BY <1>1, <2>1, <2>2, <2>3
<1> QED BY <1>1, QueueTypeCorrect, QueueInvariant, PTL DEF QueueSpec, ReportsOnlyNewest

-----------------------------------------------------------------------------
(* Refinement: one lemma per call of openq.c, naming the abstract step.      *)

LEMMA SubmitAsks ==
  ASSUME QueueTypeOK, QueueInv, NEW ask \in Asks, Submit(ask[1], ask[2])
  PROVE  Latest!Ask(ask[1], ask[2])
<1>1. NextSeq(q.lastSeq) # 0 /\ NextSeq(q.lastSeq) # q.runSeq
  BY NextSeqFacts DEF Submit, SeqFresh, QueueTypeOK
<1> QED BY <1>1 DEF Submit, Submitted, QueueTypeOK, QueueInv, PendingIsNewest,
             RunningIsJob, Latest!Ask, RunsNewest, Settled, Busy

LEMMA TakeBegins ==
  ASSUME QueueTypeOK, QueueInv, Take
  PROVE  Latest!Begin
BY DEF Take, Taken, QueueTypeOK, QueueInv, PendingIsNewest, Latest!Begin,
       RunsNewest, Settled, Busy

LEMMA FinishCompletesOrAbandons ==
  ASSUME QueueTypeOK, QueueInv, NEW outcome \in Outcomes, Finish(outcome)
  PROVE  Latest!Complete(outcome) \/ Latest!Abandon
<1> USE DEF Finish, Finished, QueueTypeOK, QueueInv, PendingIsNewest,
            RunningIsJob, PolledOnlyDone, RunsNewest, Settled, Busy
<1>1. CASE q.runSeq = q.lastSeq
  BY <1>1 DEF Latest!Complete
<1>2. CASE q.runSeq # q.lastSeq
  BY <1>2 DEF Latest!Abandon
<1> QED BY <1>1, <1>2

LEMMA PollReports ==
  ASSUME QueueTypeOK, QueueInv, Poll
  PROVE  Latest!Report
<1>1. ~q.havePending /\ q.runSeq = 0 /\ q.lastSeq # 0 /\ q.lastKind = "play"
  BY DEF Poll, HasReport, QueueInv, PendingIsNewest, RunningIsJob,
         IdleIsSettled, Busy
<1>2. q' = [q EXCEPT !.polledSeq = q.lastSeq] /\ job' = job
  BY DEF Poll, Polled, HasReport
<1>3. /\ q'.havePending = q.havePending /\ q'.runSeq = q.runSeq
      /\ q'.lastSeq = q.lastSeq /\ q'.lastKind = q.lastKind
      /\ q'.doneRc = q.doneRc /\ q'.polledSeq = q.lastSeq
  BY <1>2 DEF QueueTypeOK
<1>4. q.polledSeq # q.lastSeq
  BY DEF Poll, HasReport
<1> QED BY <1>1, <1>3, <1>4 DEF Latest!Report, RunsNewest, Settled, Busy

\* openq.c implements LatestWins for every width of the sequence numbers.
THEOREM QueueRefinement == QueueSpec => ImplementsLatestWins
<1>1. QueueInit => Latest!Init
  BY DEF QueueInit, EmptyQueue, NoRequest, NoKind, Latest!Init, RunsNewest,
         Settled, Busy
<1>2. ASSUME QueueTypeOK, QueueInv, [QueueNext]_queueVars
      PROVE  [Latest!Next]_(Latest!vars)
  <2>1. CASE QueueNext
    BY <2>1, <1>2, SubmitAsks, TakeBegins, FinishCompletesOrAbandons, PollReports
    DEF QueueNext, Latest!Next, Asks
  <2>2. CASE UNCHANGED queueVars
    BY <2>2 DEF queueVars, Latest!vars, RunsNewest, Settled, Busy
  <2> QED BY <1>2, <2>1, <2>2
<1> QED BY <1>1, <1>2, QueueTypeCorrect, QueueInvariant, PTL
       DEF QueueSpec, ImplementsLatestWins, Latest!Spec

-----------------------------------------------------------------------------
\* The opener, which calls the queue from three threads.

PlayStages == {"prepare"} \cup PageStages \cup OpenStages
EarlyStages == {"prepare"} \cup PageStages
                 \cup {"source", "sourceWindow", "hlsClear", "hlsCheck", "httpClear", "connect"}
BusyStages == RebuildStages \cup {"guard", "done"}
SubmitStages == {"publish", "publishBusy", "supersede", "abortSignal", "wake"}

\* Which thread can be where.
StageInv ==
  /\ stage \in {"born", "wait", "loop"} => life.worker = "up"
  /\ stage = "take" => life.worker # "up"
  /\ life.worker # "up" /\ stage # "off" => main \in {"sync", "final"}
  /\ life.exited => life.worker # "new" /\ (life.worker = "up" => stage = "off")
  /\ life.leaving => main \notin {"frame", "sync"}
  /\ life.leaving => life.worker = "up" \/ main \in {"final", "off"}
  /\ main = "drain" => life.leaving
  /\ main = "final" => stage \in RebuildStages \cup {"guard"}

\* What a teardown is for.
GoalInv ==
  /\ Rebuilding => (goal = "final" <=> main = "final")
  /\ stage = "begin" => goal = "none"
  /\ stage \in PlayStages => goal = "play"
  /\ Rebuilding /\ goal = "play" => job.kind = "play"

\* Who holds the pipeline guard, and g_opMtx.
OwnerInv ==
  /\ Rebuilding => pipe = Executor
  /\ \A t \in Callers : call[t].at # "out" => pipe = t
  /\ call[Main].at # "out" => main = "frame"
LockInv ==
  /\ stage = "loop" => opMtx = Worker
  /\ life.worker = "up" /\ main \in SubmitStages => opMtx = Main

\* The numbers of the requests do not wrap, and the lock-free mirror is behind the
\* queue only while a submit is under way.
BoundInv ==
  /\ q.lastSeq <= IF life.leaving THEN MaxRequests + 1 ELSE MaxRequests
  /\ q.runSeq <= q.lastSeq /\ q.doneSeq <= q.lastSeq /\ q.polledSeq <= q.lastSeq
MirrorInv ==
  /\ q.runSeq # 0 <=> stage \in BusyStages /\ main # "final"
  /\ mirror.run = q.runSeq
  /\ q.runSeq # 0 => mirror.busy
  /\ main \in {"publish", "publishBusy", "supersede"} => q.havePending
  /\ main # "publish" => mirror.latest = q.lastSeq /\ mirror.kind = q.lastKind
  /\ main \notin {"publish", "publishBusy"} => mirror.busy = Busy(q)

\* What is played was asked for.
SpecInv ==
  /\ q.havePending /\ q.pending.kind = "play" => q.pending.spec \in Specs
  /\ q.runSeq # 0 /\ job.kind = "play" => job.spec \in Specs
  /\ q.runSeq # 0 /\ ~q.havePending => job = q.pending
  /\ stage \in OpenStages \ {"source"} => stream.spec = job.spec
  /\ stream.built # 0 => stream.spec \in Specs

\* Nothing is armed on, or runs in, a pipeline that is being built.
ArmedInv ==
  /\ ArmedOnOwnStream
  /\ stage \in PlayStages => /\ stream.built = 0 /\ ~stream.decoding
                             /\ stream.seek \cup stream.pause \cup stream.restart = {}
  /\ \A t \in Callers : call[t].at = "act" => call[t].saw = stream.built
CleanInv ==
  /\ stage = "leave" /\ goal = "final" => stream.built = 0 /\ ~stream.decoding /\ ~net.mutex
  /\ ShutdownIsClean

\* Which window is open at which stage.
AsegStages == {"fetchClear", "fetchCheck", "pageFetch", "pageClose"}
HlsStages == {"hlsClear", "hlsCheck", "connect", "sourceClose"}
HttpStages == {"httpClear", "connect", "sourceClose", "probe", "reading", "probed", "probeClose"}
WindowInv ==
  /\ net.window = "aseg" => \/ stage \in AsegStages
                            \/ Fetching("hls", HlsStages)
  /\ net.window = "httpsrc" => Fetching("http", HttpStages \cup {"teardown"})
  /\ stage \in AsegStages \/ Fetching("hls", HlsStages) => net.window = "aseg"
  /\ Fetching("http", HttpStages) => net.window = "httpsrc"
  /\ stage = "hlsClear" \/ stage = "hlsCheck" => net.kind = "hls"
  /\ stage = "httpClear" => net.kind = "http"
  /\ stage = "sourceClose" => net.kind # "local"
  /\ stage \in EarlyStages => ~net.mutex
  /\ main = "abortSignal" => net.mutex /\ net.window = "httpsrc"

\* What is up is what the newest request asked for, or a newer one waits.
UpToDate ==
  /\ stream.built \in {0, q.lastSeq}
  /\ stream.built # 0 => stream.spec = q.pending.spec
  /\ q.lastKind = "stop" => stream.built = 0 /\ ~stream.decoding /\ ~net.mutex
SettledInv ==
  /\ ~q.havePending /\ main \notin {"final", "off"} /\ stage \notin RebuildStages \cup {"guard"}
       => UpToDate
  /\ ~q.havePending /\ main # "final" /\ stage = "leave" => UpToDate

\* An abort is lifted before the fetch it could stop.
AbortInv ==
  ~Cancelled =>
    /\ stage \in {"fetchCheck", "pageFetch"} => ~net.asegAbort
    /\ Fetching("hls", OpenStages \ {"source", "sourceWindow", "hlsClear"}) => ~net.asegAbort
    /\ Fetching("http", OpenStages \ {"source", "sourceWindow", "httpClear"}) => ~net.httpAbort

\* The failure /status shows is that of an older request until this one has failed.
ErrorInv ==
  /\ error <= q.lastSeq
  /\ q.havePending => error < q.lastSeq
  /\ q.runSeq # 0 /\ error = q.runSeq => stage \in {"leave", "done"} /\ rc # 0

ControlInv == StageInv /\ GoalInv /\ OwnerInv /\ LockInv /\ BoundInv /\ MirrorInv
StreamInv == SpecInv /\ ArmedInv /\ CleanInv /\ SettledInv /\ ErrorInv
NetInv == WindowInv /\ AbortInv /\ SupersededIsCut
OpenerInv == TypeOK /\ QueueInv /\ ControlInv /\ StreamInv /\ NetInv

MirrorTypes == [run : Seqs, latest : Seqs, kind : Kinds \cup {NoKind}, busy : BOOLEAN]
LifeTypes == [worker : {"new", "up", "sync"}, signalled : BOOLEAN, leaving : BOOLEAN,
              quit : BOOLEAN, exited : BOOLEAN]
NetTypes == [kind : {"local", "hls", "http"}, window : {"none", "httpsrc", "aseg"},
             httpAbort : BOOLEAN, asegAbort : BOOLEAN, mutex : BOOLEAN]
StreamTypes == [built : Seqs, spec : Specs \cup {NoSpec}, active : BOOLEAN, decoding : BOOLEAN,
                eof : BOOLEAN, seek : SUBSET Seqs, pause : SUBSET Seqs, restart : SUBSET Seqs]
CallTypes == [Callers -> [at : {"out", "in", "act", "signal", "leave"}, op : CallOps, saw : Seqs]]

-----------------------------------------------------------------------------
\* The threads are different from each other and from nobody.
LEMMA ThreadFacts ==
  /\ Main \in Callers /\ Worker \notin Callers /\ NoOne \notin Callers
  /\ Main # Worker /\ Main # NoOne /\ Worker # NoOne
BY ThreadsAssumption DEF Callers

\* The numbers that a request, the queue and the open in progress can have.
LEMMA NumberFacts ==
  ASSUME QueueTypeOK
  PROVE  /\ 0 \in Seqs /\ Seqs \subseteq Nat
         /\ job.seq \in Seqs /\ job.kind \in {"play", "stop", "none"}
         /\ job.spec \in Specs \cup {NoSpec}
         /\ q.lastSeq \in Seqs /\ q.runSeq \in Seqs /\ q.doneSeq \in Seqs
         /\ q.polledSeq \in Seqs /\ q.pending.seq \in Seqs /\ q.lastKind \in Kinds \cup {NoKind}
         /\ Busy(q) \in BOOLEAN /\ Superseded(q, job.seq) \in BOOLEAN
BY SeqModAssumption DEF QueueTypeOK, Requests, Kinds, NoKind, Seqs, Busy, Superseded

USE ThreadFacts
    DEF OpenerInv, ControlInv, StreamInv, NetInv, TypeOK, requestVars, NoStream,
        Executor, Cancelled, OpLockFree, MainIdle, CancelsRunning,
        SetWindow, Quiet, Bail, Fail, DecodeStep,
        Rebuilding, RebuildStages, PageStages, OpenStages, PlayStages, EarlyStages, IdleStages,
        BusyStages, SubmitStages, MainStates, AsegStages, HlsStages, HttpStages

-----------------------------------------------------------------------------
(* The queue of the opener is that of openq.c.                             *)

\* A number that is given to a request is new: the numbers do not wrap here.
LEMMA SubmitFacts ==
  ASSUME OpenerInv, NEW k \in Kinds, NEW s \in Specs \cup {NoSpec}, OpenSubmit(k, s)
  PROVE  /\ SeqFresh /\ OpLockFree /\ q.lastSeq <= MaxRequests
         /\ main = "frame" /\ ~life.leaving /\ call[Main].at = "out" /\ main' = "publish"
         /\ q'.lastSeq = q.lastSeq + 1 /\ q'.lastKind = k /\ q'.havePending
         /\ q'.pending = [seq |-> q.lastSeq + 1, kind |-> k, spec |-> s]
         /\ q'.runSeq = q.runSeq /\ q'.doneSeq = q.doneSeq /\ q'.polledSeq = q.polledSeq
<1>1. /\ main = "frame" /\ call[Main].at = "out" /\ main' = "publish"
      /\ OpLockFree /\ q' = Submitted(q, k, s)
  BY DEF OpenSubmit
<1>2. ~life.leaving /\ q.lastSeq <= MaxRequests
  BY <1>1 DEF StageInv, BoundInv
<1>3. NextSeq(q.lastSeq) = q.lastSeq + 1
  BY <1>2, NumberFacts, BoundAssumption, SeqModAssumption DEF NextSeq
<1>4. SeqFresh
  BY <1>3, NumberFacts DEF SeqFresh, BoundInv, QueueTypeOK, Seqs
<1> QED BY <1>1, <1>2, <1>3, <1>4 DEF Submitted, QueueTypeOK

\* Main takes a report of the queue, the thread that executes takes and finishes
\* requests of the queue, and nothing else touches it.
LEMMA AskSubmits ==
  ASSUME OpenerInv, NEW ask \in Asks, Ask(ask[1], ask[2])
  PROVE  QueueNext
<1>1. ask[1] \in Kinds /\ ask[2] \in Specs \cup {NoSpec}
  BY AskFacts
<1>2. OpenSubmit(ask[1], ask[2]) /\ UNCHANGED job
  BY DEF Ask
<1> QED BY <1>1, <1>2, SubmitFacts DEF QueueNext, Submit, OpenSubmit

LEMMA RestartSubmits ==
  ASSUME OpenerInv, RenderRestart
  PROVE  /\ stream.spec \in Specs /\ "play" \in Kinds /\ OpenSubmit("play", stream.spec)
         /\ QueueNext
<1>1. stream.spec \in Specs /\ OpenSubmit("play", stream.spec) /\ UNCHANGED job
  BY DEF RenderRestart, SpecInv
<1>2. <<"play", stream.spec>> \in Asks /\ "play" \in Kinds
  BY <1>1 DEF Asks, Kinds
<1>3. Submit("play", stream.spec)
  BY <1>1, <1>2, SubmitFacts DEF Submit, OpenSubmit
<1> QED BY <1>1, <1>2, <1>3 DEF QueueNext

LEMMA ShutdownSubmits ==
  ASSUME OpenerInv, ShutdownSubmit
  PROVE  "stop" \in Kinds /\ OpenSubmit("stop", NoSpec) /\ QueueNext
<1>1. OpenSubmit("stop", NoSpec) /\ UNCHANGED job
  BY DEF ShutdownSubmit
<1>2. <<"stop", NoSpec>> \in Asks /\ "stop" \in Kinds
  BY DEF Asks, Kinds
<1>3. Submit("stop", NoSpec)
  BY <1>1, <1>2, SubmitFacts DEF Submit, OpenSubmit
<1> QED BY <1>1, <1>2, <1>3 DEF QueueNext

LEMMA PollPolls == ASSUME PollOpen PROVE QueueNext
BY DEF PollOpen, QueueNext, Poll

LEMMA TakeTakes == ASSUME OpenerInv, TakeJob PROVE Take
BY DEF TakeJob, Take, MirrorInv

LEMMA DoneFinishes ==
  ASSUME OpenerInv, JobDone
  PROVE  q.runSeq # 0 /\ job.seq = q.runSeq /\ QueueNext
<1>1. q.runSeq # 0 /\ job.seq = q.runSeq
  BY DEF JobDone, MirrorInv, StageInv, QueueInv, RunningIsJob
<1>2. rc \in Outcomes
  BY OutcomesOfOpens
<1>3. Finish(rc)
  BY <1>1 DEF JobDone, Finish
<1> QED BY <1>1, <1>2, <1>3 DEF QueueNext

LEMMA OthersLeaveQueue ==
  ASSUME Next,
         ~ \E ask \in Asks : Ask(ask[1], ask[2]),
         ~RenderRestart, ~ShutdownSubmit, ~PollOpen, ~TakeJob, ~JobDone
  PROVE  UNCHANGED queueVars
<1>1. CASE Deciding \/ Submitting \/ DrainDone \/ DrainTimeout \/ EnterGuard
  BY <1>1 DEF Deciding, Submitting, DrainDone, DrainTimeout, EnterGuard, ShutdownSync,
     RenderEof, PublishLatest, PublishBusy, AbortRunning, AbortSignal, WakeWorker, queueVars
<1>2. CASE Executing
  BY <1>2 DEF Executing, WorkerLock, WorkerWait, WorkerQuit, BeginJob, LeaveGuard,
     TeardownWindow, StopDecode, SignalDecode, CloseSource, Prepare, ResolvePage, PageVerdict,
     ChooseSource, OpenSource, Connect, SourceClose, SourceVerdict, ProbeWindow, ProbeRead,
     ProbeReadDone, Probed, ProbeClose, ProbeVerdict, StartStream, ResumeClear, ResumeCheck,
     queueVars
<1>3. CASE Decoding \/ DecodeExit
  BY <1>3 DEF Decoding, ApplySeek, DecodeRestart, DecodeEof, NextSegment, DecodeExit, queueVars
<1>4. ASSUME NEW t \in Callers, Calling(t) \/ \E op \in OpsOf(t) : EnterCall(t, op)
      PROVE  UNCHANGED queueVars
  BY <1>4 DEF Calling, CheckCall, ActCall, SignalCall, LeaveCall, EnterCall, queueVars
<1>5. CASE Terminated
  BY <1>5 DEF Terminated, vars, queueVars
<1> QED BY <1>1, <1>2, <1>3, <1>4, <1>5 DEF Next

LEMMA QueueStep ==
  ASSUME OpenerInv, [Next]_vars
  PROVE  [QueueNext]_queueVars
<1>1. CASE Next
  BY <1>1, AskSubmits, RestartSubmits, ShutdownSubmits, PollPolls, TakeTakes, DoneFinishes,
     OthersLeaveQueue DEF QueueNext
<1>2. CASE UNCHANGED vars
  BY <1>2 DEF vars, queueVars
<1> QED BY <1>1, <1>2

-----------------------------------------------------------------------------
(* Each step keeps the invariant: main.                                    *)

\* A submit comes from a main thread that is between two frames, and its number is new.
LEMMA AskKeeps ==
  ASSUME OpenerInv, QueueTypeOK', QueueInv', NEW ask \in Asks, Ask(ask[1], ask[2])
  PROVE  OpenerInv'
<1>1. /\ ask[1] \in Kinds /\ ask[2] \in Specs \cup {NoSpec} /\ OpenSubmit(ask[1], ask[2])
      /\ ask[1] = "play" => ask[2] \in Specs
  BY AskFacts DEF Ask, Asks
<1>2. /\ OpLockFree /\ q.lastSeq <= MaxRequests /\ main = "frame" /\ ~life.leaving
      /\ call[Main].at = "out" /\ main' = "publish" /\ q'.lastSeq = q.lastSeq + 1
      /\ q'.lastKind = ask[1] /\ q'.havePending
      /\ q'.pending = [seq |-> q.lastSeq + 1, kind |-> ask[1], spec |-> ask[2]]
      /\ q'.runSeq = q.runSeq /\ q'.doneSeq = q.doneSeq /\ q'.polledSeq = q.polledSeq
  BY <1>1, SubmitFacts
<1>3. life' \in LifeTypes
  BY NumberFacts DEF Ask, StartOpener, LifeTypes
<1>4. TypeOK'
  BY <1>3, <1>2 DEF Ask, StartOpener, LifeTypes
<1>5. ControlInv'
  BY <1>2, NumberFacts, BoundAssumption
  DEF Ask, StartOpener, Busy, StageInv, GoalInv, OwnerInv, LockInv, BoundInv, MirrorInv,
      QueueInv, RunningIsJob, PendingIsNewest
<1>6. StreamInv'
  BY <1>2, NumberFacts, <1>1
  DEF Ask, StartOpener, Busy, StageInv, GoalInv, OwnerInv, LockInv, BoundInv, MirrorInv,
      SpecInv, ArmedInv, CleanInv, SettledInv, ErrorInv, ArmedOnOwnStream, ShutdownIsClean,
      UpToDate, QueueInv, RunningIsJob, PendingIsNewest
<1>7. NetInv'
  BY <1>2, NumberFacts
  DEF Ask, StartOpener, StageInv, GoalInv, OwnerInv, LockInv, BoundInv, MirrorInv, SpecInv,
      ArmedInv, CleanInv, SettledInv, ErrorInv, ArmedOnOwnStream, ShutdownIsClean, UpToDate,
      WindowInv, AbortInv, SupersededIsCut, Fetching, QueueInv, RunningIsJob, PendingIsNewest
<1> QED BY <1>4, <1>5, <1>6, <1>7

LEMMA RenderRestartKeeps ==
  ASSUME OpenerInv, QueueTypeOK', QueueInv', RenderRestart
  PROVE  OpenerInv'
<1>1. /\ stream.spec \in Specs /\ "play" \in Kinds /\ OpenSubmit("play", stream.spec)
  BY RestartSubmits
<1>2. /\ OpLockFree /\ q.lastSeq <= MaxRequests /\ main = "frame" /\ ~life.leaving
      /\ call[Main].at = "out" /\ main' = "publish" /\ q'.lastSeq = q.lastSeq + 1
      /\ q'.lastKind = "play" /\ q'.havePending
      /\ q'.pending = [seq |-> q.lastSeq + 1, kind |-> "play", spec |-> stream.spec]
      /\ q'.runSeq = q.runSeq /\ q'.doneSeq = q.doneSeq /\ q'.polledSeq = q.polledSeq
  BY <1>1, SubmitFacts
<1>3. stream' \in StreamTypes
  BY NumberFacts DEF RenderRestart, StartOpener, StreamTypes
<1>4. TypeOK'
  BY <1>3, <1>2 DEF RenderRestart, StartOpener, StreamTypes
<1>5. ControlInv'
  BY <1>2, NumberFacts, BoundAssumption
  DEF RenderRestart, StartOpener, Busy, StageInv, GoalInv, OwnerInv, LockInv, BoundInv,
      MirrorInv, QueueInv, RunningIsJob, PendingIsNewest
<1>6. StreamInv'
  BY <1>2, NumberFacts, <1>1
  DEF RenderRestart, StartOpener, Busy, StageInv, GoalInv, OwnerInv, LockInv, BoundInv,
      MirrorInv, SpecInv, ArmedInv, CleanInv, SettledInv, ErrorInv, ArmedOnOwnStream,
      ShutdownIsClean, UpToDate, QueueInv, RunningIsJob, PendingIsNewest
<1>7. NetInv'
  BY <1>2, NumberFacts
  DEF RenderRestart, StartOpener, StageInv, GoalInv, OwnerInv, LockInv, BoundInv, MirrorInv,
      SpecInv, ArmedInv, CleanInv, SettledInv, ErrorInv, ArmedOnOwnStream, ShutdownIsClean,
      UpToDate, WindowInv, AbortInv, SupersededIsCut, Fetching, QueueInv, RunningIsJob,
      PendingIsNewest
<1> QED BY <1>4, <1>5, <1>6, <1>7

LEMMA ShutdownSubmitKeeps ==
  ASSUME OpenerInv, QueueTypeOK', QueueInv', ShutdownSubmit
  PROVE  OpenerInv'
<1>1. "stop" \in Kinds /\ OpenSubmit("stop", NoSpec)
  BY ShutdownSubmits
<1>2. /\ OpLockFree /\ q.lastSeq <= MaxRequests /\ main = "frame" /\ ~life.leaving
      /\ call[Main].at = "out" /\ main' = "publish" /\ q'.lastSeq = q.lastSeq + 1
      /\ q'.lastKind = "stop" /\ q'.havePending
      /\ q'.pending = [seq |-> q.lastSeq + 1, kind |-> "stop", spec |-> NoSpec]
      /\ q'.runSeq = q.runSeq /\ q'.doneSeq = q.doneSeq /\ q'.polledSeq = q.polledSeq
  BY <1>1, SubmitFacts
<1>3. life' \in LifeTypes
  BY NumberFacts DEF ShutdownSubmit, StartOpener, LifeTypes
<1>4. TypeOK'
  BY <1>3, <1>2 DEF ShutdownSubmit, StartOpener, LifeTypes
<1>5. ControlInv'
  BY <1>2, NumberFacts, BoundAssumption
  DEF ShutdownSubmit, StartOpener, Busy, StageInv, GoalInv, OwnerInv, LockInv, BoundInv,
      MirrorInv, QueueInv, RunningIsJob, PendingIsNewest
<1>6. StreamInv'
  BY <1>2, NumberFacts
  DEF ShutdownSubmit, StartOpener, Busy, StageInv, GoalInv, OwnerInv, LockInv, BoundInv,
      MirrorInv, SpecInv, ArmedInv, CleanInv, SettledInv, ErrorInv, ArmedOnOwnStream,
      ShutdownIsClean, UpToDate, QueueInv, RunningIsJob, PendingIsNewest
<1>7. NetInv'
  BY <1>2, NumberFacts
  DEF ShutdownSubmit, StartOpener, StageInv, GoalInv, OwnerInv, LockInv, BoundInv, MirrorInv,
      SpecInv, ArmedInv, CleanInv, SettledInv, ErrorInv, ArmedOnOwnStream, ShutdownIsClean,
      UpToDate, WindowInv, AbortInv, SupersededIsCut, Fetching, QueueInv, RunningIsJob,
      PendingIsNewest
<1> QED BY <1>4, <1>5, <1>6, <1>7

\* The submit tells which request is the newest, then whether one is busy.
LEMMA PublishLatestKeeps ==
  ASSUME OpenerInv, QueueTypeOK', QueueInv', PublishLatest
  PROVE  OpenerInv'
<1>1. mirror' \in MirrorTypes
  BY NumberFacts DEF PublishLatest, MirrorTypes
<1>2. TypeOK'
  BY <1>1, NumberFacts DEF PublishLatest, MirrorTypes
<1>3. ControlInv'
  BY NumberFacts
  DEF PublishLatest, Busy, StageInv, GoalInv, OwnerInv, LockInv, BoundInv, MirrorInv, QueueInv,
      RunningIsJob, PendingIsNewest
<1>4. StreamInv'
  BY NumberFacts
  DEF PublishLatest, Busy, StageInv, GoalInv, OwnerInv, LockInv, BoundInv, MirrorInv, SpecInv,
      ArmedInv, CleanInv, SettledInv, ErrorInv, ArmedOnOwnStream, ShutdownIsClean, UpToDate,
      QueueInv, RunningIsJob, PendingIsNewest
<1>5. NetInv'
  BY NumberFacts
  DEF PublishLatest, Busy, StageInv, GoalInv, OwnerInv, LockInv, BoundInv, MirrorInv, SpecInv,
      ArmedInv, CleanInv, SettledInv, ErrorInv, ArmedOnOwnStream, ShutdownIsClean, UpToDate,
      WindowInv, AbortInv, SupersededIsCut, Fetching, QueueInv, RunningIsJob, PendingIsNewest
<1> QED BY <1>2, <1>3, <1>4, <1>5

LEMMA PublishBusyKeeps ==
  ASSUME OpenerInv, QueueTypeOK', QueueInv', PublishBusy
  PROVE  OpenerInv'
<1>1. mirror' \in MirrorTypes
  BY NumberFacts DEF PublishBusy, MirrorTypes
<1>2. TypeOK'
  BY <1>1, NumberFacts DEF PublishBusy, MirrorTypes
<1>3. ControlInv'
  BY NumberFacts
  DEF PublishBusy, Busy, StageInv, GoalInv, OwnerInv, LockInv, BoundInv, MirrorInv, QueueInv,
      RunningIsJob, PendingIsNewest
<1>4. StreamInv'
  BY NumberFacts
  DEF PublishBusy, Busy, StageInv, GoalInv, OwnerInv, LockInv, BoundInv, MirrorInv, SpecInv,
      ArmedInv, CleanInv, SettledInv, ErrorInv, ArmedOnOwnStream, ShutdownIsClean, UpToDate,
      QueueInv, RunningIsJob, PendingIsNewest
<1>5. NetInv'
  BY NumberFacts
  DEF PublishBusy, Busy, StageInv, GoalInv, OwnerInv, LockInv, BoundInv, MirrorInv, SpecInv,
      ArmedInv, CleanInv, SettledInv, ErrorInv, ArmedOnOwnStream, ShutdownIsClean, UpToDate,
      WindowInv, AbortInv, SupersededIsCut, Fetching, QueueInv, RunningIsJob, PendingIsNewest
<1> QED BY <1>2, <1>3, <1>4, <1>5

\* The abort goes where the window is open, and there is one only for a request at work.
LEMMA AbortRunningKeeps ==
  ASSUME OpenerInv, QueueTypeOK', QueueInv', AbortRunning
  PROVE  OpenerInv'
<1>1. net' \in NetTypes
  BY NumberFacts DEF AbortRunning, NetTypes, StreamTypes
<1>2. TypeOK'
  BY <1>1, NumberFacts DEF AbortRunning, NetTypes
<1>3. ControlInv'
  BY NumberFacts
  DEF AbortRunning, Busy, StageInv, GoalInv, OwnerInv, LockInv, BoundInv, MirrorInv, QueueInv,
      RunningIsJob, PendingIsNewest
<1>4. StreamInv'
  BY NumberFacts
  DEF AbortRunning, Busy, StageInv, GoalInv, OwnerInv, LockInv, BoundInv, MirrorInv, SpecInv,
      ArmedInv, CleanInv, SettledInv, ErrorInv, ArmedOnOwnStream, ShutdownIsClean, UpToDate,
      QueueInv, RunningIsJob, PendingIsNewest
<1>5. NetInv'
  BY NumberFacts
  DEF AbortRunning, Busy, StageInv, GoalInv, OwnerInv, LockInv, BoundInv, MirrorInv, SpecInv,
      ArmedInv, CleanInv, SettledInv, ErrorInv, ArmedOnOwnStream, ShutdownIsClean, UpToDate,
      WindowInv, AbortInv, SupersededIsCut, Fetching, QueueInv, RunningIsJob, PendingIsNewest
<1> QED BY <1>2, <1>3, <1>4, <1>5

LEMMA AbortSignalKeeps ==
  ASSUME OpenerInv, QueueTypeOK', QueueInv', AbortSignal
  PROVE  OpenerInv'
<1>1. TypeOK'
  BY NumberFacts DEF AbortSignal
<1>2. ControlInv'
  BY NumberFacts
  DEF AbortSignal, Busy, StageInv, GoalInv, OwnerInv, LockInv, BoundInv, MirrorInv, QueueInv,
      RunningIsJob, PendingIsNewest
<1>3. StreamInv'
  BY NumberFacts
  DEF AbortSignal, Busy, StageInv, GoalInv, OwnerInv, LockInv, BoundInv, MirrorInv, SpecInv,
      ArmedInv, CleanInv, SettledInv, ErrorInv, ArmedOnOwnStream, ShutdownIsClean, UpToDate,
      QueueInv, RunningIsJob, PendingIsNewest
<1>4. NetInv'
  BY NumberFacts
  DEF AbortSignal, Busy, StageInv, GoalInv, OwnerInv, LockInv, BoundInv, MirrorInv, SpecInv,
      ArmedInv, CleanInv, SettledInv, ErrorInv, ArmedOnOwnStream, ShutdownIsClean, UpToDate,
      WindowInv, AbortInv, SupersededIsCut, Fetching, QueueInv, RunningIsJob, PendingIsNewest
<1> QED BY <1>1, <1>2, <1>3, <1>4

\* Main lets go of the lock; without a worker it goes on to carry the request out.
LEMMA WakeWorkerKeeps ==
  ASSUME OpenerInv, QueueTypeOK', QueueInv', WakeWorker
  PROVE  OpenerInv'
<1>1. life' \in LifeTypes
  <2>1. life' = [life EXCEPT !.signalled = @ \/ stage = "wait", !.quit = @ \/ life.leaving]
    BY DEF WakeWorker
  <2>2. (life.signalled \/ stage = "wait") \in BOOLEAN /\ (life.quit \/ life.leaving) \in BOOLEAN
    OBVIOUS
  <2> QED BY <2>1, <2>2 DEF LifeTypes
<1>2. TypeOK'
  BY <1>1, NumberFacts DEF WakeWorker, LifeTypes
<1>3. ControlInv'
  BY NumberFacts
  DEF WakeWorker, Busy, StageInv, GoalInv, OwnerInv, LockInv, BoundInv, MirrorInv, QueueInv,
      RunningIsJob, PendingIsNewest
<1>4. StreamInv'
  BY NumberFacts
  DEF WakeWorker, Busy, StageInv, GoalInv, OwnerInv, LockInv, BoundInv, MirrorInv, SpecInv,
      ArmedInv, CleanInv, SettledInv, ErrorInv, ArmedOnOwnStream, ShutdownIsClean, UpToDate,
      QueueInv, RunningIsJob, PendingIsNewest
<1>5. NetInv'
  BY NumberFacts
  DEF WakeWorker, Busy, StageInv, GoalInv, OwnerInv, LockInv, BoundInv, MirrorInv, SpecInv,
      ArmedInv, CleanInv, SettledInv, ErrorInv, ArmedOnOwnStream, ShutdownIsClean, UpToDate,
      WindowInv, AbortInv, SupersededIsCut, Fetching, QueueInv, RunningIsJob, PendingIsNewest
<1> QED BY <1>2, <1>3, <1>4, <1>5

\* Main takes a report of the queue.
LEMMA PollOpenKeeps ==
  ASSUME OpenerInv, QueueTypeOK', QueueInv', PollOpen
  PROVE  OpenerInv'
<1>1. TypeOK'
  BY NumberFacts DEF PollOpen, Polled, HasReport, QueueTypeOK
<1>2. ControlInv'
  BY NumberFacts
  DEF PollOpen, Polled, HasReport, QueueTypeOK, Busy, StageInv, GoalInv, OwnerInv, LockInv,
      BoundInv, MirrorInv, QueueInv, RunningIsJob, PendingIsNewest
<1>3. StreamInv'
  BY NumberFacts
  DEF PollOpen, Polled, HasReport, QueueTypeOK, Busy, StageInv, GoalInv, OwnerInv, LockInv,
      BoundInv, MirrorInv, SpecInv, ArmedInv, CleanInv, SettledInv, ErrorInv, ArmedOnOwnStream,
      ShutdownIsClean, UpToDate, QueueInv, RunningIsJob, PendingIsNewest
<1>4. NetInv'
  BY NumberFacts
  DEF PollOpen, Polled, HasReport, QueueTypeOK, Busy, StageInv, GoalInv, OwnerInv, LockInv,
      BoundInv, MirrorInv, SpecInv, ArmedInv, CleanInv, SettledInv, ErrorInv, ArmedOnOwnStream,
      ShutdownIsClean, UpToDate, WindowInv, AbortInv, SupersededIsCut, Fetching, QueueInv,
      RunningIsJob, PendingIsNewest
<1> QED BY <1>1, <1>2, <1>3, <1>4

\* The end of the stream is seen.
LEMMA RenderEofKeeps ==
  ASSUME OpenerInv, QueueTypeOK', QueueInv', RenderEof
  PROVE  OpenerInv'
<1>1. stream' \in StreamTypes
  BY NumberFacts DEF RenderEof, StreamTypes
<1>2. TypeOK'
  BY <1>1, NumberFacts DEF RenderEof, StreamTypes
<1>3. ControlInv'
  BY NumberFacts
  DEF RenderEof, Busy, StageInv, GoalInv, OwnerInv, LockInv, BoundInv, MirrorInv, QueueInv,
      RunningIsJob, PendingIsNewest
<1>4. StreamInv'
  BY NumberFacts
  DEF RenderEof, Busy, StageInv, GoalInv, OwnerInv, LockInv, BoundInv, MirrorInv, SpecInv,
      ArmedInv, CleanInv, SettledInv, ErrorInv, ArmedOnOwnStream, ShutdownIsClean, UpToDate,
      QueueInv, RunningIsJob, PendingIsNewest
<1>5. NetInv'
  BY NumberFacts
  DEF RenderEof, Busy, StageInv, GoalInv, OwnerInv, LockInv, BoundInv, MirrorInv, SpecInv,
      ArmedInv, CleanInv, SettledInv, ErrorInv, ArmedOnOwnStream, ShutdownIsClean, UpToDate,
      WindowInv, AbortInv, SupersededIsCut, Fetching, QueueInv, RunningIsJob, PendingIsNewest
<1> QED BY <1>2, <1>3, <1>4, <1>5

\* The worker has left, or is left behind.
LEMMA DrainDoneKeeps ==
  ASSUME OpenerInv, QueueTypeOK', QueueInv', DrainDone
  PROVE  OpenerInv'
<1>1. life' \in LifeTypes
  BY NumberFacts DEF DrainDone, LifeTypes
<1>2. TypeOK'
  BY <1>1, NumberFacts DEF DrainDone, LifeTypes
<1>3. ControlInv'
  BY NumberFacts
  DEF DrainDone, Busy, StageInv, GoalInv, OwnerInv, LockInv, BoundInv, MirrorInv, QueueInv,
      RunningIsJob, PendingIsNewest
<1>4. StreamInv'
  BY NumberFacts
  DEF DrainDone, Busy, StageInv, GoalInv, OwnerInv, LockInv, BoundInv, MirrorInv, SpecInv,
      ArmedInv, CleanInv, SettledInv, ErrorInv, ArmedOnOwnStream, ShutdownIsClean, UpToDate,
      QueueInv, RunningIsJob, PendingIsNewest
<1>5. NetInv'
  BY NumberFacts
  DEF DrainDone, Busy, StageInv, GoalInv, OwnerInv, LockInv, BoundInv, MirrorInv, SpecInv,
      ArmedInv, CleanInv, SettledInv, ErrorInv, ArmedOnOwnStream, ShutdownIsClean, UpToDate,
      WindowInv, AbortInv, SupersededIsCut, Fetching, QueueInv, RunningIsJob, PendingIsNewest
<1> QED BY <1>2, <1>3, <1>4, <1>5

LEMMA DrainTimeoutKeeps ==
  ASSUME OpenerInv, QueueTypeOK', QueueInv', DrainTimeout
  PROVE  OpenerInv'
<1>1. TypeOK'
  BY NumberFacts DEF DrainTimeout
<1>2. ControlInv'
  BY NumberFacts
  DEF DrainTimeout, Busy, StageInv, GoalInv, OwnerInv, LockInv, BoundInv, MirrorInv, QueueInv,
      RunningIsJob, PendingIsNewest
<1>3. StreamInv'
  BY NumberFacts
  DEF DrainTimeout, Busy, StageInv, GoalInv, OwnerInv, LockInv, BoundInv, MirrorInv, SpecInv,
      ArmedInv, CleanInv, SettledInv, ErrorInv, ArmedOnOwnStream, ShutdownIsClean, UpToDate,
      QueueInv, RunningIsJob, PendingIsNewest
<1>4. NetInv'
  BY NumberFacts
  DEF DrainTimeout, Busy, StageInv, GoalInv, OwnerInv, LockInv, BoundInv, MirrorInv, SpecInv,
      ArmedInv, CleanInv, SettledInv, ErrorInv, ArmedOnOwnStream, ShutdownIsClean, UpToDate,
      WindowInv, AbortInv, SupersededIsCut, Fetching, QueueInv, RunningIsJob, PendingIsNewest
<1> QED BY <1>1, <1>2, <1>3, <1>4

\* The last teardown begins when the worker has left, or without one.
LEMMA ShutdownSyncKeeps ==
  ASSUME OpenerInv, QueueTypeOK', QueueInv', ShutdownSync
  PROVE  OpenerInv'
<1>1. TypeOK'
  BY NumberFacts DEF ShutdownSync
<1>2. ControlInv'
  BY NumberFacts
  DEF ShutdownSync, Busy, StageInv, GoalInv, OwnerInv, LockInv, BoundInv, MirrorInv, QueueInv,
      RunningIsJob, PendingIsNewest
<1>3. StreamInv'
  BY NumberFacts
  DEF ShutdownSync, Busy, StageInv, GoalInv, OwnerInv, LockInv, BoundInv, MirrorInv, SpecInv,
      ArmedInv, CleanInv, SettledInv, ErrorInv, ArmedOnOwnStream, ShutdownIsClean, UpToDate,
      QueueInv, RunningIsJob, PendingIsNewest
<1>4. NetInv'
  BY NumberFacts
  DEF ShutdownSync, Busy, StageInv, GoalInv, OwnerInv, LockInv, BoundInv, MirrorInv, SpecInv,
      ArmedInv, CleanInv, SettledInv, ErrorInv, ArmedOnOwnStream, ShutdownIsClean, UpToDate,
      WindowInv, AbortInv, SupersededIsCut, Fetching, QueueInv, RunningIsJob, PendingIsNewest
<1> QED BY <1>1, <1>2, <1>3, <1>4

-----------------------------------------------------------------------------
(* The worker, or main in its place.                                       *)

\* The worker's loop.
LEMMA WorkerLockKeeps ==
  ASSUME OpenerInv, QueueTypeOK', QueueInv', WorkerLock
  PROVE  OpenerInv'
<1>1. life' \in LifeTypes
  BY NumberFacts DEF WorkerLock, LifeTypes
<1>2. TypeOK'
  BY <1>1, NumberFacts DEF WorkerLock, LifeTypes
<1>3. ControlInv'
  BY NumberFacts
  DEF WorkerLock, Busy, StageInv, GoalInv, OwnerInv, LockInv, BoundInv, MirrorInv, QueueInv,
      RunningIsJob, PendingIsNewest
<1>4. StreamInv'
  BY NumberFacts
  DEF WorkerLock, Busy, StageInv, GoalInv, OwnerInv, LockInv, BoundInv, MirrorInv, SpecInv,
      ArmedInv, CleanInv, SettledInv, ErrorInv, ArmedOnOwnStream, ShutdownIsClean, UpToDate,
      QueueInv, RunningIsJob, PendingIsNewest
<1>5. NetInv'
  BY NumberFacts
  DEF WorkerLock, Busy, StageInv, GoalInv, OwnerInv, LockInv, BoundInv, MirrorInv, SpecInv,
      ArmedInv, CleanInv, SettledInv, ErrorInv, ArmedOnOwnStream, ShutdownIsClean, UpToDate,
      WindowInv, AbortInv, SupersededIsCut, Fetching, QueueInv, RunningIsJob, PendingIsNewest
<1> QED BY <1>2, <1>3, <1>4, <1>5

LEMMA WorkerWaitKeeps ==
  ASSUME OpenerInv, QueueTypeOK', QueueInv', WorkerWait
  PROVE  OpenerInv'
<1>1. TypeOK'
  BY NumberFacts DEF WorkerWait
<1>2. ControlInv'
  BY NumberFacts
  DEF WorkerWait, Busy, StageInv, GoalInv, OwnerInv, LockInv, BoundInv, MirrorInv, QueueInv,
      RunningIsJob, PendingIsNewest
<1>3. StreamInv'
  BY NumberFacts
  DEF WorkerWait, Busy, StageInv, GoalInv, OwnerInv, LockInv, BoundInv, MirrorInv, SpecInv,
      ArmedInv, CleanInv, SettledInv, ErrorInv, ArmedOnOwnStream, ShutdownIsClean, UpToDate,
      QueueInv, RunningIsJob, PendingIsNewest
<1>4. NetInv'
  BY NumberFacts
  DEF WorkerWait, Busy, StageInv, GoalInv, OwnerInv, LockInv, BoundInv, MirrorInv, SpecInv,
      ArmedInv, CleanInv, SettledInv, ErrorInv, ArmedOnOwnStream, ShutdownIsClean, UpToDate,
      WindowInv, AbortInv, SupersededIsCut, Fetching, QueueInv, RunningIsJob, PendingIsNewest
<1> QED BY <1>1, <1>2, <1>3, <1>4

LEMMA WorkerQuitKeeps ==
  ASSUME OpenerInv, QueueTypeOK', QueueInv', WorkerQuit
  PROVE  OpenerInv'
<1>1. life' \in LifeTypes
  BY NumberFacts DEF WorkerQuit, LifeTypes
<1>2. TypeOK'
  BY <1>1, NumberFacts DEF WorkerQuit, LifeTypes
<1>3. ControlInv'
  BY NumberFacts
  DEF WorkerQuit, Busy, StageInv, GoalInv, OwnerInv, LockInv, BoundInv, MirrorInv, QueueInv,
      RunningIsJob, PendingIsNewest
<1>4. StreamInv'
  BY NumberFacts
  DEF WorkerQuit, Busy, StageInv, GoalInv, OwnerInv, LockInv, BoundInv, MirrorInv, SpecInv,
      ArmedInv, CleanInv, SettledInv, ErrorInv, ArmedOnOwnStream, ShutdownIsClean, UpToDate,
      QueueInv, RunningIsJob, PendingIsNewest
<1>5. NetInv'
  BY NumberFacts
  DEF WorkerQuit, Busy, StageInv, GoalInv, OwnerInv, LockInv, BoundInv, MirrorInv, SpecInv,
      ArmedInv, CleanInv, SettledInv, ErrorInv, ArmedOnOwnStream, ShutdownIsClean, UpToDate,
      WindowInv, AbortInv, SupersededIsCut, Fetching, QueueInv, RunningIsJob, PendingIsNewest
<1> QED BY <1>2, <1>3, <1>4, <1>5

\* A request is taken, and finished.
LEMMA TakeJobKeeps ==
  ASSUME OpenerInv, QueueTypeOK', QueueInv', TakeJob
  PROVE  OpenerInv'
<1>1. mirror' \in MirrorTypes
  <2>1. Busy(q') \in BOOLEAN /\ q.pending.seq \in Seqs /\ 0 \in Seqs
    BY NumberFacts DEF Busy
  <2>2. q'.lastSeq \in Seqs /\ q'.lastKind \in Kinds \cup {NoKind}
    BY DEF QueueTypeOK
  <2> QED BY <2>1, <2>2 DEF TakeJob, Published, MirrorTypes
<1>2. TypeOK'
  BY <1>1, NumberFacts DEF TakeJob, Taken, Published, QueueTypeOK, MirrorTypes
<1>3. ControlInv'
  BY NumberFacts
  DEF TakeJob, Taken, Published, QueueTypeOK, Busy, StageInv, GoalInv, OwnerInv, LockInv,
      BoundInv, MirrorInv, QueueInv, RunningIsJob, PendingIsNewest
<1>4. StreamInv'
  BY NumberFacts
  DEF TakeJob, Taken, Published, QueueTypeOK, Busy, StageInv, GoalInv, OwnerInv, LockInv,
      BoundInv, MirrorInv, SpecInv, ArmedInv, CleanInv, SettledInv, ErrorInv, ArmedOnOwnStream,
      ShutdownIsClean, UpToDate, QueueInv, RunningIsJob, PendingIsNewest
<1>5. NetInv'
  BY NumberFacts
  DEF TakeJob, Taken, Published, QueueTypeOK, Busy, StageInv, GoalInv, OwnerInv, LockInv,
      BoundInv, MirrorInv, SpecInv, ArmedInv, CleanInv, SettledInv, ErrorInv, ArmedOnOwnStream,
      ShutdownIsClean, UpToDate, WindowInv, AbortInv, SupersededIsCut, Fetching, QueueInv,
      RunningIsJob, PendingIsNewest
<1> QED BY <1>2, <1>3, <1>4, <1>5

LEMMA JobDoneKeeps ==
  ASSUME OpenerInv, QueueTypeOK', QueueInv', JobDone
  PROVE  OpenerInv'
<1>1. mirror' \in MirrorTypes
  <2>1. Busy(q') \in BOOLEAN /\ q.pending.seq \in Seqs /\ 0 \in Seqs
    BY NumberFacts DEF Busy
  <2>2. q'.lastSeq \in Seqs /\ q'.lastKind \in Kinds \cup {NoKind}
    BY DEF QueueTypeOK
  <2> QED BY <2>1, <2>2 DEF JobDone, Published, MirrorTypes
<1>2. error' \in Seqs
  BY NumberFacts DEF JobDone, Finished, Published, Superseded, QueueTypeOK
<1>3. TypeOK'
  BY <1>1, <1>2, NumberFacts
  DEF JobDone, Finished, Published, Superseded, QueueTypeOK, MirrorTypes
<1>4. ControlInv'
  BY NumberFacts
  DEF JobDone, Finished, Published, Superseded, QueueTypeOK, Busy, StageInv, GoalInv, OwnerInv,
      LockInv, BoundInv, MirrorInv, QueueInv, RunningIsJob, PendingIsNewest
<1>5. StreamInv'
  BY NumberFacts
  DEF JobDone, Finished, Published, Superseded, QueueTypeOK, Busy, StageInv, GoalInv, OwnerInv,
      LockInv, BoundInv, MirrorInv, SpecInv, ArmedInv, CleanInv, SettledInv, ErrorInv,
      ArmedOnOwnStream, ShutdownIsClean, UpToDate, QueueInv, RunningIsJob, PendingIsNewest
<1>6. NetInv'
  BY NumberFacts
  DEF JobDone, Finished, Published, Superseded, QueueTypeOK, Busy, StageInv, GoalInv, OwnerInv,
      LockInv, BoundInv, MirrorInv, SpecInv, ArmedInv, CleanInv, SettledInv, ErrorInv,
      ArmedOnOwnStream, ShutdownIsClean, UpToDate, WindowInv, AbortInv, SupersededIsCut,
      Fetching, QueueInv, RunningIsJob, PendingIsNewest
<1> QED BY <1>3, <1>4, <1>5, <1>6

\* The pipeline is entered when nobody is in it, and left.
LEMMA EnterGuardKeeps ==
  ASSUME OpenerInv, QueueTypeOK', QueueInv', EnterGuard
  PROVE  OpenerInv'
<1>1. TypeOK'
  BY NumberFacts DEF EnterGuard
<1>2. ControlInv'
  BY NumberFacts
  DEF EnterGuard, Busy, StageInv, GoalInv, OwnerInv, LockInv, BoundInv, MirrorInv, QueueInv,
      RunningIsJob, PendingIsNewest
<1>3. StreamInv'
  BY NumberFacts
  DEF EnterGuard, Busy, StageInv, GoalInv, OwnerInv, LockInv, BoundInv, MirrorInv, SpecInv,
      ArmedInv, CleanInv, SettledInv, ErrorInv, ArmedOnOwnStream, ShutdownIsClean, UpToDate,
      QueueInv, RunningIsJob, PendingIsNewest
<1>4. NetInv'
  BY NumberFacts
  DEF EnterGuard, Busy, StageInv, GoalInv, OwnerInv, LockInv, BoundInv, MirrorInv, SpecInv,
      ArmedInv, CleanInv, SettledInv, ErrorInv, ArmedOnOwnStream, ShutdownIsClean, UpToDate,
      WindowInv, AbortInv, SupersededIsCut, Fetching, QueueInv, RunningIsJob, PendingIsNewest
<1> QED BY <1>1, <1>2, <1>3, <1>4

LEMMA BeginJobKeeps ==
  ASSUME OpenerInv, QueueTypeOK', QueueInv', BeginJob
  PROVE  OpenerInv'
<1>1. goal' \in {"none", "play", "stop", "cancel", "fail", "final"}
  BY NumberFacts DEF BeginJob
<1>2. TypeOK'
  BY <1>1, NumberFacts DEF BeginJob
<1>3. ControlInv'
  BY NumberFacts
  DEF BeginJob, Busy, StageInv, GoalInv, OwnerInv, LockInv, BoundInv, MirrorInv, QueueInv,
      RunningIsJob, PendingIsNewest
<1>4. StreamInv'
  BY NumberFacts
  DEF BeginJob, Busy, StageInv, GoalInv, OwnerInv, LockInv, BoundInv, MirrorInv, SpecInv,
      ArmedInv, CleanInv, SettledInv, ErrorInv, ArmedOnOwnStream, ShutdownIsClean, UpToDate,
      QueueInv, RunningIsJob, PendingIsNewest
<1>5. NetInv'
  BY NumberFacts
  DEF BeginJob, Busy, StageInv, GoalInv, OwnerInv, LockInv, BoundInv, MirrorInv, SpecInv,
      ArmedInv, CleanInv, SettledInv, ErrorInv, ArmedOnOwnStream, ShutdownIsClean, UpToDate,
      WindowInv, AbortInv, SupersededIsCut, Fetching, QueueInv, RunningIsJob, PendingIsNewest
<1> QED BY <1>2, <1>3, <1>4, <1>5

LEMMA LeaveGuardKeeps ==
  ASSUME OpenerInv, QueueTypeOK', QueueInv', LeaveGuard
  PROVE  OpenerInv'
<1>1. TypeOK'
  BY NumberFacts DEF LeaveGuard
<1>2. ControlInv'
  BY NumberFacts
  DEF LeaveGuard, Busy, StageInv, GoalInv, OwnerInv, LockInv, BoundInv, MirrorInv, QueueInv,
      RunningIsJob, PendingIsNewest
<1>3. StreamInv'
  BY NumberFacts
  DEF LeaveGuard, Busy, StageInv, GoalInv, OwnerInv, LockInv, BoundInv, MirrorInv, SpecInv,
      ArmedInv, CleanInv, SettledInv, ErrorInv, ArmedOnOwnStream, ShutdownIsClean, UpToDate,
      QueueInv, RunningIsJob, PendingIsNewest
<1>4. NetInv'
  BY NumberFacts
  DEF LeaveGuard, Busy, StageInv, GoalInv, OwnerInv, LockInv, BoundInv, MirrorInv, SpecInv,
      ArmedInv, CleanInv, SettledInv, ErrorInv, ArmedOnOwnStream, ShutdownIsClean, UpToDate,
      WindowInv, AbortInv, SupersededIsCut, Fetching, QueueInv, RunningIsJob, PendingIsNewest
<1> QED BY <1>1, <1>2, <1>3, <1>4

\* The teardown: the window is closed first, then aborts, then the join, then the source.
LEMMA TeardownWindowKeeps ==
  ASSUME OpenerInv, QueueTypeOK', QueueInv', TeardownWindow
  PROVE  OpenerInv'
<1>1. net' \in NetTypes
  BY NumberFacts DEF TeardownWindow, NetTypes, StreamTypes
<1>2. TypeOK'
  BY <1>1, NumberFacts DEF TeardownWindow, NetTypes
<1>3. ControlInv'
  BY NumberFacts
  DEF TeardownWindow, Busy, StageInv, GoalInv, OwnerInv, LockInv, BoundInv, MirrorInv, QueueInv,
      RunningIsJob, PendingIsNewest
<1>4. StreamInv'
  BY NumberFacts
  DEF TeardownWindow, Busy, StageInv, GoalInv, OwnerInv, LockInv, BoundInv, MirrorInv, SpecInv,
      ArmedInv, CleanInv, SettledInv, ErrorInv, ArmedOnOwnStream, ShutdownIsClean, UpToDate,
      QueueInv, RunningIsJob, PendingIsNewest
<1>5. NetInv'
  BY NumberFacts
  DEF TeardownWindow, Busy, StageInv, GoalInv, OwnerInv, LockInv, BoundInv, MirrorInv, SpecInv,
      ArmedInv, CleanInv, SettledInv, ErrorInv, ArmedOnOwnStream, ShutdownIsClean, UpToDate,
      WindowInv, AbortInv, SupersededIsCut, Fetching, QueueInv, RunningIsJob, PendingIsNewest
<1> QED BY <1>2, <1>3, <1>4, <1>5

LEMMA StopDecodeKeeps ==
  ASSUME OpenerInv, QueueTypeOK', QueueInv', StopDecode
  PROVE  OpenerInv'
<1>1. net' \in NetTypes
  BY NumberFacts DEF StopDecode, NetTypes, StreamTypes
<1>2. TypeOK'
  BY <1>1, NumberFacts DEF StopDecode, NetTypes
<1>3. ControlInv'
  BY NumberFacts
  DEF StopDecode, Busy, StageInv, GoalInv, OwnerInv, LockInv, BoundInv, MirrorInv, QueueInv,
      RunningIsJob, PendingIsNewest
<1>4. StreamInv'
  BY NumberFacts
  DEF StopDecode, Busy, StageInv, GoalInv, OwnerInv, LockInv, BoundInv, MirrorInv, SpecInv,
      ArmedInv, CleanInv, SettledInv, ErrorInv, ArmedOnOwnStream, ShutdownIsClean, UpToDate,
      QueueInv, RunningIsJob, PendingIsNewest
<1>5. NetInv'
  BY NumberFacts
  DEF StopDecode, Busy, StageInv, GoalInv, OwnerInv, LockInv, BoundInv, MirrorInv, SpecInv,
      ArmedInv, CleanInv, SettledInv, ErrorInv, ArmedOnOwnStream, ShutdownIsClean, UpToDate,
      WindowInv, AbortInv, SupersededIsCut, Fetching, QueueInv, RunningIsJob, PendingIsNewest
<1> QED BY <1>2, <1>3, <1>4, <1>5

LEMMA SignalDecodeKeeps ==
  ASSUME OpenerInv, QueueTypeOK', QueueInv', SignalDecode
  PROVE  OpenerInv'
<1>1. TypeOK'
  BY NumberFacts DEF SignalDecode
<1>2. ControlInv'
  BY NumberFacts
  DEF SignalDecode, Busy, StageInv, GoalInv, OwnerInv, LockInv, BoundInv, MirrorInv, QueueInv,
      RunningIsJob, PendingIsNewest
<1>3. StreamInv'
  BY NumberFacts
  DEF SignalDecode, Busy, StageInv, GoalInv, OwnerInv, LockInv, BoundInv, MirrorInv, SpecInv,
      ArmedInv, CleanInv, SettledInv, ErrorInv, ArmedOnOwnStream, ShutdownIsClean, UpToDate,
      QueueInv, RunningIsJob, PendingIsNewest
<1>4. NetInv'
  BY NumberFacts
  DEF SignalDecode, Busy, StageInv, GoalInv, OwnerInv, LockInv, BoundInv, MirrorInv, SpecInv,
      ArmedInv, CleanInv, SettledInv, ErrorInv, ArmedOnOwnStream, ShutdownIsClean, UpToDate,
      WindowInv, AbortInv, SupersededIsCut, Fetching, QueueInv, RunningIsJob, PendingIsNewest
<1> QED BY <1>1, <1>2, <1>3, <1>4

LEMMA CloseSourceKeeps ==
  ASSUME OpenerInv, QueueTypeOK', QueueInv', CloseSource
  PROVE  OpenerInv'
<1>1. net' \in NetTypes
  <2>1. PICK prefetching \in BOOLEAN :
         net' = [net EXCEPT
                   !.kind = "http",
                   !.mutex = FALSE,
                   !.httpAbort = @ /\ net.kind # "http" /\ ~net.mutex,
                   !.asegAbort = @ \/ (prefetching /\ net.kind = "hls")]
    BY DEF CloseSource
  <2>2. /\ (net.httpAbort /\ net.kind # "http" /\ ~net.mutex) \in BOOLEAN
        /\ (net.asegAbort \/ (prefetching /\ net.kind = "hls")) \in BOOLEAN
    OBVIOUS
  <2> QED BY <2>1, <2>2, ZenonT(40) DEF NetTypes
<1>2. stream' \in StreamTypes
  BY NumberFacts DEF CloseSource, StreamTypes
<1>3. error' \in Seqs
  BY NumberFacts DEF CloseSource
<1>4. TypeOK'
  BY <1>1, <1>2, <1>3, NumberFacts DEF CloseSource, NetTypes, StreamTypes
<1>5. ControlInv'
  BY NumberFacts
  DEF CloseSource, Busy, StageInv, GoalInv, OwnerInv, LockInv, BoundInv, MirrorInv, QueueInv,
      RunningIsJob, PendingIsNewest
<1>6. StreamInv'
  <2>1. /\ stage = "joinDecode" /\ ~net'.mutex /\ stream' = [NoStream EXCEPT !.spec = stream.spec]
        /\ stage' = IF goal = "play" THEN "prepare" ELSE "leave"
        /\ rc' = CASE goal = "cancel" -> 9 [] goal = "fail" -> 1 [] OTHER -> 0
        /\ error' = IF goal = "fail" THEN job.seq ELSE error
        /\ UNCHANGED <<requestVars, main, goal, life, call>>
    BY DEF CloseSource
  <2>2. /\ stream'.built = 0 /\ ~stream'.decoding /\ stream'.spec = stream.spec
        /\ stream'.seek = {} /\ stream'.pause = {} /\ stream'.restart = {}
    BY <2>1
  <2>3. SpecInv' /\ ArmedInv'
    BY <2>1, <2>2, NumberFacts
    DEF SpecInv, ArmedInv, ArmedOnOwnStream, OwnerInv, MirrorInv, StageInv
  <2>4. CleanInv' /\ SettledInv'
    BY <2>1, <2>2, NumberFacts
    DEF CleanInv, ShutdownIsClean, SettledInv, UpToDate, StageInv, GoalInv
  <2>5. ErrorInv'
    BY <2>1, NumberFacts
    DEF ErrorInv, MirrorInv, BoundInv, QueueInv, RunningIsJob, PendingIsNewest, GoalInv
  <2> QED BY <2>3, <2>4, <2>5
<1>7. NetInv'
  BY NumberFacts
  DEF CloseSource, Busy, StageInv, GoalInv, OwnerInv, LockInv, BoundInv, MirrorInv, SpecInv,
      ArmedInv, CleanInv, SettledInv, ErrorInv, ArmedOnOwnStream, ShutdownIsClean, UpToDate,
      WindowInv, AbortInv, SupersededIsCut, Fetching, QueueInv, RunningIsJob, PendingIsNewest
<1> QED BY <1>4, <1>5, <1>6, <1>7

\* The open: page, source, probe, stream.
LEMMA PrepareKeeps ==
  ASSUME OpenerInv, QueueTypeOK', QueueInv', Prepare
  PROVE  OpenerInv'
<1>1. error' \in Seqs
  BY NumberFacts DEF Prepare
<1>2. TypeOK'
  BY <1>1, NumberFacts DEF Prepare
<1>3. ControlInv'
  BY NumberFacts
  DEF Prepare, Busy, StageInv, GoalInv, OwnerInv, LockInv, BoundInv, MirrorInv, QueueInv,
      RunningIsJob, PendingIsNewest
<1>4. StreamInv'
  BY NumberFacts
  DEF Prepare, Busy, StageInv, GoalInv, OwnerInv, LockInv, BoundInv, MirrorInv, SpecInv,
      ArmedInv, CleanInv, SettledInv, ErrorInv, ArmedOnOwnStream, ShutdownIsClean, UpToDate,
      QueueInv, RunningIsJob, PendingIsNewest
<1>5. NetInv'
  BY NumberFacts
  DEF Prepare, Busy, StageInv, GoalInv, OwnerInv, LockInv, BoundInv, MirrorInv, SpecInv,
      ArmedInv, CleanInv, SettledInv, ErrorInv, ArmedOnOwnStream, ShutdownIsClean, UpToDate,
      WindowInv, AbortInv, SupersededIsCut, Fetching, QueueInv, RunningIsJob, PendingIsNewest
<1> QED BY <1>2, <1>3, <1>4, <1>5

\* Opening and closing a window, clearing an abort and raising it again.
LEMMA NetStays ==
  ASSUME OpenerInv, NEW from, NEW to,
         \/ ResumeClear(from, to)
         \/ ResumeCheck(from, to)
         \/ \E w \in {"none", "httpsrc", "aseg"} : SetWindow(from, w, to)
  PROVE  net' \in NetTypes
<1>1. CASE ResumeClear(from, to)
  BY <1>1 DEF ResumeClear, NetTypes
<1>2. CASE ResumeCheck(from, to)
  <2>1. (net.asegAbort \/ Cancelled) \in BOOLEAN
    OBVIOUS
  <2> QED BY <1>2, <2>1 DEF ResumeCheck, NetTypes
<1>3. ASSUME NEW w \in {"none", "httpsrc", "aseg"}, SetWindow(from, w, to)
      PROVE  net' \in NetTypes
  BY <1>3 DEF NetTypes
<1> QED BY <1>1, <1>2, <1>3

\* No stray abort is left by a clear, and none that counts is lost.
LEMMA ResolvePageKeeps ==
  ASSUME OpenerInv, QueueTypeOK', QueueInv', ResolvePage
  PROVE  OpenerInv'
<1>1. net' \in NetTypes
  <2>1. CASE stage = "pageFetch" /\ UNCHANGED net
    BY <2>1 DEF NetTypes
  <2> QED BY <2>1, NetStays DEF ResolvePage
<1>2. TypeOK'
  <2>1. /\ stage' \in PageStages
        /\ UNCHANGED <<requestVars, opMtx, pipe, life, stream, goal, rc, error, main, call>>
    BY DEF ResolvePage, ResumeClear, ResumeCheck
  <2> QED BY <1>1, <2>1 DEF NetTypes
<1>3. ControlInv'
  BY NumberFacts
  DEF ResolvePage, ResumeClear, ResumeCheck, Busy, StageInv, GoalInv, OwnerInv, LockInv,
      BoundInv, MirrorInv, QueueInv, RunningIsJob, PendingIsNewest
<1>4. StreamInv'
  BY NumberFacts
  DEF ResolvePage, ResumeClear, ResumeCheck, Busy, StageInv, GoalInv, OwnerInv, LockInv,
      BoundInv, MirrorInv, SpecInv, ArmedInv, CleanInv, SettledInv, ErrorInv, ArmedOnOwnStream,
      ShutdownIsClean, UpToDate, QueueInv, RunningIsJob, PendingIsNewest
<1>5. NetInv'
  BY NumberFacts
  DEF ResolvePage, ResumeClear, ResumeCheck, Busy, StageInv, GoalInv, OwnerInv, LockInv,
      BoundInv, MirrorInv, SpecInv, ArmedInv, CleanInv, SettledInv, ErrorInv, ArmedOnOwnStream,
      ShutdownIsClean, UpToDate, WindowInv, AbortInv, SupersededIsCut, Fetching, QueueInv,
      RunningIsJob, PendingIsNewest
<1> QED BY <1>2, <1>3, <1>4, <1>5

LEMMA PageVerdictKeeps ==
  ASSUME OpenerInv, QueueTypeOK', QueueInv', PageVerdict
  PROVE  OpenerInv'
<1>1. error' \in Seqs
  BY NumberFacts DEF PageVerdict
<1>2. TypeOK'
  BY <1>1, NumberFacts DEF PageVerdict
<1>3. ControlInv'
  BY NumberFacts
  DEF PageVerdict, Busy, StageInv, GoalInv, OwnerInv, LockInv, BoundInv, MirrorInv, QueueInv,
      RunningIsJob, PendingIsNewest
<1>4. StreamInv'
  BY NumberFacts
  DEF PageVerdict, Busy, StageInv, GoalInv, OwnerInv, LockInv, BoundInv, MirrorInv, SpecInv,
      ArmedInv, CleanInv, SettledInv, ErrorInv, ArmedOnOwnStream, ShutdownIsClean, UpToDate,
      QueueInv, RunningIsJob, PendingIsNewest
<1>5. NetInv'
  BY NumberFacts
  DEF PageVerdict, Busy, StageInv, GoalInv, OwnerInv, LockInv, BoundInv, MirrorInv, SpecInv,
      ArmedInv, CleanInv, SettledInv, ErrorInv, ArmedOnOwnStream, ShutdownIsClean, UpToDate,
      WindowInv, AbortInv, SupersededIsCut, Fetching, QueueInv, RunningIsJob, PendingIsNewest
<1> QED BY <1>2, <1>3, <1>4, <1>5

LEMMA ChooseSourceKeeps ==
  ASSUME OpenerInv, QueueTypeOK', QueueInv', ChooseSource
  PROVE  OpenerInv'
<1>1. net' \in NetTypes
  BY NumberFacts, KindsAssumption DEF ChooseSource, NetTypes, StreamTypes
<1>2. stream' \in StreamTypes
  BY NumberFacts, KindsAssumption DEF ChooseSource, StreamTypes
<1>3. TypeOK'
  BY <1>1, <1>2, NumberFacts DEF ChooseSource, NetTypes, StreamTypes
<1>4. ControlInv'
  BY NumberFacts
  DEF ChooseSource, Busy, StageInv, GoalInv, OwnerInv, LockInv, BoundInv, MirrorInv, QueueInv,
      RunningIsJob, PendingIsNewest
<1>5. StreamInv'
  BY NumberFacts
  DEF ChooseSource, Busy, StageInv, GoalInv, OwnerInv, LockInv, BoundInv, MirrorInv, SpecInv,
      ArmedInv, CleanInv, SettledInv, ErrorInv, ArmedOnOwnStream, ShutdownIsClean, UpToDate,
      QueueInv, RunningIsJob, PendingIsNewest
<1>6. NetInv'
  BY NumberFacts
  DEF ChooseSource, Busy, StageInv, GoalInv, OwnerInv, LockInv, BoundInv, MirrorInv, SpecInv,
      ArmedInv, CleanInv, SettledInv, ErrorInv, ArmedOnOwnStream, ShutdownIsClean, UpToDate,
      WindowInv, AbortInv, SupersededIsCut, Fetching, QueueInv, RunningIsJob, PendingIsNewest
<1> QED BY <1>3, <1>4, <1>5, <1>6

LEMMA OpenSourceKeeps ==
  ASSUME OpenerInv, QueueTypeOK', QueueInv', OpenSource
  PROVE  OpenerInv'
<1>1. net' \in NetTypes
  <2>1. CASE net' = [net EXCEPT !.httpAbort = FALSE]
    BY <2>1 DEF NetTypes
  <2> QED BY <2>1, NetStays DEF OpenSource
<1>2. TypeOK'
  <2>1. /\ stage' \in {"hlsClear", "hlsCheck", "httpClear", "connect"}
        /\ UNCHANGED <<requestVars, opMtx, pipe, life, stream, goal, rc, error, main, call>>
    BY DEF OpenSource, ResumeClear, ResumeCheck
  <2> QED BY <1>1, <2>1 DEF NetTypes
<1>3. ControlInv'
  BY NumberFacts
  DEF OpenSource, ResumeClear, ResumeCheck, Busy, StageInv, GoalInv, OwnerInv, LockInv,
      BoundInv, MirrorInv, QueueInv, RunningIsJob, PendingIsNewest
<1>4. StreamInv'
  BY NumberFacts
  DEF OpenSource, ResumeClear, ResumeCheck, Busy, StageInv, GoalInv, OwnerInv, LockInv,
      BoundInv, MirrorInv, SpecInv, ArmedInv, CleanInv, SettledInv, ErrorInv, ArmedOnOwnStream,
      ShutdownIsClean, UpToDate, QueueInv, RunningIsJob, PendingIsNewest
<1>5. NetInv'
  BY NumberFacts
  DEF OpenSource, ResumeClear, ResumeCheck, Busy, StageInv, GoalInv, OwnerInv, LockInv,
      BoundInv, MirrorInv, SpecInv, ArmedInv, CleanInv, SettledInv, ErrorInv, ArmedOnOwnStream,
      ShutdownIsClean, UpToDate, WindowInv, AbortInv, SupersededIsCut, Fetching, QueueInv,
      RunningIsJob, PendingIsNewest
<1> QED BY <1>2, <1>3, <1>4, <1>5

LEMMA ConnectKeeps ==
  ASSUME OpenerInv, QueueTypeOK', QueueInv', Connect
  PROVE  OpenerInv'
<1>1. net' \in NetTypes
  BY NumberFacts DEF Connect, NetTypes, StreamTypes
<1>2. TypeOK'
  BY <1>1, NumberFacts DEF Connect, NetTypes
<1>3. ControlInv'
  BY NumberFacts
  DEF Connect, Busy, StageInv, GoalInv, OwnerInv, LockInv, BoundInv, MirrorInv, QueueInv,
      RunningIsJob, PendingIsNewest
<1>4. StreamInv'
  BY NumberFacts
  DEF Connect, Busy, StageInv, GoalInv, OwnerInv, LockInv, BoundInv, MirrorInv, SpecInv,
      ArmedInv, CleanInv, SettledInv, ErrorInv, ArmedOnOwnStream, ShutdownIsClean, UpToDate,
      QueueInv, RunningIsJob, PendingIsNewest
<1>5. NetInv'
  BY NumberFacts
  DEF Connect, Busy, StageInv, GoalInv, OwnerInv, LockInv, BoundInv, MirrorInv, SpecInv,
      ArmedInv, CleanInv, SettledInv, ErrorInv, ArmedOnOwnStream, ShutdownIsClean, UpToDate,
      WindowInv, AbortInv, SupersededIsCut, Fetching, QueueInv, RunningIsJob, PendingIsNewest
<1> QED BY <1>2, <1>3, <1>4, <1>5

LEMMA SourceCloseKeeps ==
  ASSUME OpenerInv, QueueTypeOK', QueueInv', SourceClose
  PROVE  OpenerInv'
<1>1. net' \in NetTypes
  BY NumberFacts DEF SourceClose, NetTypes, StreamTypes
<1>2. TypeOK'
  BY <1>1, NumberFacts DEF SourceClose, NetTypes
<1>3. ControlInv'
  BY NumberFacts
  DEF SourceClose, Busy, StageInv, GoalInv, OwnerInv, LockInv, BoundInv, MirrorInv, QueueInv,
      RunningIsJob, PendingIsNewest
<1>4. StreamInv'
  BY NumberFacts
  DEF SourceClose, Busy, StageInv, GoalInv, OwnerInv, LockInv, BoundInv, MirrorInv, SpecInv,
      ArmedInv, CleanInv, SettledInv, ErrorInv, ArmedOnOwnStream, ShutdownIsClean, UpToDate,
      QueueInv, RunningIsJob, PendingIsNewest
<1>5. NetInv'
  BY NumberFacts
  DEF SourceClose, Busy, StageInv, GoalInv, OwnerInv, LockInv, BoundInv, MirrorInv, SpecInv,
      ArmedInv, CleanInv, SettledInv, ErrorInv, ArmedOnOwnStream, ShutdownIsClean, UpToDate,
      WindowInv, AbortInv, SupersededIsCut, Fetching, QueueInv, RunningIsJob, PendingIsNewest
<1> QED BY <1>2, <1>3, <1>4, <1>5

LEMMA SourceVerdictKeeps ==
  ASSUME OpenerInv, QueueTypeOK', QueueInv', SourceVerdict
  PROVE  OpenerInv'
<1>1. TypeOK'
  BY NumberFacts DEF SourceVerdict
<1>2. ControlInv'
  BY NumberFacts
  DEF SourceVerdict, Busy, StageInv, GoalInv, OwnerInv, LockInv, BoundInv, MirrorInv, QueueInv,
      RunningIsJob, PendingIsNewest
<1>3. StreamInv'
  BY NumberFacts
  DEF SourceVerdict, Busy, StageInv, GoalInv, OwnerInv, LockInv, BoundInv, MirrorInv, SpecInv,
      ArmedInv, CleanInv, SettledInv, ErrorInv, ArmedOnOwnStream, ShutdownIsClean, UpToDate,
      QueueInv, RunningIsJob, PendingIsNewest
<1>4. NetInv'
  BY NumberFacts
  DEF SourceVerdict, Busy, StageInv, GoalInv, OwnerInv, LockInv, BoundInv, MirrorInv, SpecInv,
      ArmedInv, CleanInv, SettledInv, ErrorInv, ArmedOnOwnStream, ShutdownIsClean, UpToDate,
      WindowInv, AbortInv, SupersededIsCut, Fetching, QueueInv, RunningIsJob, PendingIsNewest
<1> QED BY <1>1, <1>2, <1>3, <1>4

LEMMA ProbeWindowKeeps ==
  ASSUME OpenerInv, QueueTypeOK', QueueInv', ProbeWindow
  PROVE  OpenerInv'
<1>1. net' \in NetTypes
  BY NumberFacts DEF ProbeWindow, NetTypes, StreamTypes
<1>2. TypeOK'
  BY <1>1, NumberFacts DEF ProbeWindow, NetTypes
<1>3. ControlInv'
  BY NumberFacts
  DEF ProbeWindow, Busy, StageInv, GoalInv, OwnerInv, LockInv, BoundInv, MirrorInv, QueueInv,
      RunningIsJob, PendingIsNewest
<1>4. StreamInv'
  BY NumberFacts
  DEF ProbeWindow, Busy, StageInv, GoalInv, OwnerInv, LockInv, BoundInv, MirrorInv, SpecInv,
      ArmedInv, CleanInv, SettledInv, ErrorInv, ArmedOnOwnStream, ShutdownIsClean, UpToDate,
      QueueInv, RunningIsJob, PendingIsNewest
<1>5. NetInv'
  BY NumberFacts
  DEF ProbeWindow, Busy, StageInv, GoalInv, OwnerInv, LockInv, BoundInv, MirrorInv, SpecInv,
      ArmedInv, CleanInv, SettledInv, ErrorInv, ArmedOnOwnStream, ShutdownIsClean, UpToDate,
      WindowInv, AbortInv, SupersededIsCut, Fetching, QueueInv, RunningIsJob, PendingIsNewest
<1> QED BY <1>2, <1>3, <1>4, <1>5

LEMMA ProbeReadKeeps ==
  ASSUME OpenerInv, QueueTypeOK', QueueInv', ProbeRead
  PROVE  OpenerInv'
<1>1. TypeOK'
  BY NumberFacts DEF ProbeRead
<1>2. ControlInv'
  BY NumberFacts
  DEF ProbeRead, Busy, StageInv, GoalInv, OwnerInv, LockInv, BoundInv, MirrorInv, QueueInv,
      RunningIsJob, PendingIsNewest
<1>3. StreamInv'
  BY NumberFacts
  DEF ProbeRead, Busy, StageInv, GoalInv, OwnerInv, LockInv, BoundInv, MirrorInv, SpecInv,
      ArmedInv, CleanInv, SettledInv, ErrorInv, ArmedOnOwnStream, ShutdownIsClean, UpToDate,
      QueueInv, RunningIsJob, PendingIsNewest
<1>4. NetInv'
  BY NumberFacts
  DEF ProbeRead, Busy, StageInv, GoalInv, OwnerInv, LockInv, BoundInv, MirrorInv, SpecInv,
      ArmedInv, CleanInv, SettledInv, ErrorInv, ArmedOnOwnStream, ShutdownIsClean, UpToDate,
      WindowInv, AbortInv, SupersededIsCut, Fetching, QueueInv, RunningIsJob, PendingIsNewest
<1> QED BY <1>1, <1>2, <1>3, <1>4

LEMMA ProbeReadDoneKeeps ==
  ASSUME OpenerInv, QueueTypeOK', QueueInv', ProbeReadDone
  PROVE  OpenerInv'
<1>1. net' \in NetTypes
  <2>1. CASE UNCHANGED net
    BY <2>1 DEF NetTypes
  <2>2. ASSUME NEW up \in BOOLEAN,
               net' = [net EXCEPT !.mutex = up,
                                  !.httpAbort = IF up = net.mutex THEN @ ELSE FALSE]
        PROVE  net' \in NetTypes
    <3>1. (IF up = net.mutex THEN net.httpAbort ELSE FALSE) \in BOOLEAN
      OBVIOUS
    <3> QED BY <2>2, <3>1 DEF NetTypes
  <2> QED BY <2>1, <2>2 DEF ProbeReadDone
<1>2. /\ stage = "reading" /\ stage' \in {"probe", "probed"}
      /\ UNCHANGED <<requestVars, opMtx, pipe, life, stream, goal, rc, error, main, call>>
  BY DEF ProbeReadDone
<1>3. /\ net'.kind = net.kind /\ net'.window = net.window /\ net'.asegAbort = net.asegAbort
      /\ net.kind # "hls" => net' = net
  BY ZenonT(40) DEF ProbeReadDone, NetTypes
<1>4. TypeOK'
  BY <1>1, <1>2 DEF NetTypes
<1>5. ControlInv'
  BY <1>2, NumberFacts
  DEF Busy, StageInv, GoalInv, OwnerInv, LockInv, BoundInv, MirrorInv, QueueInv, RunningIsJob,
      PendingIsNewest
<1>6. StreamInv'
  BY <1>2, NumberFacts
  DEF Busy, StageInv, GoalInv, OwnerInv, LockInv, BoundInv, MirrorInv, SpecInv, ArmedInv,
      CleanInv, SettledInv, ErrorInv, ArmedOnOwnStream, ShutdownIsClean, UpToDate, QueueInv,
      RunningIsJob, PendingIsNewest
<1>7. NetInv'
  BY <1>1, <1>2, <1>3
  DEF NetTypes, StageInv, GoalInv, OwnerInv, LockInv, BoundInv, MirrorInv, SpecInv, ArmedInv,
      CleanInv, SettledInv, ErrorInv, ArmedOnOwnStream, ShutdownIsClean, UpToDate, WindowInv,
      AbortInv, SupersededIsCut, Fetching, QueueInv, RunningIsJob, PendingIsNewest
<1> QED BY <1>4, <1>5, <1>6, <1>7

LEMMA ProbedKeeps ==
  ASSUME OpenerInv, QueueTypeOK', QueueInv', Probed
  PROVE  OpenerInv'
<1>1. TypeOK'
  BY NumberFacts DEF Probed
<1>2. ControlInv'
  BY NumberFacts
  DEF Probed, Busy, StageInv, GoalInv, OwnerInv, LockInv, BoundInv, MirrorInv, QueueInv,
      RunningIsJob, PendingIsNewest
<1>3. StreamInv'
  BY NumberFacts
  DEF Probed, Busy, StageInv, GoalInv, OwnerInv, LockInv, BoundInv, MirrorInv, SpecInv,
      ArmedInv, CleanInv, SettledInv, ErrorInv, ArmedOnOwnStream, ShutdownIsClean, UpToDate,
      QueueInv, RunningIsJob, PendingIsNewest
<1>4. NetInv'
  BY NumberFacts
  DEF Probed, Busy, StageInv, GoalInv, OwnerInv, LockInv, BoundInv, MirrorInv, SpecInv,
      ArmedInv, CleanInv, SettledInv, ErrorInv, ArmedOnOwnStream, ShutdownIsClean, UpToDate,
      WindowInv, AbortInv, SupersededIsCut, Fetching, QueueInv, RunningIsJob, PendingIsNewest
<1> QED BY <1>1, <1>2, <1>3, <1>4

LEMMA ProbeCloseKeeps ==
  ASSUME OpenerInv, QueueTypeOK', QueueInv', ProbeClose
  PROVE  OpenerInv'
<1>1. net' \in NetTypes
  BY NumberFacts DEF ProbeClose, NetTypes, StreamTypes
<1>2. TypeOK'
  BY <1>1, NumberFacts DEF ProbeClose, NetTypes
<1>3. ControlInv'
  BY NumberFacts
  DEF ProbeClose, Busy, StageInv, GoalInv, OwnerInv, LockInv, BoundInv, MirrorInv, QueueInv,
      RunningIsJob, PendingIsNewest
<1>4. StreamInv'
  BY NumberFacts
  DEF ProbeClose, Busy, StageInv, GoalInv, OwnerInv, LockInv, BoundInv, MirrorInv, SpecInv,
      ArmedInv, CleanInv, SettledInv, ErrorInv, ArmedOnOwnStream, ShutdownIsClean, UpToDate,
      QueueInv, RunningIsJob, PendingIsNewest
<1>5. NetInv'
  BY NumberFacts
  DEF ProbeClose, Busy, StageInv, GoalInv, OwnerInv, LockInv, BoundInv, MirrorInv, SpecInv,
      ArmedInv, CleanInv, SettledInv, ErrorInv, ArmedOnOwnStream, ShutdownIsClean, UpToDate,
      WindowInv, AbortInv, SupersededIsCut, Fetching, QueueInv, RunningIsJob, PendingIsNewest
<1> QED BY <1>2, <1>3, <1>4, <1>5

LEMMA ProbeVerdictKeeps ==
  ASSUME OpenerInv, QueueTypeOK', QueueInv', ProbeVerdict
  PROVE  OpenerInv'
<1>1. TypeOK'
  BY NumberFacts DEF ProbeVerdict
<1>2. ControlInv'
  BY NumberFacts
  DEF ProbeVerdict, Busy, StageInv, GoalInv, OwnerInv, LockInv, BoundInv, MirrorInv, QueueInv,
      RunningIsJob, PendingIsNewest
<1>3. StreamInv'
  BY NumberFacts
  DEF ProbeVerdict, Busy, StageInv, GoalInv, OwnerInv, LockInv, BoundInv, MirrorInv, SpecInv,
      ArmedInv, CleanInv, SettledInv, ErrorInv, ArmedOnOwnStream, ShutdownIsClean, UpToDate,
      QueueInv, RunningIsJob, PendingIsNewest
<1>4. NetInv'
  BY NumberFacts
  DEF ProbeVerdict, Busy, StageInv, GoalInv, OwnerInv, LockInv, BoundInv, MirrorInv, SpecInv,
      ArmedInv, CleanInv, SettledInv, ErrorInv, ArmedOnOwnStream, ShutdownIsClean, UpToDate,
      WindowInv, AbortInv, SupersededIsCut, Fetching, QueueInv, RunningIsJob, PendingIsNewest
<1> QED BY <1>1, <1>2, <1>3, <1>4

\* The stream starts for the newest request, or not at all.
LEMMA StartStreamKeeps ==
  ASSUME OpenerInv, QueueTypeOK', QueueInv', StartStream
  PROVE  OpenerInv'
<1>1. stream' \in StreamTypes
  <2>1. CASE UNCHANGED stream
    BY <2>1 DEF StreamTypes
  <2>2. ASSUME NEW resume \in SUBSET {job.seq},
               stream' = [stream EXCEPT !.built = job.seq, !.active = TRUE,
                                        !.decoding = TRUE, !.eof = FALSE,
                                        !.seek = IF resume = {} THEN @ ELSE resume]
        PROVE  stream' \in StreamTypes
    <3>1. stream.seek \in SUBSET Seqs /\ resume \in SUBSET Seqs /\ job.seq \in Seqs
      BY NumberFacts
    <3> QED BY <2>2, <3>1 DEF StreamTypes
  <2> QED BY <2>1, <2>2 DEF StartStream
<1>2. CASE Bail(TRUE) /\ stream' = stream
  <2>1. UNCHANGED <<requestVars, opMtx, pipe, life, net, stream, rc, error, main, call>>
    BY <1>2
  <2>2. Cancelled /\ stage = "last" /\ stage' = "teardown" /\ goal' = "cancel"
    BY <1>2 DEF StartStream
  <2>3. TypeOK'
    BY <2>1, <2>2
  <2>4. ControlInv'
    BY <2>1, <2>2, NumberFacts
    DEF StageInv, GoalInv, OwnerInv, LockInv, BoundInv, MirrorInv, QueueInv, RunningIsJob,
        PendingIsNewest
  <2>5. StreamInv'
    BY <2>1, <2>2, NumberFacts
    DEF Busy, StageInv, GoalInv, OwnerInv, LockInv, BoundInv, MirrorInv, SpecInv, ArmedInv,
        CleanInv, SettledInv, ErrorInv, ArmedOnOwnStream, ShutdownIsClean, UpToDate, QueueInv,
        RunningIsJob, PendingIsNewest
  <2>6. NetInv'
    BY <2>1, <2>2, NumberFacts
    DEF StageInv, GoalInv, OwnerInv, LockInv, BoundInv, MirrorInv, SpecInv, ArmedInv, CleanInv,
        SettledInv, ErrorInv, ArmedOnOwnStream, ShutdownIsClean, UpToDate, WindowInv, AbortInv,
        SupersededIsCut, Fetching, QueueInv, RunningIsJob, PendingIsNewest
  <2> QED BY <2>3, <2>4, <2>5, <2>6
<1>3. CASE ~Bail(TRUE)
  <2>1. UNCHANGED <<requestVars, opMtx, pipe, life, net, goal, error, main, call>>
    BY <1>3 DEF StartStream
  <2>2. ~Cancelled /\ stage = "last" /\ stage' = "leave" /\ rc' = 0
    BY <1>3 DEF StartStream
  <2>3. /\ stream'.built = job.seq /\ stream'.spec = stream.spec
        /\ stream'.pause = stream.pause /\ stream'.restart = stream.restart
        /\ stream'.seek \subseteq stream.seek \cup {job.seq}
    BY <1>3, ZenonT(40) DEF StartStream
  <2>4. TypeOK'
    BY <1>1, <2>1, <2>2 DEF StreamTypes
  <2>5. ControlInv'
    BY <2>1, <2>2, NumberFacts
    DEF StageInv, GoalInv, OwnerInv, LockInv, BoundInv, MirrorInv, QueueInv, RunningIsJob,
        PendingIsNewest
  <2>6. StreamInv'
    BY <2>1, <2>2, <2>3, NumberFacts
    DEF Busy, StageInv, GoalInv, OwnerInv, LockInv, BoundInv, MirrorInv, SpecInv, ArmedInv,
        CleanInv, SettledInv, ErrorInv, ArmedOnOwnStream, ShutdownIsClean, UpToDate, QueueInv,
        RunningIsJob, PendingIsNewest
  <2>7. NetInv'
    BY <2>1, <2>2, NumberFacts
    DEF StageInv, GoalInv, OwnerInv, LockInv, BoundInv, MirrorInv, SpecInv, ArmedInv, CleanInv,
        SettledInv, ErrorInv, ArmedOnOwnStream, ShutdownIsClean, UpToDate, WindowInv, AbortInv,
        SupersededIsCut, Fetching, QueueInv, RunningIsJob, PendingIsNewest
  <2> QED BY <2>4, <2>5, <2>6, <2>7
<1> QED BY <1>2, <1>3 DEF StartStream

-----------------------------------------------------------------------------
(* The decode thread, and the calls from outside.                          *)

\* The decode thread, in a pipeline that is not being built.
LEMMA ApplySeekKeeps ==
  ASSUME OpenerInv, QueueTypeOK', QueueInv', ApplySeek
  PROVE  OpenerInv'
<1>1. stream' \in StreamTypes
  <2>1. CASE stream' = [stream EXCEPT !.seek = {}, !.eof = FALSE, !.active = TRUE]
    BY <2>1 DEF StreamTypes
  <2>2. CASE stream' = [stream EXCEPT !.seek = {}, !.eof = FALSE, !.restart = stream.seek]
    <3>1. stream.seek \in SUBSET Seqs
      OBVIOUS
    <3> QED BY <2>2, <3>1 DEF StreamTypes
  <2> QED BY <2>1, <2>2 DEF ApplySeek
<1>2. /\ stream'.built = stream.built /\ stream'.spec = stream.spec
      /\ stream'.decoding = stream.decoding /\ stream'.pause = stream.pause
      /\ stream'.seek = {} /\ stream'.restart \subseteq stream.seek \cup stream.restart
  BY ZenonT(40) DEF ApplySeek
<1>3. TypeOK'
  BY <1>1 DEF ApplySeek, StreamTypes
<1>4. ControlInv'
  BY NumberFacts
  DEF ApplySeek, Busy, StageInv, GoalInv, OwnerInv, LockInv, BoundInv, MirrorInv, QueueInv,
      RunningIsJob, PendingIsNewest
<1>5. StreamInv'
  BY <1>2
  DEF ApplySeek, Busy, StageInv, GoalInv, OwnerInv, LockInv, BoundInv, MirrorInv, SpecInv,
      ArmedInv, CleanInv, SettledInv, ErrorInv, ArmedOnOwnStream, ShutdownIsClean, UpToDate,
      QueueInv, RunningIsJob, PendingIsNewest
<1>6. NetInv'
  BY NumberFacts
  DEF ApplySeek, Busy, StageInv, GoalInv, OwnerInv, LockInv, BoundInv, MirrorInv, SpecInv,
      ArmedInv, CleanInv, SettledInv, ErrorInv, ArmedOnOwnStream, ShutdownIsClean, UpToDate,
      WindowInv, AbortInv, SupersededIsCut, Fetching, QueueInv, RunningIsJob, PendingIsNewest
<1> QED BY <1>3, <1>4, <1>5, <1>6

LEMMA DecodeRestartKeeps ==
  ASSUME OpenerInv, QueueTypeOK', QueueInv', DecodeRestart
  PROVE  OpenerInv'
<1>1. stream' \in StreamTypes
  BY NumberFacts DEF DecodeRestart, StreamTypes
<1>2. TypeOK'
  BY <1>1, NumberFacts DEF DecodeRestart, StreamTypes
<1>3. ControlInv'
  BY NumberFacts
  DEF DecodeRestart, Busy, StageInv, GoalInv, OwnerInv, LockInv, BoundInv, MirrorInv, QueueInv,
      RunningIsJob, PendingIsNewest
<1>4. StreamInv'
  BY NumberFacts
  DEF DecodeRestart, Busy, StageInv, GoalInv, OwnerInv, LockInv, BoundInv, MirrorInv, SpecInv,
      ArmedInv, CleanInv, SettledInv, ErrorInv, ArmedOnOwnStream, ShutdownIsClean, UpToDate,
      QueueInv, RunningIsJob, PendingIsNewest
<1>5. NetInv'
  BY NumberFacts
  DEF DecodeRestart, Busy, StageInv, GoalInv, OwnerInv, LockInv, BoundInv, MirrorInv, SpecInv,
      ArmedInv, CleanInv, SettledInv, ErrorInv, ArmedOnOwnStream, ShutdownIsClean, UpToDate,
      WindowInv, AbortInv, SupersededIsCut, Fetching, QueueInv, RunningIsJob, PendingIsNewest
<1> QED BY <1>2, <1>3, <1>4, <1>5

LEMMA DecodeEofKeeps ==
  ASSUME OpenerInv, QueueTypeOK', QueueInv', DecodeEof
  PROVE  OpenerInv'
<1>1. stream' \in StreamTypes
  BY NumberFacts DEF DecodeEof, StreamTypes
<1>2. TypeOK'
  BY <1>1, NumberFacts DEF DecodeEof, StreamTypes
<1>3. ControlInv'
  BY NumberFacts
  DEF DecodeEof, Busy, StageInv, GoalInv, OwnerInv, LockInv, BoundInv, MirrorInv, QueueInv,
      RunningIsJob, PendingIsNewest
<1>4. StreamInv'
  BY NumberFacts
  DEF DecodeEof, Busy, StageInv, GoalInv, OwnerInv, LockInv, BoundInv, MirrorInv, SpecInv,
      ArmedInv, CleanInv, SettledInv, ErrorInv, ArmedOnOwnStream, ShutdownIsClean, UpToDate,
      QueueInv, RunningIsJob, PendingIsNewest
<1>5. NetInv'
  BY NumberFacts
  DEF DecodeEof, Busy, StageInv, GoalInv, OwnerInv, LockInv, BoundInv, MirrorInv, SpecInv,
      ArmedInv, CleanInv, SettledInv, ErrorInv, ArmedOnOwnStream, ShutdownIsClean, UpToDate,
      WindowInv, AbortInv, SupersededIsCut, Fetching, QueueInv, RunningIsJob, PendingIsNewest
<1> QED BY <1>2, <1>3, <1>4, <1>5

LEMMA NextSegmentKeeps ==
  ASSUME OpenerInv, QueueTypeOK', QueueInv', NextSegment
  PROVE  OpenerInv'
<1>1. net' \in NetTypes
  BY NumberFacts DEF NextSegment, NetTypes, StreamTypes
<1>2. TypeOK'
  BY <1>1, NumberFacts DEF NextSegment, NetTypes
<1>3. ControlInv'
  BY NumberFacts
  DEF NextSegment, Busy, StageInv, GoalInv, OwnerInv, LockInv, BoundInv, MirrorInv, QueueInv,
      RunningIsJob, PendingIsNewest
<1>4. StreamInv'
  BY NumberFacts
  DEF NextSegment, Busy, StageInv, GoalInv, OwnerInv, LockInv, BoundInv, MirrorInv, SpecInv,
      ArmedInv, CleanInv, SettledInv, ErrorInv, ArmedOnOwnStream, ShutdownIsClean, UpToDate,
      QueueInv, RunningIsJob, PendingIsNewest
<1>5. NetInv'
  BY NumberFacts
  DEF NextSegment, Busy, StageInv, GoalInv, OwnerInv, LockInv, BoundInv, MirrorInv, SpecInv,
      ArmedInv, CleanInv, SettledInv, ErrorInv, ArmedOnOwnStream, ShutdownIsClean, UpToDate,
      WindowInv, AbortInv, SupersededIsCut, Fetching, QueueInv, RunningIsJob, PendingIsNewest
<1> QED BY <1>2, <1>3, <1>4, <1>5

LEMMA DecodeExitKeeps ==
  ASSUME OpenerInv, QueueTypeOK', QueueInv', DecodeExit
  PROVE  OpenerInv'
<1>1. stream' \in StreamTypes
  BY NumberFacts DEF DecodeExit, StreamTypes
<1>2. TypeOK'
  <2>1. UNCHANGED <<requestVars, opMtx, pipe, life, net, stage, goal, rc, error, main, call>>
    BY DEF DecodeExit
  <2> QED BY <1>1, <2>1 DEF StreamTypes
<1>3. ControlInv'
  BY NumberFacts
  DEF DecodeExit, Busy, StageInv, GoalInv, OwnerInv, LockInv, BoundInv, MirrorInv, QueueInv,
      RunningIsJob, PendingIsNewest
<1>4. StreamInv'
  BY NumberFacts
  DEF DecodeExit, Busy, StageInv, GoalInv, OwnerInv, LockInv, BoundInv, MirrorInv, SpecInv,
      ArmedInv, CleanInv, SettledInv, ErrorInv, ArmedOnOwnStream, ShutdownIsClean, UpToDate,
      QueueInv, RunningIsJob, PendingIsNewest
<1>5. NetInv'
  BY NumberFacts
  DEF DecodeExit, Busy, StageInv, GoalInv, OwnerInv, LockInv, BoundInv, MirrorInv, SpecInv,
      ArmedInv, CleanInv, SettledInv, ErrorInv, ArmedOnOwnStream, ShutdownIsClean, UpToDate,
      WindowInv, AbortInv, SupersededIsCut, Fetching, QueueInv, RunningIsJob, PendingIsNewest
<1> QED BY <1>2, <1>3, <1>4, <1>5

\* The calls from outside: who holds the guard is alone in the pipeline.
LEMMA CheckCallKeeps ==
  ASSUME OpenerInv, QueueTypeOK', QueueInv', NEW t \in Callers, CheckCall(t)
  PROVE  OpenerInv'
<1>1. call' \in CallTypes
  <2>1. call[t] \in [at : {"out", "in", "act", "signal", "leave"}, op : CallOps, saw : Seqs]
    OBVIOUS
  <2>2. stream.built \in Seqs
    OBVIOUS
  <2>3. PICK at \in {"act", "leave"} : call' = [call EXCEPT ![t].at = at, ![t].saw = stream.built]
    BY DEF CheckCall
  <2> QED BY <2>1, <2>2, <2>3 DEF CallTypes
<1>2. TypeOK'
  BY <1>1, NumberFacts DEF CheckCall, CallOps, OpsOf, CallTypes
<1>3. ControlInv'
  BY NumberFacts
  DEF CheckCall, CallOps, OpsOf, Busy, StageInv, GoalInv, OwnerInv, LockInv, BoundInv,
      MirrorInv, QueueInv, RunningIsJob, PendingIsNewest
<1>4. StreamInv'
  BY NumberFacts
  DEF CheckCall, CallOps, OpsOf, Busy, StageInv, GoalInv, OwnerInv, LockInv, BoundInv,
      MirrorInv, SpecInv, ArmedInv, CleanInv, SettledInv, ErrorInv, ArmedOnOwnStream,
      ShutdownIsClean, UpToDate, QueueInv, RunningIsJob, PendingIsNewest
<1>5. NetInv'
  BY NumberFacts
  DEF CheckCall, CallOps, OpsOf, Busy, StageInv, GoalInv, OwnerInv, LockInv, BoundInv,
      MirrorInv, SpecInv, ArmedInv, CleanInv, SettledInv, ErrorInv, ArmedOnOwnStream,
      ShutdownIsClean, UpToDate, WindowInv, AbortInv, SupersededIsCut, Fetching, QueueInv,
      RunningIsJob, PendingIsNewest
<1> QED BY <1>2, <1>3, <1>4, <1>5

LEMMA ActCallKeeps ==
  ASSUME OpenerInv, QueueTypeOK', QueueInv', NEW t \in Callers, ActCall(t)
  PROVE  OpenerInv'
<1>1. call' \in CallTypes
  BY NumberFacts DEF ActCall, CallOps, OpsOf, CallTypes, StreamTypes
<1>2. net' \in NetTypes
  BY NumberFacts DEF ActCall, CallOps, OpsOf, NetTypes, StreamTypes
<1>3. stream' \in StreamTypes
  <2>1. call[t].saw \in Seqs /\ stream \in StreamTypes
    BY DEF StreamTypes
  <2>2. PICK on \in BOOLEAN :
          stream' = [stream EXCEPT
                       !.seek    = IF call[t].op = "seek" THEN {call[t].saw} ELSE @,
                       !.restart = IF call[t].op = "audio" THEN {call[t].saw} ELSE @,
                       !.pause   = IF call[t].op # "pause" THEN @
                                   ELSE IF on THEN {call[t].saw} ELSE {}]
    BY DEF ActCall
  <2> QED BY <2>1, <2>2 DEF StreamTypes
<1>4. TypeOK'
  <2>1. UNCHANGED <<requestVars, opMtx, pipe, life, stage, goal, rc, error, main>>
    BY DEF ActCall
  <2> QED BY <1>1, <1>2, <1>3, <2>1 DEF CallTypes, NetTypes, StreamTypes, CallOps, OpsOf, requestVars
<1>5. ControlInv'
  BY NumberFacts
  DEF ActCall, CallOps, OpsOf, Busy, StageInv, GoalInv, OwnerInv, LockInv, BoundInv, MirrorInv,
      QueueInv, RunningIsJob, PendingIsNewest
<1>6. StreamInv'
  BY NumberFacts
  DEF ActCall, CallOps, OpsOf, Busy, StageInv, GoalInv, OwnerInv, LockInv, BoundInv, MirrorInv,
      SpecInv, ArmedInv, CleanInv, SettledInv, ErrorInv, ArmedOnOwnStream, ShutdownIsClean,
      UpToDate, QueueInv, RunningIsJob, PendingIsNewest
<1>7. NetInv'
  BY NumberFacts
  DEF ActCall, CallOps, OpsOf, Busy, StageInv, GoalInv, OwnerInv, LockInv, BoundInv, MirrorInv,
      SpecInv, ArmedInv, CleanInv, SettledInv, ErrorInv, ArmedOnOwnStream, ShutdownIsClean,
      UpToDate, WindowInv, AbortInv, SupersededIsCut, Fetching, QueueInv, RunningIsJob,
      PendingIsNewest
<1> QED BY <1>4, <1>5, <1>6, <1>7

LEMMA SignalCallKeeps ==
  ASSUME OpenerInv, QueueTypeOK', QueueInv', NEW t \in Callers, SignalCall(t)
  PROVE  OpenerInv'
<1>1. call' \in CallTypes
  BY NumberFacts DEF SignalCall, CallOps, OpsOf, CallTypes, StreamTypes
<1>2. TypeOK'
  BY <1>1, NumberFacts DEF SignalCall, CallOps, OpsOf, CallTypes
<1>3. ControlInv'
  BY NumberFacts
  DEF SignalCall, CallOps, OpsOf, Busy, StageInv, GoalInv, OwnerInv, LockInv, BoundInv,
      MirrorInv, QueueInv, RunningIsJob, PendingIsNewest
<1>4. StreamInv'
  BY NumberFacts
  DEF SignalCall, CallOps, OpsOf, Busy, StageInv, GoalInv, OwnerInv, LockInv, BoundInv,
      MirrorInv, SpecInv, ArmedInv, CleanInv, SettledInv, ErrorInv, ArmedOnOwnStream,
      ShutdownIsClean, UpToDate, QueueInv, RunningIsJob, PendingIsNewest
<1>5. NetInv'
  BY NumberFacts
  DEF SignalCall, CallOps, OpsOf, Busy, StageInv, GoalInv, OwnerInv, LockInv, BoundInv,
      MirrorInv, SpecInv, ArmedInv, CleanInv, SettledInv, ErrorInv, ArmedOnOwnStream,
      ShutdownIsClean, UpToDate, WindowInv, AbortInv, SupersededIsCut, Fetching, QueueInv,
      RunningIsJob, PendingIsNewest
<1> QED BY <1>2, <1>3, <1>4, <1>5

LEMMA LeaveCallKeeps ==
  ASSUME OpenerInv, QueueTypeOK', QueueInv', NEW t \in Callers, LeaveCall(t)
  PROVE  OpenerInv'
<1>1. call' \in CallTypes
  BY NumberFacts DEF LeaveCall, CallOps, OpsOf, CallTypes, StreamTypes
<1>2. TypeOK'
  BY <1>1, NumberFacts DEF LeaveCall, CallOps, OpsOf, CallTypes
<1>3. ControlInv'
  BY NumberFacts
  DEF LeaveCall, CallOps, OpsOf, Busy, StageInv, GoalInv, OwnerInv, LockInv, BoundInv,
      MirrorInv, QueueInv, RunningIsJob, PendingIsNewest
<1>4. StreamInv'
  BY NumberFacts
  DEF LeaveCall, CallOps, OpsOf, Busy, StageInv, GoalInv, OwnerInv, LockInv, BoundInv,
      MirrorInv, SpecInv, ArmedInv, CleanInv, SettledInv, ErrorInv, ArmedOnOwnStream,
      ShutdownIsClean, UpToDate, QueueInv, RunningIsJob, PendingIsNewest
<1>5. NetInv'
  BY NumberFacts
  DEF LeaveCall, CallOps, OpsOf, Busy, StageInv, GoalInv, OwnerInv, LockInv, BoundInv,
      MirrorInv, SpecInv, ArmedInv, CleanInv, SettledInv, ErrorInv, ArmedOnOwnStream,
      ShutdownIsClean, UpToDate, WindowInv, AbortInv, SupersededIsCut, Fetching, QueueInv,
      RunningIsJob, PendingIsNewest
<1> QED BY <1>2, <1>3, <1>4, <1>5

LEMMA EnterCallKeeps ==
  ASSUME OpenerInv, QueueTypeOK', QueueInv', NEW t \in Callers, NEW op \in OpsOf(t),
         EnterCall(t, op)
  PROVE  OpenerInv'
<1>1. call' \in CallTypes
  BY NumberFacts DEF EnterCall, CallOps, OpsOf, CallTypes, StreamTypes
<1>2. TypeOK'
  BY <1>1, NumberFacts DEF EnterCall, CallOps, OpsOf, CallTypes
<1>3. ControlInv'
  BY NumberFacts
  DEF EnterCall, CallOps, OpsOf, Busy, StageInv, GoalInv, OwnerInv, LockInv, BoundInv,
      MirrorInv, QueueInv, RunningIsJob, PendingIsNewest
<1>4. StreamInv'
  BY NumberFacts
  DEF EnterCall, CallOps, OpsOf, Busy, StageInv, GoalInv, OwnerInv, LockInv, BoundInv,
      MirrorInv, SpecInv, ArmedInv, CleanInv, SettledInv, ErrorInv, ArmedOnOwnStream,
      ShutdownIsClean, UpToDate, QueueInv, RunningIsJob, PendingIsNewest
<1>5. NetInv'
  BY NumberFacts
  DEF EnterCall, CallOps, OpsOf, Busy, StageInv, GoalInv, OwnerInv, LockInv, BoundInv,
      MirrorInv, SpecInv, ArmedInv, CleanInv, SettledInv, ErrorInv, ArmedOnOwnStream,
      ShutdownIsClean, UpToDate, WindowInv, AbortInv, SupersededIsCut, Fetching, QueueInv,
      RunningIsJob, PendingIsNewest
<1> QED BY <1>2, <1>3, <1>4, <1>5

-----------------------------------------------------------------------------
(* The invariant, and what follows from it.                                *)

LEMMA OpenerInitially == ASSUME Init PROVE OpenerInv
<1>1. TypeOK /\ QueueInv
  BY SeqModAssumption, OutcomesAssumption
  DEF Init, QueueInit, QueueTypeOK, EmptyQueue, NoRequest, Requests, Seqs, NoKind, CallOps,
      QueueInv, PendingIsNewest, RunningIsJob, IdleIsSettled, NothingBeforeFirst,
      PolledOnlyDone, KindOfNewest, Busy
<1> USE DEF Init, QueueInit, EmptyQueue, NoRequest
<1>2. \A t \in Callers : call[t].at = "out"
  OBVIOUS
<1>3. ControlInv
  <2>1. MaxRequests \in Nat
    BY BoundAssumption
  <2>2. StageInv /\ GoalInv /\ OwnerInv /\ LockInv
    BY <1>2 DEF StageInv, GoalInv, OwnerInv, LockInv
  <2>3. BoundInv
    BY <2>1 DEF BoundInv
  <2>4. MirrorInv
    BY DEF MirrorInv, NoKind, Busy
  <2> QED BY <2>2, <2>3, <2>4
<1>4. StreamInv
  BY <1>2
  DEF SpecInv, ArmedInv, CleanInv, SettledInv, ErrorInv, ArmedOnOwnStream, ShutdownIsClean,
      UpToDate, NoKind
<1>5. NetInv
  BY DEF WindowInv, AbortInv, SupersededIsCut, Fetching
<1> QED BY <1>1, <1>3, <1>4, <1>5

LEMMA OpenerStep == ASSUME OpenerInv, [Next]_vars PROVE OpenerInv'
<1>1. QueueTypeOK' /\ QueueInv'
  BY QueueStep, QueueTypeStep, QueueInvStep
<1>2. CASE Deciding
  BY <1>1, <1>2, AskKeeps, RenderRestartKeeps, ShutdownSubmitKeeps, ShutdownSyncKeeps,
     PollOpenKeeps, RenderEofKeeps DEF Deciding
<1>3. CASE Submitting \/ DrainDone \/ DrainTimeout
  BY <1>1, <1>3, PublishLatestKeeps, PublishBusyKeeps, AbortRunningKeeps, AbortSignalKeeps,
     WakeWorkerKeeps, DrainDoneKeeps, DrainTimeoutKeeps DEF Submitting
<1>4. CASE Executing \/ EnterGuard
  BY <1>1, <1>4, WorkerLockKeeps, WorkerWaitKeeps, WorkerQuitKeeps, TakeJobKeeps, BeginJobKeeps,
     LeaveGuardKeeps, JobDoneKeeps, TeardownWindowKeeps, StopDecodeKeeps, SignalDecodeKeeps,
     CloseSourceKeeps, PrepareKeeps, ResolvePageKeeps, PageVerdictKeeps, ChooseSourceKeeps,
     OpenSourceKeeps, ConnectKeeps, SourceCloseKeeps, SourceVerdictKeeps, ProbeWindowKeeps,
     ProbeReadKeeps, ProbeReadDoneKeeps, ProbedKeeps, ProbeCloseKeeps, ProbeVerdictKeeps,
     StartStreamKeeps, EnterGuardKeeps DEF Executing
<1>5. CASE Decoding \/ DecodeExit
  BY <1>1, <1>5, ApplySeekKeeps, DecodeRestartKeeps, DecodeEofKeeps, NextSegmentKeeps,
     DecodeExitKeeps DEF Decoding
<1>6. ASSUME NEW t \in Callers, Calling(t) \/ \E op \in OpsOf(t) : EnterCall(t, op)
      PROVE  OpenerInv'
  BY <1>1, <1>6, CheckCallKeeps, ActCallKeeps, SignalCallKeeps, LeaveCallKeeps, EnterCallKeeps
  DEF Calling
<1>7. CASE UNCHANGED vars
  BY <1>1, <1>7
  DEF vars, Busy, StageInv, GoalInv, OwnerInv, LockInv, BoundInv, MirrorInv, SpecInv, ArmedInv,
      CleanInv, SettledInv, ErrorInv, ArmedOnOwnStream, ShutdownIsClean, UpToDate, WindowInv,
      AbortInv, SupersededIsCut, Fetching
<1> QED BY <1>2, <1>3, <1>4, <1>5, <1>6, <1>7 DEF Next, Terminated

\* The opener: what the threads, the queue and the pipeline say of each other at every
\* step of main, of the worker, of the decode thread and of the calls.
THEOREM OpenerInvariant == Spec => []OpenerInv
<1> QED BY OpenerInitially, OpenerStep, PTL DEF Spec

\* Every variable of the opener holds a value of its type.
THEOREM OpenerTypes == Spec => []TypeOK
<1>1. OpenerInv => TypeOK
  OBVIOUS
<1> QED BY <1>1, OpenerInvariant, PTL

\* open_submit, opener_main and player_poll_open together keep every promise of
\* LatestWins to who asked for a stream.
THEOREM OpenerImplementsLatestWins == Spec => ImplementsLatestWins
<1>1. Init => QueueInit
  BY DEF Init
<1>2. Spec => QueueSpec
  BY <1>1, QueueStep, OpenerInvariant, PTL DEF Spec, QueueSpec
<1> QED BY <1>2, QueueRefinement

\* No call that passed its check of player_opening() overlaps a teardown or an open, and
\* from the queueing of a request to its result g_opBusy is up.
THEOREM PipelineHasOneUser == Spec => []PipelineExclusive
<1>1. OpenerInv => PipelineExclusive
  BY DEF PipelineExclusive, OwnerInv, MirrorInv, StageInv, GoalInv
<1> QED BY <1>1, OpenerInvariant, PTL

\* When nothing is busy, what is up is what the newest request asked for.
THEOREM NewestIsUp == Spec => []SettledIsNewest
<1>1. OpenerInv => SettledIsNewest
  BY NumberFacts
  DEF SettledIsNewest, Busy, StageInv, GoalInv, OwnerInv, LockInv, BoundInv, MirrorInv, SpecInv,
      ArmedInv, CleanInv, SettledInv, ErrorInv, ArmedOnOwnStream, ShutdownIsClean, UpToDate,
      WindowInv, Fetching
<1> QED BY <1>1, OpenerInvariant, PTL

\* An abort reaches the superseded open, wherever it blocks, and no other.
THEOREM AbortsReachTheSuperseded == Spec => []AbortsHitTheSuperseded
<1>1. OpenerInv => AbortsHitTheSuperseded
  BY DEF AbortsHitTheSuperseded, NoStrayAbort, AbortInv, Fetching
<1> QED BY <1>1, OpenerInvariant, PTL

\* open_submit signals httpsrc's mutex only while it exists.
THEOREM SignalsAreLive == Spec => []SupersedeSignalsLiveMutex
<1>1. OpenerInv => SupersedeSignalsLiveMutex
  BY DEF SupersedeSignalsLiveMutex, WindowInv
<1> QED BY <1>1, OpenerInvariant, PTL

\* A seek, a pause or a restart acts on the stream its caller saw.
THEOREM ArmedOnItsStream == Spec => []ArmedOnOwnStream
<1>1. OpenerInv => ArmedOnOwnStream
  BY DEF ArmedInv
<1> QED BY <1>1, OpenerInvariant, PTL

\* A shutdown that ends cleanly leaves no stream, thread or source behind.
THEOREM ShutdownLeavesNothing == Spec => []ShutdownIsClean
<1>1. OpenerInv => ShutdownIsClean
  BY DEF CleanInv
<1> QED BY <1>1, OpenerInvariant, PTL

\* The failure of a superseded request is not shown.
THEOREM SupersededErrorsAreWiped == Spec => NoSupersededError
<1> DEFINE Wiped ==
      stage = "done" /\ stage' # "done" /\ Superseded(q, job.seq) => error' # job.seq
<1>1. ASSUME OpenerInv, [Next]_vars
      PROVE  [Wiped]_vars
  <2>1. CASE JobDone
    BY <1>1, <2>1, DoneFinishes, NumberFacts DEF JobDone, ErrorInv
  <2>2. CASE ~JobDone /\ stage = "done"
    <3>1. CASE Deciding \/ Submitting \/ DrainDone \/ DrainTimeout \/ EnterGuard
      BY <1>1, <2>2, <3>1 DEF StageInv, Deciding, Ask, StartOpener, RenderRestart,
         ShutdownSubmit, OpenSubmit, PollOpen, Submitting, DrainDone, DrainTimeout, EnterGuard,
         ShutdownSync, RenderEof, PublishLatest, PublishBusy, AbortRunning, AbortSignal, WakeWorker
    <3>2. CASE Executing
      BY <2>2, <3>2 DEF Executing, WorkerLock, WorkerWait, WorkerQuit, TakeJob, BeginJob,
         LeaveGuard, TeardownWindow, StopDecode, SignalDecode, CloseSource, Prepare, ResolvePage,
         PageVerdict, ChooseSource, OpenSource, Connect, SourceClose, SourceVerdict, ProbeWindow,
         ProbeRead, ProbeReadDone, Probed, ProbeClose, ProbeVerdict, StartStream, ResumeClear,
         ResumeCheck
    <3>3. CASE Decoding \/ DecodeExit
      BY <2>2, <3>3 DEF Decoding, ApplySeek, DecodeRestart, DecodeEof, NextSegment, DecodeExit
    <3>4. ASSUME NEW t \in Callers, Calling(t) \/ \E op \in OpsOf(t) : EnterCall(t, op)
          PROVE  stage' = stage
      BY <3>4 DEF Calling, CheckCall, ActCall, SignalCall, LeaveCall, EnterCall
    <3>5. CASE UNCHANGED vars
      BY <3>5 DEF vars
    <3> QED BY <1>1, <2>2, <3>1, <3>2, <3>3, <3>4, <3>5 DEF Next, Terminated
  <2> QED BY <2>1, <2>2
<1> QED BY <1>1, OpenerInvariant, PTL DEF Spec, NoSupersededError
=============================================================================
