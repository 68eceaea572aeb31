------------------------------- MODULE Opener -------------------------------
(***************************************************************************)
(* src/app/src/player_ff.c, the opener: main queues play and stop requests *)
(* (open_submit), one worker thread carries them out (opener_main,         *)
(* play_open, player_teardown), and threads of the HTTP server reach into  *)
(* the same pipeline under a try-locked guard (player_seek, player_pause,  *)
(* player_select_audio, player_interrupt) while the decode thread of the   *)
(* current stream runs.  A network stage of an open is cut short by abort  *)
(* flags in httpsrc.c and aseg.c that the superseding submit raises inside *)
(* the window the worker opened for that stage.                            *)
(*                                                                         *)
(* A stream is named by the number of the request that opened it, so that  *)
(* "armed for the stream its caller saw" can be said.                      *)
(***************************************************************************)
EXTENDS OpenQueue

CONSTANTS Main, Worker, Others,   \* threads; Others serve HTTP requests
          NoOne,                  \* nobody holds the mutex
          SourceKinds,            \* sources to open: "local", "hls", "http"
          MaxRequests             \* bound on the requests main submits

ASSUME ThreadsAssumption ==
  /\ Main # Worker /\ NoOne \notin {Main, Worker}
  /\ {Main, Worker, NoOne} \cap Others = {}
ASSUME KindsAssumption == SourceKinds \subseteq {"local", "hls", "http"}
ASSUME OutcomesOfOpens == {0, 1, 9} \subseteq Outcomes   \* OPEN_RC_CANCELLED is 9
ASSUME BoundAssumption == MaxRequests \in Nat /\ MaxRequests < SeqMod - 1

VARIABLES
  mirror,   \* g_opRunSeq, g_opLatest, g_opLatestKind, g_opBusy: read without a lock
  opMtx,    \* holder of g_opMtx
  pipe,     \* holder of g_pipeMtx, the pipeline guard
  life,     \* g_opState, the worker's wakeup, g_opQuit and g_opExited
  net,      \* the sources: kind, abort window, abort flags, httpsrc's live mutex
  stream,   \* the pipeline that was opened and what is armed on it
  stage,    \* where the thread that executes the current request is
  goal,     \* why it is tearing down: what the teardown returns to
  rc,       \* the return code it will report
  error,    \* request whose failure /status shows, 0 for none
  main,     \* where the main thread is in open_submit or player_shutdown
  call      \* per thread: the guarded call it is in

requestVars == <<q, job, mirror>>
vars == <<q, job, mirror, opMtx, pipe, life, net, stream, stage, goal, rc,
          error, main, call>>

Callers == Others \cup {Main}
CallOps == {"seek", "pause", "audio", "interrupt"}

\* Main seeks, pauses and switches audio from the pad; only the HTTP server
\* interrupts.
OpsOf(t) == IF t = Main THEN CallOps \ {"interrupt"} ELSE CallOps

NoStream == [built |-> 0, spec |-> NoSpec, active |-> FALSE, decoding |-> FALSE,
             eof |-> FALSE, seek |-> {}, pause |-> {}, restart |-> {}]

Init ==
  /\ QueueInit
  /\ mirror = [run |-> 0, latest |-> 0, kind |-> NoKind, busy |-> FALSE]
  /\ opMtx = NoOne
  /\ pipe = NoOne
  /\ life = [worker |-> "new", signalled |-> FALSE, leaving |-> FALSE,
             quit |-> FALSE, exited |-> FALSE]
  /\ net = [kind |-> "http", window |-> "none", httpAbort |-> FALSE,
            asegAbort |-> FALSE, mutex |-> FALSE]
  /\ stream = NoStream
  /\ stage = "off"
  /\ goal = "none"
  /\ rc = 0
  /\ error = 0
  /\ main = "frame"
  /\ call = [t \in Callers |-> [at |-> "out", op |-> "seek", saw |-> 0]]

-----------------------------------------------------------------------------
(* What every step below reads.                                             *)

\* The thread that executes requests: the worker, or main when no worker exists.
Executor == IF life.worker = "up" THEN Worker ELSE Main

\* op_lock does nothing while requests run synchronously on main.
OpLockFree == life.worker # "up" \/ opMtx = NoOne

\* open_cancelled: the request being executed is not the newest any more.
Cancelled == mirror.run # 0 /\ mirror.run # mirror.latest

MainIdle == main = "frame" /\ call[Main].at = "out"

\* Mutant: busy says only that a request waits, not that one executes.
PublishedPendingOnly(run, queue) ==
  [run |-> run, latest |-> queue.lastSeq, kind |-> queue.lastKind,
   busy |-> queue.havePending]

\* op_publish, on the queue as it will be after the step.
Published(run, queue) ==
  [run |-> run, latest |-> queue.lastSeq, kind |-> queue.lastKind,
   busy |-> Busy(queue)]

-----------------------------------------------------------------------------
(* Main: open_submit, step by step under g_opMtx.                           *)

\* opener_start settles on first use whether there is a worker.
StartOpener ==
  IF life.worker = "new"
    THEN \E w \in {"up", "sync"} :
           /\ life' = [life EXCEPT !.worker = w]
           /\ stage' = IF w = "up" THEN "born" ELSE stage
    ELSE UNCHANGED <<life, stage>>

OpenSubmit(k, s) ==
  /\ MainIdle
  /\ OpLockFree
  /\ q' = Submitted(q, k, s)
  /\ main' = "publish"

Ask(k, s) ==
  /\ q.lastSeq < MaxRequests
  /\ k = "stop" => life.worker # "new"      \* else player_stop has nothing to stop
  /\ OpenSubmit(k, s)
  /\ StartOpener
  /\ opMtx' = IF life'.worker = "up" THEN Main ELSE NoOne
  /\ UNCHANGED <<job, mirror, pipe, net, stream, goal, rc, error, call>>

\* render_threaded: a restart the decode thread or an audio switch asked for
\* replays the spec of the stream on screen.
RenderRestart ==
  /\ ~mirror.busy
  /\ stream.built # 0
  /\ stream.restart # {}
  /\ q.lastSeq < MaxRequests
  /\ OpenSubmit("play", stream.spec)
  /\ opMtx' = IF life.worker = "up" THEN Main ELSE NoOne
  /\ stream' = [stream EXCEPT !.restart = {}]
  /\ UNCHANGED <<job, mirror, pipe, life, net, stage, goal, rc, error, call>>

\* player_shutdown with a worker: a last stop, then wait for the worker to leave.
ShutdownSubmit ==
  /\ life.worker = "up"
  /\ OpenSubmit("stop", NoSpec)
  /\ opMtx' = Main
  /\ life' = [life EXCEPT !.leaving = TRUE]
  /\ UNCHANGED <<job, mirror, pipe, net, stream, stage, goal, rc, error, call>>

PublishLatest ==
  /\ main = "publish"
  /\ mirror' = [mirror EXCEPT !.latest = q.lastSeq, !.kind = q.lastKind]
  /\ main' = "publishBusy"
  /\ UNCHANGED <<q, job, opMtx, pipe, life, net, stream, stage, goal, rc, error, call>>

PublishBusy ==
  /\ main = "publishBusy"
  /\ mirror' = [mirror EXCEPT !.busy = Busy(q)]
  /\ main' = "supersede"
  /\ UNCHANGED <<q, job, opMtx, pipe, life, net, stream, stage, goal, rc, error, call>>

\* op_abort_running: raise the abort the worker's stage left its window open for.
\* httpsrc_abort goes on to signal httpsrc's mutex when a reader thread is up.
AbortRunning ==
  /\ main = "supersede"
  /\ LET cut == IF CancelsRunning(q) THEN net.window ELSE "none"
     IN  /\ net' = [net EXCEPT !.httpAbort = @ \/ cut = "httpsrc",
                               !.asegAbort = @ \/ cut = "aseg"]
         /\ main' = IF cut = "httpsrc" /\ net.mutex THEN "abortSignal" ELSE "wake"
  /\ UNCHANGED <<requestVars, opMtx, pipe, life, stream, stage, goal, rc, error, call>>

AbortSignal ==
  /\ main = "abortSignal"
  /\ main' = "wake"
  /\ UNCHANGED <<requestVars, opMtx, pipe, life, net, stream, stage, goal, rc, error, call>>

\* Mutant: the condition is never signalled.
WakeWorkerUnsignalled ==
  /\ main = "wake"
  /\ opMtx' = NoOne
  /\ life' = [life EXCEPT !.quit = @ \/ life.leaving]
  /\ main' = IF life.leaving THEN "drain"
             ELSE IF life.worker = "up" THEN "frame" ELSE "sync"
  /\ stage' = IF life.worker = "up" THEN stage ELSE "take"
  /\ UNCHANGED <<requestVars, pipe, net, stream, goal, rc, error, call>>

\* Signal the worker and drop g_opMtx; without a worker main takes the job itself.
WakeWorker ==
  /\ main = "wake"
  /\ opMtx' = NoOne
  /\ life' = [life EXCEPT !.signalled = @ \/ stage = "wait", !.quit = @ \/ life.leaving]
  /\ main' = IF life.leaving THEN "drain"
             ELSE IF life.worker = "up" THEN "frame" ELSE "sync"
  /\ stage' = IF life.worker = "up" THEN stage ELSE "take"
  /\ UNCHANGED <<requestVars, pipe, net, stream, goal, rc, error, call>>

\* player_poll_open.
PollOpen ==
  /\ MainIdle
  /\ OpLockFree
  /\ HasReport(q)
  /\ q' = Polled(q)
  /\ UNCHANGED <<job, mirror, opMtx, pipe, life, net, stream, stage, goal, rc,
                 error, main, call>>

\* render_threaded: the queue has drained after the end of the stream.
RenderEof ==
  /\ MainIdle
  /\ ~mirror.busy
  /\ stream.eof /\ stream.active
  /\ stream' = [stream EXCEPT !.active = FALSE]
  /\ UNCHANGED <<requestVars, opMtx, pipe, life, net, stage, goal, rc, error, main, call>>

-----------------------------------------------------------------------------
(* Main: player_shutdown after the submit, or at once without a worker.     *)

\* Mutant: the worker has left, so there is nothing to tear down.
DrainDoneNoTeardown ==
  /\ main = "drain"
  /\ life.exited
  /\ life' = [life EXCEPT !.worker = "sync"]
  /\ main' = "off"
  /\ UNCHANGED <<requestVars, opMtx, pipe, net, stream, stage, goal, rc, error, call>>

\* Mutant: main also waits for the last stop to be taken.
DrainDoneAwaitsStop ==
  /\ main = "drain"
  /\ life.exited /\ ~q.havePending
  /\ life' = [life EXCEPT !.worker = "sync"]
  /\ main' = "final"
  /\ stage' = "guard"
  /\ UNCHANGED <<requestVars, opMtx, pipe, net, stream, goal, rc, error, call>>

DrainDone ==
  /\ main = "drain"
  /\ life.exited
  /\ life' = [life EXCEPT !.worker = "sync"]
  /\ main' = "final"
  /\ stage' = "guard"
  /\ UNCHANGED <<requestVars, opMtx, pipe, net, stream, goal, rc, error, call>>

DrainTimeout ==
  /\ main = "drain"
  /\ ~life.exited
  /\ main' = "abandoned"
  /\ UNCHANGED <<requestVars, opMtx, pipe, life, net, stream, stage, goal, rc, error, call>>

ShutdownSync ==
  /\ MainIdle
  /\ life.worker # "up"
  /\ main' = "final"
  /\ stage' = "guard"
  /\ UNCHANGED <<requestVars, opMtx, pipe, life, net, stream, goal, rc, error, call>>

-----------------------------------------------------------------------------
(* The worker's loop, opener_main.                                          *)

WorkerLock ==
  /\ stage = "born" \/ (stage = "wait" /\ life.signalled)
  /\ opMtx = NoOne
  /\ opMtx' = Worker
  /\ life' = [life EXCEPT !.signalled = FALSE]
  /\ stage' = "loop"
  /\ UNCHANGED <<requestVars, pipe, net, stream, goal, rc, error, main, call>>

WorkerWait ==
  /\ stage = "loop"
  /\ ~life.quit /\ ~q.havePending
  /\ opMtx' = NoOne
  /\ stage' = "wait"
  /\ UNCHANGED <<requestVars, pipe, life, net, stream, goal, rc, error, main, call>>

WorkerQuit ==
  /\ stage = "loop"
  /\ life.quit
  /\ life' = [life EXCEPT !.exited = TRUE]
  /\ opMtx' = NoOne
  /\ stage' = "off"
  /\ UNCHANGED <<requestVars, pipe, net, stream, goal, rc, error, main, call>>

\* openq_take, g_opRunSeq, op_publish: in the worker under g_opMtx, on main without.
TakeJob ==
  /\ \/ stage = "loop" /\ ~life.quit
     \/ stage = "take"
  /\ q.havePending
  /\ q' = Taken(q)
  /\ job' = q.pending
  /\ mirror' = Published(q.pending.seq, q')
  /\ opMtx' = NoOne
  /\ stage' = "guard"
  /\ UNCHANGED <<pipe, life, net, stream, goal, rc, error, main, call>>

\* pipe_lock: waits out a guarded call of another thread.
EnterGuard ==
  /\ stage = "guard"
  /\ pipe = NoOne
  /\ pipe' = Executor
  /\ stage' = IF main = "final" THEN "teardown" ELSE "begin"
  /\ goal' = IF main = "final" THEN "final" ELSE "none"
  /\ UNCHANGED <<requestVars, opMtx, life, net, stream, rc, error, main, call>>

\* open_job_run: nothing is touched for a request superseded before it began.
BeginJob ==
  /\ stage = "begin"
  /\ IF Cancelled
       THEN stage' = "leave" /\ rc' = 9 /\ UNCHANGED goal
       ELSE stage' = "teardown" /\ goal' = job.kind /\ UNCHANGED rc
  /\ UNCHANGED <<requestVars, opMtx, pipe, life, net, stream, error, main, call>>

LeaveGuard ==
  /\ stage = "leave"
  /\ pipe' = NoOne
  /\ IF goal = "final"
       THEN stage' = "off" /\ main' = "off"
       ELSE stage' = "done" /\ UNCHANGED main
  /\ UNCHANGED <<requestVars, opMtx, life, net, stream, goal, rc, error, call>>

\* Mutant: a superseded failure stays on /status.
JobDoneKeepsError ==
  /\ stage = "done"
  /\ OpLockFree
  /\ q' = Finished(q, job.seq, rc)
  /\ mirror' = Published(0, q')
  /\ IF life.worker = "up"
       THEN opMtx' = Worker /\ stage' = "loop" /\ UNCHANGED main
       ELSE stage' = "off" /\ main' = "frame" /\ UNCHANGED opMtx
  /\ UNCHANGED <<job, pipe, life, net, stream, goal, rc, error, call>>

\* open_job_done: a superseded failure is wiped from /status, the result recorded
\* and the lock-free mirror refreshed, all before g_opMtx is released.
JobDone ==
  /\ stage = "done"
  /\ OpLockFree
  /\ error' = IF rc # 0 /\ Superseded(q, job.seq) THEN 0 ELSE error
  /\ q' = Finished(q, job.seq, rc)
  /\ mirror' = Published(0, q')
  /\ IF life.worker = "up"
       THEN opMtx' = Worker /\ stage' = "loop" /\ UNCHANGED main
       ELSE stage' = "off" /\ main' = "frame" /\ UNCHANGED opMtx
  /\ UNCHANGED <<job, pipe, life, net, stream, goal, rc, call>>

-----------------------------------------------------------------------------
(* player_teardown, entered from `goal' and returning to it.                *)

\* op_abort_window(w): takes g_opMtx, so it waits for a submit in progress.
SetWindow(from, w, to) ==
  /\ stage = from
  /\ OpLockFree
  /\ net' = [net EXCEPT !.window = w]
  /\ stage' = to
  /\ UNCHANGED <<requestVars, opMtx, pipe, life, stream, goal, rc, error, main, call>>

TeardownWindow == SetWindow("teardown", "none", "stopDecode")

\* Raise its own aborts to unblock the decode thread; httpsrc_abort then signals
\* httpsrc's mutex.  aseg is aborted when a segment read-ahead thread runs.
StopDecode ==
  /\ stage = "stopDecode"
  /\ \E readAhead \in BOOLEAN :
       net' = [net EXCEPT
                 !.httpAbort = @ \/ stream.built # 0,
                 !.asegAbort = @ \/ (readAhead /\ stream.built # 0 /\ net.kind = "hls")]
  /\ stage' = IF stream.built # 0 /\ net.mutex THEN "signalDecode" ELSE "joinDecode"
  /\ UNCHANGED <<requestVars, opMtx, pipe, life, stream, goal, rc, error, main, call>>

SignalDecode ==
  /\ stage = "signalDecode"
  /\ stage' = "joinDecode"
  /\ UNCHANGED <<requestVars, opMtx, pipe, life, net, stream, goal, rc, error, main, call>>

\* Mutant: a restart the old decode thread asked for survives its teardown.
CloseSourceKeepsRestart ==
  /\ stage = "joinDecode"
  /\ ~stream.decoding
  /\ net' = [net EXCEPT !.kind = "http", !.mutex = FALSE, !.httpAbort = FALSE]
  /\ stream' = [NoStream EXCEPT !.spec = stream.spec, !.restart = stream.restart]
  /\ stage' = IF goal = "play" THEN "prepare" ELSE "leave"
  /\ rc' = CASE goal = "cancel" -> 9 [] goal = "fail" -> 1 [] OTHER -> 0
  /\ error' = IF goal = "fail" THEN job.seq ELSE error
  /\ UNCHANGED <<requestVars, opMtx, pipe, life, goal, main, call>>

\* The decode thread is joined: close the source and forget all that was armed.
\* httpsrc_close destroys its mutex and clears its abort; hls_close leaves aseg's
\* sticky abort raised if it stopped a prefetcher.  g_playSpec survives.
CloseSource ==
  /\ stage = "joinDecode"
  /\ ~stream.decoding
  /\ \E prefetching \in BOOLEAN :
       net' = [net EXCEPT
                 !.kind = "http",
                 !.mutex = FALSE,
                 !.httpAbort = @ /\ net.kind # "http" /\ ~net.mutex,
                 !.asegAbort = @ \/ (prefetching /\ net.kind = "hls")]
  /\ stream' = [NoStream EXCEPT !.spec = stream.spec]
  /\ stage' = IF goal = "play" THEN "prepare" ELSE "leave"
  /\ rc' = CASE goal = "cancel" -> 9 [] goal = "fail" -> 1 [] OTHER -> 0
  /\ error' = IF goal = "fail" THEN job.seq ELSE error
  /\ UNCHANGED <<requestVars, opMtx, pipe, life, goal, main, call>>

-----------------------------------------------------------------------------
(* play_open after its teardown: page resolve, source, demux probe, start.  *)

\* A step of the executing thread that moves on without touching shared state.
Quiet == UNCHANGED <<requestVars, opMtx, pipe, life, net, stream, goal, error, main, call>>

\* A checkpoint: give up with OPEN_RC_CANCELLED, after a teardown if need be.
Bail(cleanup) ==
  /\ Cancelled
  /\ IF cleanup
       THEN stage' = "teardown" /\ goal' = "cancel" /\ UNCHANGED rc
       ELSE stage' = "leave" /\ rc' = 9 /\ UNCHANGED goal
  /\ UNCHANGED <<requestVars, opMtx, pipe, life, net, stream, error, main, call>>

Fail ==
  /\ stage' = "teardown"
  /\ goal' = "fail"
  /\ UNCHANGED <<requestVars, opMtx, pipe, life, net, stream, rc, error, main, call>>

\* player_clear_error; then a page URL is resolved first, media opened directly.
Prepare ==
  /\ stage = "prepare"
  /\ error' = 0
  /\ IF Cancelled
       THEN stage' = "leave" /\ rc' = 9
       ELSE stage' \in {"pageClear", "source"} /\ UNCHANGED rc
  /\ UNCHANGED <<requestVars, opMtx, pipe, life, net, stream, goal, main, call>>

\* Mutant: the sticky abort of the last teardown is not cleared.
ResumeClearForgotten(from, to) ==
  /\ stage = from
  /\ stage' = to
  /\ UNCHANGED <<requestVars, opMtx, pipe, life, net, stream, goal, rc, error, main, call>>

\* resume_ch: clear the sticky abort, then re-raise it if this open has been
\* superseded meanwhile -- the clear may just have erased that very abort.
ResumeClear(from, to) ==
  /\ stage = from
  /\ net' = [net EXCEPT !.asegAbort = FALSE]
  /\ stage' = to
  /\ UNCHANGED <<requestVars, opMtx, pipe, life, stream, goal, rc, error, main, call>>

\* Mutant: the resume trusts its clear and never looks again.
ResumeCheckForgotten(from, to) ==
  /\ stage = from
  /\ stage' = to
  /\ UNCHANGED <<requestVars, opMtx, pipe, life, net, stream, goal, rc, error, main, call>>

ResumeCheck(from, to) ==
  /\ stage = from
  /\ net' = [net EXCEPT !.asegAbort = @ \/ Cancelled]
  /\ stage' = to
  /\ UNCHANGED <<requestVars, opMtx, pipe, life, stream, goal, rc, error, main, call>>

\* The page resolve: aseg_resume, the window, resolve_page with its own resume.
ResolvePage ==
  \/ ResumeClear("pageClear", "pageCheck")
  \/ ResumeCheck("pageCheck", "pageWindow")
  \/ SetWindow("pageWindow", "aseg", "fetchClear")
  \/ ResumeClear("fetchClear", "fetchCheck")
  \/ ResumeCheck("fetchCheck", "pageFetch")
  \/ stage = "pageFetch" /\ stage' = "pageClose" /\ Quiet /\ UNCHANGED rc
  \/ SetWindow("pageClose", "none", "pageVerdict")

\* An aborted fetch is no verdict on the page; an offline page is an error.
PageVerdict ==
  /\ stage = "pageVerdict"
  /\ \/ Bail(FALSE)
     \/ ~Cancelled /\ stage' = "source" /\ Quiet /\ UNCHANGED rc
     \/ /\ ~Cancelled
        /\ stage' = "leave" /\ rc' = 1 /\ error' = job.seq
        /\ UNCHANGED <<requestVars, opMtx, pipe, life, net, stream, goal, main, call>>

\* Mutant: the kind of source is not settled before its window opens.
ChooseSourceUnset ==
  /\ stage = "source"
  /\ net' = [net EXCEPT !.kind = "none"]
  /\ stage' = "connect"
  /\ stream' = [stream EXCEPT !.spec = job.spec]
  /\ UNCHANGED <<requestVars, opMtx, pipe, life, goal, rc, error, main, call>>

\* g_playSpec, g_isLocal and g_isHls are settled; a local file opens on the spot.
ChooseSource ==
  /\ stage = "source"
  /\ \E k \in SourceKinds :
       /\ net' = [net EXCEPT !.kind = k]
       /\ stage' = IF k = "local" THEN "connect" ELSE "sourceWindow"
  /\ stream' = [stream EXCEPT !.spec = job.spec]
  /\ UNCHANGED <<requestVars, opMtx, pipe, life, goal, rc, error, main, call>>

\* hls_open clears aseg's abort with the re-check; httpsrc_open clears its own
\* without one, and the checkpoints after it make up for that.
OpenSource ==
  \/ /\ net.kind = "hls"
     /\ SetWindow("sourceWindow", "aseg", "hlsClear")
  \/ /\ net.kind = "http"
     /\ SetWindow("sourceWindow", "httpsrc", "httpClear")
  \/ ResumeClear("hlsClear", "hlsCheck")
  \/ ResumeCheck("hlsCheck", "connect")
  \/ /\ stage = "httpClear"
     /\ net' = [net EXCEPT !.httpAbort = FALSE]
     /\ stage' = "connect"
     /\ UNCHANGED <<requestVars, opMtx, pipe, life, stream, goal, rc, error, main, call>>

\* The blocking connect returns, cut short or not; success over plain HTTP brings
\* up httpsrc's reader thread and its mutex.
Connect ==
  /\ stage = "connect"
  /\ \E ok \in BOOLEAN :
       /\ rc' = IF ok THEN 0 ELSE 1
       /\ net' = [net EXCEPT !.mutex = ok /\ net.kind = "http"]
  /\ stage' = IF net.kind = "local" THEN "sourceVerdict" ELSE "sourceClose"
  /\ UNCHANGED <<requestVars, opMtx, pipe, life, stream, goal, error, main, call>>

SourceClose == SetWindow("sourceClose", "none", "sourceVerdict")

SourceVerdict ==
  /\ stage = "sourceVerdict"
  /\ \/ rc # 0 /\ Fail
     \/ rc = 0 /\ Bail(TRUE)
     \/ rc = 0 /\ ~Cancelled /\ stage' = "probeWindow" /\ Quiet /\ UNCHANGED rc

\* Mutant: an HLS probe may be cut short through httpsrc like a plain one.
ProbeWindowAlways == SetWindow("probeWindow", "httpsrc", "probe")

ProbeWindow ==
  SetWindow("probeWindow", IF net.kind = "http" THEN "httpsrc" ELSE "none", "probe")

\* avio_read_cb during the probe: a superseded open fails its next read instead
\* of downloading on.
ProbeRead ==
  /\ stage = "probe"
  /\ stage' = IF Cancelled THEN "probed" ELSE "reading"
  /\ Quiet /\ UNCHANGED rc

\* A read returns.  HLS segments over httpsrc close one reader and open the next.
ProbeReadDone ==
  /\ stage = "reading"
  /\ stage' \in {"probe", "probed"}
  /\ IF net.kind = "hls"
       THEN \E up \in BOOLEAN :
              net' = [net EXCEPT !.mutex = up,
                                 !.httpAbort = IF up = net.mutex THEN @ ELSE FALSE]
       ELSE UNCHANGED net
  /\ UNCHANGED <<requestVars, opMtx, pipe, life, stream, goal, rc, error, main, call>>

\* avformat_open_input or the stream-info probe failed, or both succeeded --
\* even on the partial window an abort left.
Probed ==
  /\ stage = "probed"
  /\ \/ Fail
     \/ stage' = "probeClose" /\ Quiet /\ UNCHANGED rc

ProbeClose == SetWindow("probeClose", "none", "probeVerdict")

\* No video track or no decoder is a failure; a last look before threads start.
ProbeVerdict ==
  /\ stage = "probeVerdict"
  /\ \/ Bail(TRUE)
     \/ ~Cancelled /\ Fail
     \/ ~Cancelled /\ stage' = "last" /\ Quiet /\ UNCHANGED rc

\* g_started = g_active = 1 and the decode thread starts; a reopened plain file
\* seeks to the position its request carries.
StartStream ==
  /\ stage = "last"
  /\ \/ Bail(TRUE)
     \/ /\ ~Cancelled
        /\ \E resume \in SUBSET {job.seq} :
             /\ resume # {} => net.kind # "hls"
             /\ stream' = [stream EXCEPT !.built = job.seq, !.active = TRUE,
                                         !.decoding = TRUE, !.eof = FALSE,
                                         !.seek = IF resume = {} THEN @ ELSE resume]
        /\ stage' = "leave"
        /\ rc' = 0
        /\ UNCHANGED <<requestVars, opMtx, pipe, life, net, goal, error, main, call>>

-----------------------------------------------------------------------------
(* The decode thread of the current stream.                                 *)

DecodeStep(newStream, newNet) ==
  /\ stream.decoding
  /\ stream' = newStream
  /\ net' = newNet
  /\ UNCHANGED <<requestVars, opMtx, pipe, life, stage, goal, rc, error, main, call>>

\* apply_seek: in place, or for fMP4 by asking for a restart at the target.
ApplySeek ==
  /\ stream.seek # {}
  /\ \/ DecodeStep([stream EXCEPT !.seek = {}, !.eof = FALSE, !.active = TRUE], net)
     \/ /\ net.kind = "hls"
        /\ DecodeStep([stream EXCEPT !.seek = {}, !.eof = FALSE,
                                     !.restart = stream.seek], net)

\* A variant switch or a live reset: the thread asks for a restart and ends.
DecodeRestart ==
  /\ net.kind = "hls"
  /\ DecodeStep([stream EXCEPT !.restart = {stream.built}, !.decoding = FALSE], net)

DecodeEof ==
  /\ ~stream.eof
  /\ DecodeStep([stream EXCEPT !.eof = TRUE], net)

\* hls_read drains one segment and opens the next: httpsrc_close, httpsrc_open.
NextSegment ==
  /\ net.kind = "hls"
  /\ DecodeStep(stream, [net EXCEPT !.mutex = ~@, !.httpAbort = FALSE])

DecodeExit ==
  /\ stage = "joinDecode"
  /\ DecodeStep([stream EXCEPT !.decoding = FALSE], net)

-----------------------------------------------------------------------------
(* Calls that reach into the pipeline from main and from HTTP threads.      *)

\* Mutant: the call goes ahead without the pipeline guard.
EnterCallUnguarded(t, op) ==
  /\ call[t].at = "out"
  /\ t = Main => MainIdle /\ ~mirror.busy
  /\ call' = [call EXCEPT ![t] = [at |-> "in", op |-> op, saw |-> 0]]
  /\ UNCHANGED <<requestVars, opMtx, pipe, life, net, stream, stage, goal, rc, error, main>>

\* pipe_enter: main waits unless a request is busy; any other thread only tries.
EnterCall(t, op) ==
  /\ call[t].at = "out"
  /\ t = Main => MainIdle /\ ~mirror.busy
  /\ pipe = NoOne
  /\ pipe' = t
  /\ call' = [call EXCEPT ![t] = [at |-> "in", op |-> op, saw |-> 0]]
  /\ UNCHANGED <<requestVars, opMtx, life, net, stream, stage, goal, rc, error, main>>

\* !player_opening(), and a stream to act on unless it is a pause.
CheckCall(t) ==
  /\ call[t].at = "in"
  /\ LET go == /\ ~mirror.busy
               /\ call[t].op # "pause" => stream.built # 0
     IN  call' = [call EXCEPT ![t].at = IF go THEN "act" ELSE "leave",
                              ![t].saw = stream.built]
  /\ UNCHANGED <<requestVars, opMtx, pipe, life, net, stream, stage, goal, rc, error, main>>

\* The call itself.  player_interrupt aborts httpsrc unless the source is local,
\* then signals httpsrc's mutex if a reader is up; hls_audio_abort raises aseg's.
ActCall(t) ==
  /\ call[t].at = "act"
  /\ LET op   == call[t].op
         self == {call[t].saw}
         cut  == op = "interrupt" /\ net.kind # "local"
     IN  /\ \E on \in BOOLEAN :
              stream' = [stream EXCEPT
                           !.seek    = IF op = "seek"  THEN self ELSE @,
                           !.restart = IF op = "audio" THEN self ELSE @,
                           !.pause   = IF op # "pause" THEN @
                                       ELSE IF on THEN self ELSE {}]
         /\ net' = [net EXCEPT !.httpAbort = @ \/ cut,
                               !.asegAbort = @ \/ op = "interrupt"]
         /\ call' = [call EXCEPT ![t].at = IF cut /\ net.mutex THEN "signal" ELSE "leave"]
  /\ UNCHANGED <<requestVars, opMtx, pipe, life, stage, goal, rc, error, main>>

SignalCall(t) ==
  /\ call[t].at = "signal"
  /\ call' = [call EXCEPT ![t].at = "leave"]
  /\ UNCHANGED <<requestVars, opMtx, pipe, life, net, stream, stage, goal, rc, error, main>>

LeaveCall(t) ==
  /\ call[t].at = "leave"
  /\ pipe' = NoOne
  /\ call' = [call EXCEPT ![t] = [at |-> "out", op |-> "seek", saw |-> 0]]
  /\ UNCHANGED <<requestVars, opMtx, life, net, stream, stage, goal, rc, error, main>>

-----------------------------------------------------------------------------
Submitting ==
  \/ PublishLatest \/ PublishBusy \/ AbortRunning \/ AbortSignal \/ WakeWorker

Executing ==
  \/ WorkerLock \/ WorkerWait \/ WorkerQuit \/ TakeJob \/ BeginJob
  \/ LeaveGuard \/ JobDone
  \/ TeardownWindow \/ StopDecode \/ SignalDecode \/ CloseSource
  \/ Prepare \/ ResolvePage \/ PageVerdict
  \/ ChooseSource \/ OpenSource \/ Connect \/ SourceClose \/ SourceVerdict
  \/ ProbeWindow \/ ProbeRead \/ ProbeReadDone \/ Probed \/ ProbeClose
  \/ ProbeVerdict \/ StartStream

Deciding ==
  \/ \E ask \in Asks : Ask(ask[1], ask[2])
  \/ RenderRestart \/ ShutdownSubmit \/ ShutdownSync \/ PollOpen \/ RenderEof

Decoding == ApplySeek \/ DecodeRestart \/ DecodeEof \/ NextSegment

Calling(t) == CheckCall(t) \/ ActCall(t) \/ SignalCall(t) \/ LeaveCall(t)

\* The app is gone, or main has left a wedged worker behind for LoadExec to reap.
Terminated ==
  /\ main = "off" \/ (main = "abandoned" /\ life.exited)
  /\ UNCHANGED vars

Next ==
  \/ Deciding \/ Submitting \/ DrainDone \/ DrainTimeout
  \/ Executing \/ EnterGuard \/ Decoding \/ DecodeExit
  \/ \E t \in Callers : \/ Calling(t)
                        \/ \E op \in OpsOf(t) : EnterCall(t, op)
  \/ Terminated

Spec == Init /\ [][Next]_vars

-----------------------------------------------------------------------------
(* Fairness: every thread that can move does.  The network stages end by     *)
(* their own timeouts, the probe by its byte budget, a mutex wait by the     *)
(* brevity of the guarded calls -- strong fairness, since an HTTP thread may *)
(* win the lock many times before the worker does.  Nobody has to ask for    *)
(* anything, and the decode thread may stream on for ever.                   *)

ProbeEnds == ProbeReadDone /\ stage' = "probed"

Fairness ==
  /\ WF_vars(Submitting)
  /\ WF_vars(Executing)
  /\ SF_vars(EnterGuard)
  /\ SF_vars(ProbeEnds)
  /\ WF_vars(DecodeExit)
  /\ WF_vars(DrainDone \/ DrainTimeout)
  /\ \A t \in Callers : WF_vars(Calling(t))

FairSpec == Spec /\ Fairness

-----------------------------------------------------------------------------
IdleStages == {"off", "born", "wait", "loop", "take", "guard", "done"}
PageStages == {"pageClear", "pageCheck", "pageWindow", "fetchClear", "fetchCheck",
               "pageFetch", "pageClose", "pageVerdict"}
OpenStages == {"source", "sourceWindow", "hlsClear", "hlsCheck", "httpClear",
               "connect", "sourceClose", "sourceVerdict", "probeWindow", "probe",
               "reading", "probed", "probeClose", "probeVerdict", "last"}
RebuildStages == {"begin", "teardown", "stopDecode", "signalDecode", "joinDecode",
                  "prepare", "leave"} \cup PageStages \cup OpenStages
MainStates == {"frame", "publish", "publishBusy", "supersede", "abortSignal",
               "wake", "sync", "drain", "final", "off", "abandoned"}

\* Every variable holds a value of its type.
TypeOK ==
  /\ QueueTypeOK
  /\ mirror \in [run : Seqs, latest : Seqs, kind : Kinds \cup {NoKind}, busy : BOOLEAN]
  /\ opMtx \in {NoOne, Main, Worker}
  /\ pipe \in {NoOne, Worker} \cup Callers
  /\ life \in [worker : {"new", "up", "sync"}, signalled : BOOLEAN,
               leaving : BOOLEAN, quit : BOOLEAN, exited : BOOLEAN]
  /\ net \in [kind : {"local", "hls", "http"}, window : {"none", "httpsrc", "aseg"},
              httpAbort : BOOLEAN, asegAbort : BOOLEAN, mutex : BOOLEAN]
  /\ stream \in [built : Seqs, spec : Specs \cup {NoSpec}, active : BOOLEAN,
                 decoding : BOOLEAN, eof : BOOLEAN, seek : SUBSET Seqs,
                 pause : SUBSET Seqs, restart : SUBSET Seqs]
  /\ stage \in IdleStages \cup RebuildStages
  /\ goal \in {"none", "play", "stop", "cancel", "fail", "final"}
  /\ rc \in {0, 1, 9}
  /\ error \in Seqs
  /\ main \in MainStates
  /\ call \in [Callers -> [at : {"out", "in", "act", "signal", "leave"},
                           op : CallOps, saw : Seqs]]

Rebuilding == stage \in RebuildStages

\* "From the moment a request is queued until the worker publishes its result,
\* g_opBusy is 1" and nobody else is inside the pipeline: no call that passed its
\* check of player_opening() overlaps a teardown or an open.
PipelineExclusive ==
  Rebuilding => /\ mirror.busy \/ main = "final"
                /\ \A t \in Callers : call[t].at \notin {"act", "signal"}

\* "Latest wins": whenever main sees nothing busy, what is up was opened by the
\* newest request for what it asked, and after a stop nothing is up at all.
SettledIsNewest ==
  (main = "frame" /\ ~mirror.busy) =>
     /\ stream.built \in {0, mirror.latest}
     /\ stream.built # 0 => stream.spec = q.pending.spec
     /\ mirror.kind = "stop" => ~stream.decoding /\ ~net.mutex /\ stream.built = 0
     /\ net.window = "none"

\* A seek, a pause or a restart is armed only on the stream its caller saw, never
\* on the one that replaced it ("be applied to the NEXT stream", player_seek; "a
\* cast arriving right after an fMP4 scrub was seeked to the OLD target").
ArmedOnOwnStream ==
  stream.seek \cup stream.pause \cup stream.restart \subseteq {stream.built}

Fetching(kind, stages) == net.kind = kind /\ stage \in stages

\* A raised abort "never leaks into a stage it was not meant for": a fetch made
\* for the newest request never runs into an abort flag of an older one.
NoStrayAbort ==
  ~Cancelled =>
    /\ stage = "pageFetch" => ~net.asegAbort
    /\ Fetching("hls", {"connect", "probe", "reading", "last"}) => ~net.asegAbort
    /\ Fetching("http", {"connect", "probe", "reading", "last"}) => ~net.httpAbort

\* The other way round: once open_submit is past its aborts, a superseded open is
\* not left blocked in a page fetch, a playlist fetch or a probe read with its
\* abort flag down ("a resume must never erase an abort raised to supersede the
\* open in progress").  httpsrc_open's connect is not promised this.
SupersededIsCut ==
  (q.runSeq # 0 /\ q.havePending /\ main \notin {"publish", "publishBusy", "supersede"}) =>
    /\ stage = "pageFetch" => net.asegAbort
    /\ Fetching("hls", {"connect"}) => net.asegAbort
    /\ Fetching("http", {"reading"}) => net.httpAbort

\* So an abort reaches the superseded open, all of it, and nothing else.
AbortsHitTheSuperseded == SupersededIsCut /\ NoStrayAbort

\* open_submit never signals a mutex httpsrc_close has destroyed: windows are
\* closed before the source is.  A teardown or an interrupt during HLS playback
\* can, since the decode thread changes segments under it.
SupersedeSignalsLiveMutex == main = "abortSignal" => net.mutex

\* "A superseded open must not leave its failure on /status".
NoSupersededError ==
  [][(stage = "done" /\ stage' # "done" /\ Superseded(q, job.seq)) => error' # job.seq]_vars

\* A clean shutdown leaves no stream, no decode thread and no source behind, and
\* the guard free of main.
ShutdownIsClean ==
  main = "off" => /\ stream.built = 0 /\ ~stream.decoding /\ ~net.mutex
                  /\ pipe # Main /\ stage = "off"

\* The worker gets to every request or to a newer one: busy does not stay up,
\* unless the app is leaving and the last stop is left to player_shutdown.
BusySettles == mirror.busy ~> (~mirror.busy \/ life.quit)

\* player_shutdown returns: with everything down, or leaving the worker behind.
ShutdownEnds == life.leaving ~> main \in {"off", "abandoned"}

\* Both: nothing the worker or the player waits for stays undone.
OpensEnd == BusySettles /\ ShutdownEnds
=============================================================================
