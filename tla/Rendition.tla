----------------------------- MODULE Rendition -----------------------------
\* hls.c: the separate audio rendition of an HLS stream. A worker (apref_main) fetches the
\* next segments into a few slots, a reader takes them in order: the opener while it probes,
\* the audio thread afterwards. A third thread stops the worker, to seek, to interrupt, or
\* to tear the stream down.
EXTENDS Integers, FiniteSets

CONSTANTS
  Segs,           \* g_asegCount
  PrefetchSlots,  \* HLS_AUDIO_PREFETCH_SLOTS
  Tries,          \* hls_audio_read tries six segments
  MaxFails,       \* bounds: fetches that fail and waits that run out
  MaxTimelines    \*         opens and seeks

ASSUME RenditionAssumption ==
  /\ {Segs, PrefetchSlots, Tries} \subseteq Nat \ {0}
  /\ {MaxFails, MaxTimelines} \subseteq Nat

VARIABLES
  life,    \* the stream: closed, open, probe, play; whether it has g_aInit; g_audioStop
  list,    \* g_asegIdx, g_aInitPending, g_aAbort
  slots,   \* g_apref
  apref,   \* the worker: g_aprefUp, g_aprefStop, its stage and slot, its mutex
  sticky,  \* the abort of aseg.c, which every fetch heeds until aseg_resume
  rd,      \* the reader: stage, segment in hand, tries
  sp,      \* the stopping thread: stage, what for, where a seek goes
  hist     \* history: timelines, faults, what the demuxer got last, what was skipped
rendVars == <<life, list, slots, apref, sticky, rd, sp, hist>>

InitSegment == -1
None == -2
Piece(seg, line) == [seg |-> seg, line |-> line]
NoPiece == Piece(None, 0)
SlotIds == 1 .. PrefetchSlots
FreeSlot == [state |-> "free", piece |-> NoPiece]
NoSlots == [i \in SlotIds |-> FreeSlot]
Reader(at) == [at |-> at, piece |-> NoPiece, tries |-> 0]
Idle == Reader("idle")
NoStop == [at |-> "none", why |-> "none", to |-> 0]

RenditionInit ==
  /\ life = [at |-> "closed", init |-> FALSE, stop |-> FALSE]
  /\ list = [idx |-> 0, init |-> FALSE, abort |-> FALSE]
  /\ slots = NoSlots /\ sticky = FALSE /\ rd = Reader("off") /\ sp = NoStop
  /\ apref = [up |-> FALSE, stop |-> FALSE, at |-> "off", slot |-> 0, mtx |-> "none"]
  /\ hist = [line |-> 0, from |-> 0, faults |-> 0, last |-> None, lost |-> 0]

-----------------------------------------------------------------------------
\* apref_start; it also lifts the abort.
Started == [up |-> TRUE, stop |-> FALSE, at |-> "pick", slot |-> 0, mtx |-> "live"]
StartsUnless(init) ==
  IF apref.up \/ init THEN UNCHANGED apref ELSE apref' = Started

NextLine(from) == [hist EXCEPT !.line = @ + 1, !.from = from, !.last = None]

\* setup_audio_rendition in hls_open, which ends in apref_start.
OpenRendition ==
  /\ life.at = "closed" /\ hist.line < MaxTimelines
  /\ \E init \in BOOLEAN :
       /\ life' = [life EXCEPT !.at = "open", !.init = init]
       /\ list' = [idx |-> 0, init |-> init, abort |-> FALSE] /\ StartsUnless(init)
  /\ sticky' = FALSE /\ hist' = NextLine(0) /\ UNCHANGED <<slots, rd, sp>>

\* setup_separate_audio; a probe that fails ends like one that is torn down.
Probe ==
  /\ life.at = "open" /\ sp = NoStop /\ life' = [life EXCEPT !.at = "probe"] /\ rd' = Idle
  /\ UNCHANGED <<list, slots, apref, sticky, sp, hist>>

\* The audio thread takes over; the probe has read past the init segment.
Play ==
  /\ life.at = "probe" /\ sp = NoStop /\ rd.at = "idle" /\ ~list.init
  /\ life' = [life EXCEPT !.at = "play"]
  /\ UNCHANGED <<list, slots, apref, sticky, rd, sp, hist>>

-----------------------------------------------------------------------------
\* apref_main.

HasSegment(seg) == \E i \in SlotIds : slots[i].state # "free" /\ slots[i].piece.seg = seg
WantedSegments == {s \in list.idx .. list.idx + PrefetchSlots - 1 : s < Segs /\ ~HasSegment(s)}
Free == {i \in SlotIds : slots[i].state = "free"}
Lowest(S) == CHOOSE x \in S : \A y \in S : x <= y

Told == apref.stop \/ list.abort

PickNot ==
  /\ apref.at = "pick" /\ Told /\ apref' = [apref EXCEPT !.at = "gone"]
  /\ UNCHANGED <<life, list, slots, sticky, rd, sp, hist>>
Pick ==
  /\ apref.at = "pick" /\ ~Told /\ WantedSegments # {} /\ Free # {}
  /\ LET i == Lowest(Free)
         seg == Lowest(WantedSegments)
     IN  /\ slots' = [slots EXCEPT ![i] = [state |-> "fetching", piece |-> Piece(seg, hist.line)]]
         /\ apref' = [apref EXCEPT !.at = "fetch", !.slot = i]
  /\ UNCHANGED <<life, list, sticky, rd, sp, hist>>

\* A fetch fails at once while the abort is up, and for reasons of the network.
Fails == hist.faults < MaxFails /\ hist' = [hist EXCEPT !.faults = @ + 1]
Outcome(ok) == IF ok THEN ~sticky /\ UNCHANGED hist ELSE (sticky /\ UNCHANGED hist) \/ (~sticky /\ Fails)

Fetched ==
  /\ apref.at = "fetch" /\ \E ok \in BOOLEAN :
       /\ Outcome(ok)
       /\ IF Told THEN apref' = [apref EXCEPT !.at = "gone"] /\ UNCHANGED slots
          ELSE /\ apref' = [apref EXCEPT !.at = "pick"]
               /\ slots' = [slots EXCEPT ![apref.slot] = IF ok THEN [@ EXCEPT !.state = "ready"] ELSE FreeSlot]
  /\ UNCHANGED <<life, list, sticky, rd, sp>>

-----------------------------------------------------------------------------
\* hls_audio_read and ensure_audio_buf; a segment is read in one go.

Retried == IF rd.tries + 1 < Tries THEN [Reader("ensure") EXCEPT !.tries = rd.tries + 1] ELSE Idle
Now(at) == [rd EXCEPT !.at = at]

Read ==
  /\ rd.at = "idle" /\ life.at \in {"probe", "play"} /\ sp.why # "close" /\ ~life.stop /\ ~list.abort
  /\ rd' = Now("ensure") /\ UNCHANGED <<life, list, slots, apref, sticky, sp, hist>>
Exit ==
  /\ rd.at = "idle" /\ life.stop /\ rd' = Reader("off")
  /\ UNCHANGED <<life, list, slots, apref, sticky, sp, hist>>

Ensure ==
  /\ rd.at = "ensure"
  /\ rd' = IF list.abort THEN Idle
           ELSE IF list.init THEN Now("fetch")
           ELSE IF list.idx < Segs THEN Now("check") ELSE Idle
  /\ UNCHANGED <<life, list, slots, apref, sticky, sp, hist>>

\* apref_wait_take looks at g_aprefUp, and then locks.
Check ==
  /\ rd.at = "check" /\ rd' = Now(IF apref.up THEN "enter" ELSE "fetch")
  /\ UNCHANGED <<life, list, slots, apref, sticky, sp, hist>>
Enter ==
  /\ rd.at = "enter" /\ rd' = Now("wait")
  /\ UNCHANGED <<life, list, slots, apref, sticky, sp, hist>>

TakableAny == {i \in SlotIds : slots[i].state = "ready"}                    \* Mutant
Takable == {i \in SlotIds : slots[i].state = "ready" /\ slots[i].piece.seg = list.idx}
TakeSegment ==
  /\ rd.at = "wait" /\ ~Told /\ Takable # {}
  /\ LET i == Lowest(Takable)
     IN  /\ rd' = [rd EXCEPT !.at = "took", !.piece = slots[i].piece]
         /\ slots' = [slots EXCEPT ![i] = FreeSlot]
  /\ UNCHANGED <<life, list, apref, sticky, sp, hist>>

\* g_asegIdx is moved on outside the lock.
Took ==
  /\ rd.at = "took" /\ rd' = Now("give") /\ list' = [list EXCEPT !.idx = @ + 1]
  /\ UNCHANGED <<life, slots, apref, sticky, sp, hist>>

\* The 8 s run out, sooner than a fetch has to end; or nothing is on its way at all.
Starved == Takable = {} /\ Free = {} /\ apref.at = "pick"
GiveUp ==
  /\ rd.at = "wait" /\ rd' = Now("missed")
  /\ IF Told \/ Starved THEN UNCHANGED hist ELSE Takable = {} /\ Fails
  /\ UNCHANGED <<life, list, slots, apref, sticky, sp>>
SegmentMissed ==
  /\ rd.at = "missed"
  /\ IF apref.up
     THEN /\ rd' = Retried /\ list' = [list EXCEPT !.idx = @ + 1]
          /\ hist' = [hist EXCEPT !.lost = IF Told THEN @ ELSE @ + 1]
     ELSE rd' = Now("fetch") /\ UNCHANGED <<list, hist>>
  /\ UNCHANGED <<life, slots, apref, sticky, sp>>

\* The reader fetches itself, the init segment or in place of a worker that is stopped.
\* The index advances either way.
FetchSelf ==
  /\ rd.at = "fetch"
  /\ LET seg == IF list.init THEN InitSegment ELSE list.idx
     IN  \E ok \in BOOLEAN :
           /\ Outcome(ok)
           /\ rd' = IF ok THEN [Now("give") EXCEPT !.piece = Piece(seg, hist.line)] ELSE Retried
  /\ IF list.init
     THEN /\ list' = [list EXCEPT !.init = FALSE] /\ StartsUnless(list.abort)
          /\ sticky' = IF apref.up \/ list.abort THEN sticky ELSE FALSE
     ELSE list' = [list EXCEPT !.idx = @ + 1] /\ UNCHANGED <<apref, sticky>>
  /\ UNCHANGED <<life, slots, sp>>

Give ==
  /\ rd.at = "give" /\ hist' = [hist EXCEPT !.last = rd.piece.seg]
  /\ rd' = Reader(IF apref.up THEN "tell" ELSE "idle")
  /\ UNCHANGED <<life, list, slots, apref, sticky, sp>>
\* It has seen g_aprefUp, and locks to signal.
Tell ==
  /\ rd.at = "tell" /\ rd' = Idle /\ UNCHANGED <<life, list, slots, apref, sticky, sp, hist>>

-----------------------------------------------------------------------------
\* The stopping thread: the opener, or under the pipeline guard a caller of player_interrupt.

Stop(at, why, to) == sp' = [at |-> at, why |-> why, to |-> to]

\* hls_seek_clamped, before the demuxer is opened.
SeekRendition ==
  /\ life.at = "open" /\ sp = NoStop /\ hist.line < MaxTimelines
  /\ \E to \in 0 .. Segs : Stop("ask", "seek", to)
  /\ UNCHANGED <<life, list, slots, apref, sticky, rd, hist>>
Interrupt ==
  /\ life.at = "play" /\ sp = NoStop /\ Stop("raise", "interrupt", 0)
  /\ UNCHANGED <<life, list, slots, apref, sticky, rd, hist>>
\* player_teardown stops the audio thread, if there is one, and calls hls_close.
Teardown ==
  /\ sp = NoStop
  /\ \/ life.at = "play" /\ Stop("raise", "teardown", 0) /\ life' = [life EXCEPT !.stop = TRUE]
     \/ life.at = "probe" /\ rd.at = "idle" /\ Stop("ask", "close", 0) /\ UNCHANGED life
     \/ life.at = "open" /\ Stop("ask", "close", 0) /\ UNCHANGED life
  /\ UNCHANGED <<list, slots, apref, sticky, rd, hist>>

\* hls_audio_abort
Raise ==
  /\ sp.at = "raise" /\ list' = [list EXCEPT !.abort = TRUE] /\ sp' = [sp EXCEPT !.at = "ask"]
  /\ UNCHANGED <<life, slots, apref, sticky, rd, hist>>

\* apref_stop
Ask ==
  /\ sp.at = "ask" /\ sp' = [sp EXCEPT !.at = IF apref.up THEN "join" ELSE "clear"]
  /\ apref' = [apref EXCEPT !.stop = @ \/ apref.up] /\ sticky' = (sticky \/ apref.up)
  /\ UNCHANGED <<life, list, slots, rd, hist>>
Join ==
  /\ sp.at = "join" /\ apref.at = "gone" /\ sp' = [sp EXCEPT !.at = "clear"]
  /\ apref' = [apref EXCEPT !.at = "off", !.mtx = "destroyed"]
  /\ UNCHANGED <<life, list, slots, sticky, rd, hist>>
Clear ==
  /\ sp.at = "clear" /\ apref' = [apref EXCEPT !.up = FALSE] /\ slots' = NoSlots
  /\ sp' = [sp EXCEPT !.at = "next"] /\ UNCHANGED <<life, list, sticky, rd, hist>>

Reposition ==
  /\ sp.at = "next" /\ sp.why = "seek" /\ sp' = NoStop /\ sticky' = FALSE
  /\ list' = [idx |-> sp.to, init |-> life.init, abort |-> FALSE]
  /\ StartsUnless(life.init) /\ hist' = NextLine(sp.to) /\ UNCHANGED <<life, slots, rd>>
Aborted ==
  /\ sp.at = "next" /\ sp.why \in {"interrupt", "teardown"} /\ sticky' = TRUE
  /\ sp' = IF sp.why = "interrupt" THEN NoStop ELSE [sp EXCEPT !.at = "reader"]
  /\ UNCHANGED <<life, list, slots, apref, rd, hist>>
JoinReader ==
  /\ sp.at = "reader" /\ rd.at = "off" /\ sp' = [sp EXCEPT !.at = "ask", !.why = "close"]
  /\ life' = [life EXCEPT !.stop = FALSE] /\ UNCHANGED <<list, slots, apref, sticky, rd, hist>>
\* hls_close: free_asegs
RenditionClosed ==
  /\ sp.at = "next" /\ sp.why = "close" /\ sp' = NoStop /\ rd' = Reader("off")
  /\ life' = [life EXCEPT !.at = "closed"] /\ list' = [list EXCEPT !.idx = 0, !.init = FALSE]
  /\ UNCHANGED <<slots, apref, sticky, hist>>

Opening == OpenRendition \/ Probe \/ Play
Working == PickNot \/ Pick \/ Fetched
AudioReading ==
  \/ Exit \/ Ensure \/ Check \/ Enter \/ TakeSegment \/ Took \/ GiveUp \/ SegmentMissed \/ FetchSelf \/ Give \/ Tell
RenditionStopping == Raise \/ Ask \/ Join \/ Clear \/ Reposition \/ Aborted \/ JoinReader \/ RenditionClosed
RenditionNext ==
  \/ Opening \/ Working \/ Read \/ AudioReading
  \/ SeekRendition \/ Interrupt \/ Teardown \/ RenditionStopping
RenditionSpec == RenditionInit /\ [][RenditionNext]_rendVars

-----------------------------------------------------------------------------
RenditionTypeOK ==
  /\ life.at \in {"closed", "open", "probe", "play"} /\ list.idx \in Nat /\ sticky \in BOOLEAN
  /\ apref.at \in {"off", "pick", "fetch", "gone"} /\ apref.mtx \in {"none", "live", "destroyed"}
  /\ \A i \in SlotIds : slots[i].state \in {"free", "fetching", "ready"}

\* What the demuxer gets is of this timeline, begins with the init segment or where the
\* seek went, and never goes back or repeats, whoever fetched it.
SoundIsInOrder ==
  rd.at = "give" =>
    /\ rd.piece.line = hist.line /\ rd.piece.seg > hist.last
    /\ rd.piece.seg = InitSegment \/ rd.piece.seg >= hist.from

\* A closed stream leaves no worker, no slot in use, and no reader behind; one that is
\* running fetches every segment once at a time.
NothingOutlives ==
  /\ life.at = "closed" => ~apref.up /\ apref.at = "off" /\ rd.at = "off" /\ slots = NoSlots
  /\ apref.at = "off" => \A i \in SlotIds : slots[i].state # "fetching" \/ sp.at = "clear"
  /\ \A i, j \in SlotIds : i # j /\ slots[i].state # "free" => slots[i].piece # slots[j].piece

\* The demuxer gets the sound in order, and a stream that is closed leaves nothing behind.
RenditionIsSound == SoundIsInOrder /\ NothingOutlives

\* "skip a bad segment": a segment is skipped when it could not be fetched in time.
OnlyBadIsSkipped == hist.lost <= hist.faults

\* Nobody waits on, or is about to lock, what apref_stop has destroyed.
MutexOutlivesItsUsers == rd.at \in {"enter", "wait", "tell"} => apref.mtx = "live"
=============================================================================
