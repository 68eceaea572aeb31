------------------------------ MODULE Playback ------------------------------
(***************************************************************************)
(* One stream that is up (src/app/src/player_ff.c, src/app/src/audio.c).   *)
(* The decode thread reads packets, queues pictures and writes sound; the  *)
(* main thread shows a picture once the clock has reached it; the audio    *)
(* thread empties the ring in real time and is the clock; HTTP threads     *)
(* seek and pause.  They share plain flags without a lock: only the        *)
(* picture queue has one.                                                  *)
(*                                                                         *)
(* Time is counted in pictures: unit t of the file holds picture t and, as *)
(* long as there is sound, the sound that goes with it.                    *)
(***************************************************************************)
EXTENDS Naturals, Sequences

CONSTANTS
  Frames,       \* length of the video track
  AudioFrames,  \* length of the sound track; 0: there is none
  Skew,         \* how far one track may run ahead of the other in the file
  Remote,       \* read over HTTP (else a local file)
  Gated,        \* a cast with headstart waits for a cushion first
  FqSlots,      \* FQ_SLOTS, 24 in the code
  StartFrames,  \* HLS_START_FRAMES, 5
  StartAudio,   \* 500 ms
  Low,          \* 400 ms
  High,         \* 6000 ms
  RingCap,      \* RING_FRAMES, 8 s
  Resume,       \* g_resumeSec: 1.5 s on the LAN, 4 s beyond, 0 for a file
  EmptyFrames,  \* 4 in the code
  MaxSeeks, MaxPauses    \* bounds on what the viewer does

ASSUME TracksAssumption ==
  /\ Frames \in Nat \ {0} /\ AudioFrames \in 0 .. Frames /\ Skew \in Nat \ {0}
  /\ Remote \in BOOLEAN /\ Gated \in BOOLEAN
ASSUME CapsAssumption ==
  /\ FqSlots \in Nat \ {0, 1} /\ StartFrames \in 1 .. FqSlots
  /\ Low \in Nat /\ High \in Nat \ {0} /\ RingCap \in Nat /\ High <= RingCap
  /\ StartAudio \in Nat /\ Resume \in Nat /\ EmptyFrames \in Nat \ {0}
ASSUME ViewerAssumption == MaxSeeks \in Nat /\ MaxPauses \in Nat

VARIABLES
  dec,       \* the decode thread: stage, the picture in its hands
  nextV, nextA,  \* the packets av_read_frame returns next
  net,       \* units of the file that have been downloaded
  fq,        \* g_fq: pictures ready to be shown
  ring,      \* g_fill: sound not yet played
  clock,     \* audio_clock() once it has a base, else the wall clock
  anchored,  \* g_baseSet
  held,      \* audio.c's g_paused
  rebuffering, gotFrame, decEof, active, paused,     \* g_ flags of the same names
  gate,      \* age of g_startupGateAt: 0, 1 (2.5 s), 2 (5 s)
  empties,   \* g_emptyCnt
  draw,      \* the main thread: stage of render_threaded, the picture in its hands
  user,      \* an HTTP thread in player_pause: what it will tell audio.c
  seek,      \* g_seekPending and g_seekTo: 0 or the target
  epoch,     \* history: how many seeks have been carried out
  seeks, pauses          \* bounds

demux == <<nextV, nextA, net>>
sound == <<ring, clock, anchored, held>>
flags == <<rebuffering, gotFrame, decEof, active, paused>>
pacing == <<gate, empties>>
asked == <<user, seek, seeks, pauses>>
vars == <<dec, nextV, nextA, net, fq, ring, clock, anchored, held, rebuffering,
          gotFrame, decEof, active, paused, gate, empties, draw, user, seek, epoch,
          seeks, pauses>>

HasAudio == AudioFrames > 0
NoFrame == [pts |-> 0, epoch |-> 0]
Least(x, y) == IF x < y THEN x ELSE y

\* play_open, just before it starts the decode thread.
Init ==
  /\ dec = [at |-> "loop", frame |-> NoFrame]
  /\ nextV = 1 /\ nextA = 1
  /\ net = IF Remote THEN 0 ELSE Frames
  /\ fq = <<>>
  /\ ring = 0 /\ clock = 0 /\ anchored = FALSE /\ held = Gated
  /\ rebuffering = Gated /\ gotFrame = FALSE /\ decEof = FALSE
  /\ active = TRUE /\ paused = FALSE
  /\ gate = 0 /\ empties = 0
  /\ draw = [at |-> "top", frame |-> NoFrame]
  /\ user = "none" /\ seek = 0
  /\ epoch = 0 /\ seeks = 0 /\ pauses = 0

-----------------------------------------------------------------------------
(* The decode thread: decode_thread_main.                                   *)

DecAt(stage) == dec.at = stage
DecGoes(stage) == dec' = [dec EXCEPT !.at = stage]
Decoding == draw.at # "over"

\* A pending seek comes before everything, also while paused.
LoopSeeks == seek # 0

\* The back-pressure of the sound ring lasts a second at most: it outlasts what
\* is too much, unless the ring is not being played.
LoopReads ==
  /\ Decoding /\ DecAt("loop") /\ seek = 0 /\ ~paused
  /\ ring < High \/ held
  /\ DecGoes("read")
  /\ UNCHANGED <<demux, fq, sound, flags, pacing, draw, asked, epoch>>

\* av_read_frame: the next packet of either track, once it is downloaded.
ReadVideo ==
  /\ Decoding /\ DecAt("read")
  /\ nextV <= Frames /\ nextV <= net
  /\ nextA <= AudioFrames => nextV < nextA + Skew
  /\ nextV' = nextV + 1
  /\ dec' = [dec EXCEPT !.at = "push", !.frame = [pts |-> nextV, epoch |-> epoch]]
  /\ UNCHANGED <<nextA, net, fq, sound, flags, pacing, draw, asked, epoch>>

\* decode_audio_frame: the first sound after a flush anchors the clock.
ReadAudio ==
  /\ Decoding /\ DecAt("read")
  /\ nextA <= AudioFrames /\ nextA <= net
  /\ nextV <= Frames => nextA < nextV + Skew
  /\ nextA' = nextA + 1
  /\ ring' = Least(ring + 1, RingCap)
  /\ anchored' = TRUE
  /\ clock' = IF anchored THEN clock ELSE nextA
  /\ DecGoes("loop")
  /\ UNCHANGED <<nextV, net, fq, held, flags, pacing, draw, asked, epoch>>

ReadEof ==
  /\ Decoding /\ DecAt("read")
  /\ nextV > Frames /\ nextA > AudioFrames
  /\ decEof' = TRUE
  /\ DecGoes("loop")
  /\ UNCHANGED <<demux, fq, sound, rebuffering, gotFrame, active, paused, pacing,
                 draw, asked, epoch>>

\* Mutant: one picture more than there are slots.
HasRoomForOneMore == Len(fq) <= FqSlots

HasRoom == Len(fq) < FqSlots

\* fq_push: append, or give up for a seek, or -- the queue is full -- drop the
\* picture when the sound is about to run dry.
PushQueues ==
  /\ Decoding /\ DecAt("push") /\ seek = 0
  /\ HasRoom
  /\ fq' = Append(fq, dec.frame)
  /\ dec' = [dec EXCEPT !.at = "loop", !.frame = NoFrame]
  /\ UNCHANGED <<demux, sound, flags, pacing, draw, asked, epoch>>

PushDrops ==
  /\ Decoding /\ DecAt("push") /\ seek = 0
  /\ ~HasRoom
  /\ ring < Low
  /\ dec' = [dec EXCEPT !.at = "loop", !.frame = NoFrame]
  /\ UNCHANGED <<demux, fq, sound, flags, pacing, draw, asked, epoch>>

PushGivesUp ==
  /\ Decoding /\ DecAt("push") /\ seek # 0
  /\ dec' = [dec EXCEPT !.at = "loop", !.frame = NoFrame]
  /\ UNCHANGED <<demux, fq, sound, flags, pacing, draw, asked, epoch>>

-----------------------------------------------------------------------------
(* apply_seek.                                                              *)

\* A seek the demuxer refuses changes nothing.
SeekFails ==
  /\ Decoding /\ DecAt("loop") /\ LoopSeeks
  /\ seek' = 0
  /\ DecGoes("seekEnd")
  /\ UNCHANGED <<demux, fq, sound, flags, pacing, draw, user, seeks, pauses, epoch>>

\* av_seek_frame goes back to a key frame at or before the target; the window of
\* the download may still hold it, or starts over there.
SeekMoves ==
  /\ Decoding /\ DecAt("loop") /\ LoopSeeks
  /\ \E t \in {1, seek} : nextV' = t /\ nextA' = t
                            /\ net' \in IF ~Remote THEN {net}
                                        ELSE {t - 1} \cup {n \in {net} : n >= t}
  /\ seek' = 0
  /\ DecGoes("seekFlush")
  /\ UNCHANGED <<fq, sound, flags, pacing, draw, user, seeks, pauses, epoch>>

\* Mutant: the queue keeps the pictures of the old position.
FlushedKeepsQueue == fq

Flushed == <<>>

\* fq_flush, the codecs, audio_flush.
SeekFlush ==
  /\ DecAt("seekFlush")
  /\ fq' = Flushed
  /\ ring' = 0 /\ anchored' = FALSE
  /\ epoch' = epoch + 1
  /\ DecGoes("seekClear")
  /\ UNCHANGED <<demux, clock, held, flags, pacing, draw, asked>>

SeekClear ==
  /\ DecAt("seekClear")
  /\ gotFrame' = FALSE /\ rebuffering' = TRUE
  /\ DecGoes("seekGate")
  /\ UNCHANGED <<demux, fq, sound, decEof, active, paused, pacing, draw, asked, epoch>>

SeekGate ==
  /\ DecAt("seekGate")
  /\ gate' = 0
  /\ DecGoes("seekHold")
  /\ UNCHANGED <<demux, fq, sound, flags, empties, draw, asked, epoch>>

SeekHold ==
  /\ DecAt("seekHold")
  /\ held' = TRUE
  /\ active' = TRUE
  /\ DecGoes("seekEnd")
  /\ UNCHANGED <<demux, fq, ring, clock, anchored, rebuffering, gotFrame, decEof,
                 paused, pacing, draw, asked, epoch>>

\* Back in the loop: the end of the file is forgotten.
SeekEnd ==
  /\ DecAt("seekEnd")
  /\ decEof' = FALSE
  /\ DecGoes("loop")
  /\ UNCHANGED <<demux, fq, sound, rebuffering, gotFrame, active, paused, pacing,
                 draw, asked, epoch>>

Decode ==
  \/ LoopReads \/ ReadVideo \/ ReadAudio \/ ReadEof
  \/ PushQueues \/ PushDrops \/ PushGivesUp
  \/ SeekFails \/ SeekMoves \/ SeekFlush \/ SeekClear \/ SeekGate \/ SeekHold
  \/ SeekEnd

-----------------------------------------------------------------------------
(* The main thread: render_threaded, once per frame.                        *)

DrawAt(stage) == draw.at = stage
DrawGoes(stage) == draw' = [draw EXCEPT !.at = stage]

\* Mutant: no cushion, no start.
GateReadyByCushion == Len(fq) >= StartFrames /\ (HasAudio => ring >= StartAudio)

\* A cushion of pictures and sound, or the patience for it, is there.
GateReady ==
  LET video == Len(fq) >= StartFrames \/ decEof
      audio == ~HasAudio \/ ring >= StartAudio \/ gate >= 1 \/ decEof
  IN (video /\ audio) \/ gate >= 2 \/ decEof

\* Before the first picture the gate holds everything back.
GatePasses ==
  /\ DrawAt("top") /\ active /\ ~paused
  /\ ~gotFrame /\ rebuffering /\ GateReady
  /\ DrawGoes("gateOpen")
  /\ UNCHANGED <<dec, demux, fq, sound, flags, pacing, asked, epoch>>

GateOpens ==
  /\ DrawAt("gateOpen")
  /\ rebuffering' = FALSE
  /\ DrawGoes("gateUnhold")
  /\ UNCHANGED <<dec, demux, fq, sound, gotFrame, decEof, active, paused, pacing,
                 asked, epoch>>

GateUnholds ==
  /\ DrawAt("gateUnhold")
  /\ held' = (held /\ paused)
  /\ DrawGoes("buffer")
  /\ UNCHANGED <<dec, demux, fq, ring, clock, anchored, flags, pacing, asked, epoch>>

\* A check that comes to nothing is one step with what follows.
PastGate ==
  \/ DrawAt("buffer")
  \/ DrawAt("top") /\ active /\ ~paused /\ (gotFrame \/ ~rebuffering)

\* Cache-pause: the queue has been empty for EmptyFrames frames.
Starved == IF fq = <<>> /\ ~decEof THEN Least(empties + 1, EmptyFrames) ELSE 0

CachePauses ==
  /\ PastGate /\ gotFrame
  /\ ~rebuffering /\ Starved = EmptyFrames
  /\ empties' = Starved
  /\ rebuffering' = TRUE
  /\ DrawGoes("cacheHold")
  /\ UNCHANGED <<dec, demux, fq, sound, gotFrame, decEof, active, paused, gate,
                 asked, epoch>>

CacheHolds ==
  /\ DrawAt("cacheHold")
  /\ held' = TRUE
  /\ DrawGoes("refill")
  /\ UNCHANGED <<dec, demux, fq, ring, clock, anchored, flags, pacing, asked, epoch>>

NoCachePause ==
  /\ PastGate
  /\ gotFrame => rebuffering \/ Starved < EmptyFrames
  /\ empties' = IF gotFrame THEN Starved ELSE empties
  /\ DrawGoes(IF gotFrame THEN "refill" ELSE "pop")
  /\ UNCHANGED <<dec, demux, fq, sound, flags, gate, asked, epoch>>

\* httpsrc_ahead_bytes, in units of the file.
Ahead == LET read == IF nextV < nextA \/ nextA > AudioFrames THEN nextV ELSE nextA
         IN IF net >= read THEN net + 1 - read ELSE 0

Refilled ==
  \/ decEof
  \/ Len(fq) >= FqSlots \div 2 /\ (Remote => Ahead >= Resume)

CacheResumes ==
  /\ DrawAt("refill") /\ rebuffering /\ Refilled
  /\ DrawGoes("cacheOpen")
  /\ UNCHANGED <<dec, demux, fq, sound, flags, pacing, asked, epoch>>

CacheOpens ==
  /\ DrawAt("cacheOpen")
  /\ rebuffering' = FALSE /\ empties' = 0
  /\ DrawGoes("cacheUnhold")
  /\ UNCHANGED <<dec, demux, fq, sound, gotFrame, decEof, active, paused, gate,
                 asked, epoch>>

CacheUnholds ==
  /\ DrawAt("cacheUnhold")
  /\ held' = FALSE
  /\ DrawGoes("pop")
  /\ UNCHANGED <<dec, demux, fq, ring, clock, anchored, flags, pacing, asked, epoch>>

\* The pictures that are due: the newest is shown, the others are dropped; the
\* very first is due at once.
Due == IF gotFrame
         THEN CHOOSE n \in 0 .. Len(fq) :
                /\ \A i \in 1 .. n : fq[i].pts <= clock
                /\ n < Len(fq) => fq[n + 1].pts > clock
         ELSE Least(1, Len(fq))

Pops ==
  /\ DrawAt("pop") \/ (DrawAt("refill") /\ ~(rebuffering /\ Refilled))
  /\ draw' = [at |-> "show", frame |-> IF Due = 0 THEN NoFrame ELSE fq[Due]]
  /\ fq' = SubSeq(fq, Due + 1, Len(fq))
  /\ UNCHANGED <<dec, demux, sound, flags, pacing, asked, epoch>>

\* The first picture anchors the wall clock.
Shows ==
  /\ DrawAt("show") /\ draw.frame # NoFrame
  /\ gotFrame' = TRUE
  /\ clock' = IF gotFrame \/ anchored THEN clock ELSE draw.frame.pts
  /\ draw' = [at |-> "top", frame |-> NoFrame]
  /\ UNCHANGED <<dec, demux, fq, ring, anchored, held, rebuffering, decEof, active,
                 paused, pacing, asked, epoch>>

\* Nothing is due: the last picture stays, and the stream ends if no more come.
Holds ==
  /\ DrawAt("show") /\ draw.frame = NoFrame
  /\ active' = (active /\ ~(decEof /\ fq = <<>>))
  /\ DrawGoes("top")
  /\ UNCHANGED <<dec, demux, fq, sound, rebuffering, gotFrame, decEof, paused,
                 pacing, asked, epoch>>

\* Main sees that the stream has ended and stops the player.
Ends ==
  /\ DrawAt("top") /\ ~active
  /\ DrawGoes("over")
  /\ UNCHANGED <<dec, demux, fq, sound, flags, pacing, asked, epoch>>

Render ==
  \/ GatePasses \/ GateOpens \/ GateUnholds
  \/ CachePauses \/ CacheHolds \/ NoCachePause
  \/ CacheResumes \/ CacheOpens \/ CacheUnholds
  \/ Pops \/ Shows \/ Holds \/ Ends

-----------------------------------------------------------------------------
(* The audio thread, the network, time and the viewer.                      *)

Late == Frames + 1

\* audio_main: the device takes sound, or silence, in real time; its position is
\* the clock.  (Counting only the sound that was heard froze v03.61, see audio.c.)
Plays ==
  /\ Decoding /\ ~held
  /\ ring' = IF ring > 0 THEN ring - 1 ELSE 0
  /\ clock' = IF anchored THEN Least(clock + 1, Late) ELSE clock
  /\ UNCHANGED <<dec, demux, fq, anchored, held, flags, pacing, draw, asked, epoch>>

\* The wall clock, as long as the sound has none; a pause is subtracted from it.
Ticks ==
  /\ Decoding /\ ~anchored /\ gotFrame /\ ~paused
  /\ clock' = Least(clock + 1, Late)
  /\ UNCHANGED <<dec, demux, fq, ring, anchored, held, flags, pacing, draw, asked,
                 epoch>>

GateAges ==
  /\ Decoding /\ rebuffering /\ ~gotFrame /\ gate < 2
  /\ gate' = gate + 1
  /\ UNCHANGED <<dec, demux, fq, sound, flags, empties, draw, asked, epoch>>

Downloads ==
  /\ Decoding /\ net < Frames
  /\ net' = net + 1
  /\ UNCHANGED <<dec, nextV, nextA, fq, sound, flags, pacing, draw, asked, epoch>>

\* player_seek.
AsksSeek ==
  /\ Decoding /\ seeks < MaxSeeks
  /\ seek' \in 1 .. Frames
  /\ seeks' = seeks + 1
  /\ UNCHANGED <<dec, demux, fq, sound, flags, pacing, draw, user, pauses, epoch>>

\* player_pause: the flag, then the audio thread, from a second look at
\* g_rebuffering.
AsksPause ==
  /\ Decoding /\ pauses < MaxPauses /\ user = "none"
  /\ paused' = ~paused
  /\ user' = IF paused' \/ rebuffering THEN "hold" ELSE "unhold"
  /\ pauses' = pauses + 1
  /\ UNCHANGED <<dec, demux, fq, sound, rebuffering, gotFrame, decEof, active, pacing,
                 draw, seek, seeks, epoch>>

PauseTold ==
  /\ user # "none"
  /\ held' = (user = "hold")
  /\ user' = "none"
  /\ UNCHANGED <<dec, demux, fq, ring, clock, anchored, flags, pacing, draw, seek,
                 seeks, pauses, epoch>>

Passing == Plays \/ Ticks \/ GateAges \/ Downloads \/ PauseTold

Next == Decode \/ Render \/ Passing \/ AsksSeek \/ AsksPause

Spec == Init /\ [][Next]_vars

\* The threads run, time passes and the download goes on; nobody has to press a
\* button.  One condition does for all that passes: between two seeks each of it
\* changes something only so often, so that all of it comes to an end.
FairSpec == Spec /\ WF_vars(Decode) /\ WF_vars(Render) /\ WF_vars(Passing)

-----------------------------------------------------------------------------
(* Properties.                                                              *)

PlaybackTypeOK ==
  /\ dec.at \in {"loop", "read", "push", "seekFlush", "seekClear", "seekGate",
                "seekHold", "seekEnd"}
  /\ nextV \in 1 .. Frames + 1 /\ nextA \in 1 .. Frames + 1 /\ net \in 0 .. Frames
  /\ Len(fq) <= FqSlots /\ \A i \in DOMAIN fq : fq[i].pts \in 1 .. Frames
  /\ ring \in 0 .. RingCap /\ clock \in 0 .. Late
  /\ anchored \in BOOLEAN /\ held \in BOOLEAN /\ rebuffering \in BOOLEAN
  /\ gotFrame \in BOOLEAN /\ decEof \in BOOLEAN /\ active \in BOOLEAN
  /\ paused \in BOOLEAN /\ gate \in 0 .. 2 /\ empties \in 0 .. EmptyFrames
  /\ user \in {"none", "hold", "unhold"} /\ seek \in 0 .. Frames

\* Once a seek is carried out, no picture of the old position is queued, and the
\* queue stays in the order of the film (render_threaded looks at its head only).
QueueIsFresh ==
  /\ \A i \in DOMAIN fq : fq[i].epoch = epoch \/ DecAt("seekFlush")
  /\ \A i \in 1 .. Len(fq) - 1 : fq[i].pts < fq[i + 1].pts

\* Every seek is carried out, also while paused and while the decode thread is
\* stuck at a full queue, unless the stream ends first.
SeekIsTaken == seek # 0 ~> seek = 0 \/ DrawAt("over")

\* The audio thread holds although nobody paused and nothing buffers, and nobody is
\* about to let it go: apply_seek or player_pause told it to hold just after the
\* main thread had let it go.  The clock then stands until another seek or pause.
HeldForNothing ==
  /\ held /\ ~paused /\ ~rebuffering
  /\ draw.at \notin {"gateUnhold", "cacheUnhold"} /\ user # "unhold"

\* A cache-pause within Resume of the end of a file read over HTTP: all of it is
\* downloaded, the queue is full, the decode thread waits at it and never sees
\* the end.
WaitsForMoreThanThereIs ==
  /\ rebuffering /\ gotFrame /\ held /\ ~decEof
  /\ Remote /\ net = Frames /\ Ahead < Resume
  /\ DecAt("push") /\ ~HasRoom /\ ring >= Low

\* A stream that is not paused plays to its end ("it can never deadlock the way a
\* frozen clock did in v03.61"), but for the two stalls named above.
PlaysToTheEnd ==
  []<>(DrawAt("over") \/ paused \/ HeldForNothing \/ WaitsForMoreThanThereIs)

\* Whatever the threads wait for, a stream goes on: to where it was told, and to its end.
StreamGoesOn == SeekIsTaken /\ PlaysToTheEnd
=============================================================================
