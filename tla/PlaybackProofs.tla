--------------------------- MODULE PlaybackProofs ---------------------------
(***************************************************************************)
(* The picture queue between the decode thread and the main thread, for    *)
(* every length of the film and of its sound, every size of the queue and  *)
(* of the ring, and any number of seeks and pauses.                        *)
(***************************************************************************)
EXTENDS Playback, SequenceTheorems, WellFoundedInduction, TLAPS

DecStages ==
  {"loop", "read", "push", "seekFlush", "seekClear", "seekGate", "seekHold", "seekEnd"}
Pictures == [pts : 0 .. Frames, epoch : Nat]

\* The types, field by field.
FieldsInv ==
  /\ DOMAIN dec = {"at", "frame"} /\ dec.at \in DecStages /\ dec.frame \in Pictures
  /\ DOMAIN draw = {"at", "frame"} /\ draw.frame \in Pictures
  /\ draw.frame # NoFrame => draw.frame.pts >= 1
  /\ epoch \in Nat /\ seek \in 0 .. Frames
  /\ nextV \in 1 .. Frames + 1 /\ nextA \in 1 .. Frames + 1 /\ clock \in 0 .. Late
NumbersInv ==
  net \in 0 .. Frames /\ ring \in 0 .. RingCap /\ gate \in 0 .. 2 /\ empties \in 0 .. EmptyFrames
FlagsInv ==
  /\ anchored \in BOOLEAN /\ held \in BOOLEAN /\ rebuffering \in BOOLEAN
  /\ gotFrame \in BOOLEAN /\ decEof \in BOOLEAN /\ active \in BOOLEAN
  /\ paused \in BOOLEAN /\ user \in {"none", "hold", "unhold"}

\* Pictures of one epoch, in the order of the film, before the time "top".
Fresh(queue, now, top) ==
  /\ queue \in Seq(Pictures)
  /\ \A i \in 1 .. Len(queue) :
       queue[i].epoch = now /\ queue[i].pts >= 1 /\ queue[i].pts < top
  /\ \A i, j \in 1 .. Len(queue) : i < j => queue[i].pts < queue[j].pts

\* All that is queued is before the picture in the hands of the decode thread, or before the
\* next one to be read, until a seek has moved the demuxer.
Top ==
  IF dec.at = "push" THEN dec.frame.pts ELSE IF dec.at = "seekFlush" THEN Frames + 1 ELSE nextV
QueueInv ==
  /\ Fresh(fq, epoch, Top) /\ Len(fq) <= FqSlots
  /\ dec.at = "push" =>
       dec.frame.epoch = epoch /\ dec.frame.pts >= 1 /\ nextV = dec.frame.pts + 1

PlaybackInv == FieldsInv /\ NumbersInv /\ FlagsInv /\ QueueInv

-----------------------------------------------------------------------------
(* Queues of pictures.                                                       *)

LEMMA FreshEmpty ==
  ASSUME NEW now, NEW top
  PROVE  Fresh(<<>>, now, top) /\ Len(<<>>) = 0
BY DEF Fresh

LEMMA PictureFacts ==
  ASSUME NEW frame \in Pictures
  PROVE  frame.pts \in Nat /\ frame.pts <= Frames
BY TracksAssumption DEF Pictures

LEMMA FreshLater ==
  ASSUME NEW queue, NEW now, NEW top \in Nat, NEW later \in Nat, top <= later,
         Fresh(queue, now, top)
  PROVE  Fresh(queue, now, later)
<1>1. \A i \in 1 .. Len(queue) : queue[i] \in Pictures /\ queue[i].pts < top
  BY DEF Fresh
<1>2. \A i \in 1 .. Len(queue) : queue[i].pts < later
  BY <1>1, PictureFacts
<1> QED BY <1>2 DEF Fresh

LEMMA FreshAppend ==
  ASSUME NEW queue, NEW now, NEW frame \in Pictures, Fresh(queue, now, frame.pts),
         frame.epoch = now, frame.pts >= 1
  PROVE  /\ Fresh(Append(queue, frame), now, frame.pts + 1)
         /\ Len(Append(queue, frame)) = Len(queue) + 1
<1> DEFINE n == Len(queue)
           longer == Append(queue, frame)
<1>1. queue \in Seq(Pictures) /\ n \in Nat
  BY DEF Fresh
<1>2. /\ longer \in Seq(Pictures) /\ Len(longer) = n + 1 /\ longer[n + 1] = frame
      /\ \A i \in 1 .. n : longer[i] = queue[i]
  BY <1>1, AppendProperties
<1>3. frame.pts \in Nat /\ \A i \in 1 .. n : queue[i].pts \in Nat
  <2>1. \A i \in 1 .. n : queue[i] \in Pictures
    BY <1>1
  <2> QED BY <2>1, PictureFacts
<1>4. /\ \A i \in 1 .. n : queue[i].epoch = now /\ queue[i].pts >= 1 /\ queue[i].pts < frame.pts
      /\ \A i, j \in 1 .. n : i < j => queue[i].pts < queue[j].pts
  BY DEF Fresh
<1> HIDE DEF n, longer
<1>5. ASSUME NEW i \in 1 .. n + 1
      PROVE  longer[i].epoch = now /\ longer[i].pts >= 1 /\ longer[i].pts < frame.pts + 1
  <2>1. CASE i = n + 1
    BY <1>2, <1>3, <2>1
  <2>2. CASE i # n + 1
    <3>1. i \in 1 .. n
      BY <1>1, <2>2
    <3> QED BY <1>2, <1>3, <1>4, <3>1
  <2> QED BY <2>1, <2>2
<1>6. ASSUME NEW i \in 1 .. n + 1, NEW j \in 1 .. n + 1, i < j
      PROVE  longer[i].pts < longer[j].pts
  <2>1. i \in 1 .. n
    BY <1>1, <1>6
  <2>2. CASE j = n + 1
    BY <1>2, <1>4, <2>1, <2>2
  <2>3. CASE j # n + 1
    <3>1. j \in 1 .. n
      BY <1>1, <2>3
    <3> QED BY <1>2, <1>4, <1>6, <2>1, <3>1
  <2> QED BY <2>2, <2>3
<1> QED BY <1>2, <1>5, <1>6 DEF Fresh, n, longer

LEMMA FreshTail ==
  ASSUME NEW queue, NEW now, NEW top, Fresh(queue, now, top), NEW d \in 0 .. Len(queue)
  PROVE  /\ Fresh(SubSeq(queue, d + 1, Len(queue)), now, top)
         /\ Len(SubSeq(queue, d + 1, Len(queue))) = Len(queue) - d
<1> DEFINE n == Len(queue)
           rest == SubSeq(queue, d + 1, n)
<1>1. queue \in Seq(Pictures) /\ n \in Nat /\ d \in Nat /\ d <= n
  BY DEF Fresh
<1>2. \A i \in d + 1 .. n : queue[i] \in Pictures
  <2> TAKE i \in d + 1 .. n
  <2>1. i \in 1 .. n
    BY <1>1
  <2> QED BY <1>1, <2>1
<1>3. /\ \A i \in 1 .. n : queue[i].epoch = now /\ queue[i].pts >= 1 /\ queue[i].pts < top
      /\ \A i, j \in 1 .. n : i < j => queue[i].pts < queue[j].pts
  BY DEF Fresh
<1> HIDE DEF n
<1>4. /\ rest \in Seq(Pictures) /\ Len(rest) = IF d + 1 <= n THEN n - (d + 1) + 1 ELSE 0
      /\ \A i \in 1 .. n - (d + 1) + 1 : rest[i] = queue[d + 1 + i - 1]
  <2>1. d + 1 \in Int /\ n \in Int
    BY <1>1
  <2> QED BY <1>2, <2>1, SubSeqProperties
<1> HIDE DEF rest
<1>5. Len(rest) = n - d
  BY <1>1, <1>4
<1>6. \A i \in 1 .. n - d : d + i \in 1 .. n /\ rest[i] = queue[d + i]
  <2> TAKE i \in 1 .. n - d
  <2>1. i \in 1 .. n - (d + 1) + 1 /\ d + 1 + i - 1 = d + i /\ d + i \in 1 .. n
    BY <1>1
  <2> QED BY <1>4, <2>1
<1>7. ASSUME NEW i \in 1 .. n - d, NEW j \in 1 .. n - d, i < j
      PROVE  rest[i].pts < rest[j].pts
  <2>1. d + i < d + j
    BY <1>1, <1>7
  <2> QED BY <1>3, <1>6, <2>1
<1>8. \A i \in 1 .. n - d : rest[i].epoch = now /\ rest[i].pts >= 1 /\ rest[i].pts < top
  BY <1>3, <1>6
<1>9. Fresh(rest, now, top)
  BY <1>4, <1>5, <1>7, <1>8 DEF Fresh
<1> QED BY <1>5, <1>9 DEF n, rest

-----------------------------------------------------------------------------
(* The flags, and the counters.                                              *)

LEMMA InitTypes ==
  ASSUME Init
  PROVE  FlagsInv /\ NumbersInv
<1>1. FlagsInv
  BY TracksAssumption DEF Init, FlagsInv
<1>2. NumbersInv
  BY TracksAssumption, CapsAssumption DEF Init, NumbersInv
<1> QED BY <1>1, <1>2

LEMMA FlagsKeep ==
  ASSUME FlagsInv, [Next]_vars
  PROVE  FlagsInv'
<1> USE DEF FlagsInv, demux, sound, flags, pacing, asked
<1>1. CASE Decode
  <2>1. CASE LoopReads \/ ReadVideo \/ ReadAudio \/ ReadEof
    BY <2>1, ZenonT(40) DEF LoopReads, ReadVideo, ReadAudio, ReadEof
  <2>2. CASE PushQueues \/ PushDrops \/ PushGivesUp \/ SeekFails \/ SeekMoves
    BY <2>2 DEF PushQueues, PushDrops, PushGivesUp, SeekFails, SeekMoves
  <2>3. CASE SeekFlush \/ SeekClear \/ SeekGate \/ SeekHold \/ SeekEnd
    BY <2>3 DEF SeekFlush, SeekClear, SeekGate, SeekHold, SeekEnd
  <2> QED BY <1>1, <2>1, <2>2, <2>3 DEF Decode
<1>2. CASE Render
  <2>1. CASE GatePasses \/ GateOpens \/ GateUnholds
    BY <2>1 DEF GatePasses, GateOpens, GateUnholds
  <2>2. CASE CachePauses \/ CacheHolds \/ NoCachePause
    BY <2>2 DEF CachePauses, CacheHolds, NoCachePause
  <2>3. CASE CacheResumes \/ CacheOpens \/ CacheUnholds
    BY <2>3 DEF CacheResumes, CacheOpens, CacheUnholds
  <2>4. CASE Pops \/ Shows \/ Ends
    BY <2>4 DEF Pops, Shows, Ends
  <2>5. CASE Holds
    BY <2>5, Zenon DEF Holds
  <2> QED BY <1>2, <2>1, <2>2, <2>3, <2>4, <2>5 DEF Render
<1>3. CASE Passing \/ AsksSeek \/ AsksPause
  BY <1>3, Zenon DEF Passing, Plays, Ticks, GateAges, Downloads, PauseTold, AsksSeek, AsksPause
<1>4. CASE UNCHANGED vars
  BY <1>4 DEF vars
<1> QED BY <1>1, <1>2, <1>3, <1>4 DEF Next

LEMMA NumbersKeep ==
  ASSUME NumbersInv, seek \in 0 .. Frames, [Next]_vars
  PROVE  NumbersInv'
<1> USE DEF NumbersInv, demux, sound, flags, pacing, asked
<1>1. Frames \in Nat /\ RingCap \in Nat /\ EmptyFrames \in Nat
  BY TracksAssumption, CapsAssumption
<1>2. CASE Decode
  <2>1. ring' \in {ring, 0, Least(ring + 1, RingCap)} /\ gate' \in {gate, 0} /\ empties' = empties
    BY <1>2 DEF Decode, LoopReads, ReadVideo, ReadAudio, ReadEof, PushQueues, PushDrops, PushGivesUp,
       SeekFails, SeekMoves, SeekFlush, SeekClear, SeekGate, SeekHold, SeekEnd
  <2>2. \/ net' = net
        \/ \E t \in {1, seek} : seek # 0 /\ net' \in {net, t - 1}
    BY <1>2 DEF Decode, LoopReads, ReadVideo, ReadAudio, ReadEof, PushQueues, PushDrops, PushGivesUp,
       SeekFails, SeekMoves, SeekFlush, SeekClear, SeekGate, SeekHold, SeekEnd, LoopSeeks
  <2>3. net' \in 0 .. Frames
    BY <1>1, <2>2, TracksAssumption
  <2> QED BY <1>1, <2>1, <2>3 DEF Least
<1>3. CASE Render
  <2>1. Starved \in 0 .. EmptyFrames
    BY <1>1 DEF Starved, Least
  <2>2. UNCHANGED <<net, ring, gate>> /\ empties' \in {empties, Starved, 0}
    BY <1>3 DEF Render, GatePasses, GateOpens, GateUnholds, CachePauses, CacheHolds, NoCachePause,
       CacheResumes, CacheOpens, CacheUnholds, Pops, Shows, Holds, Ends
  <2> QED BY <1>1, <2>1, <2>2
<1>4. CASE Plays \/ Ticks \/ GateAges \/ Downloads \/ PauseTold
  <2>1. /\ ring' = ring \/ (ring > 0 /\ ring' = ring - 1) \/ ring' = 0
        /\ gate' = gate \/ (gate < 2 /\ gate' = gate + 1)
        /\ net' = net \/ (net < Frames /\ net' = net + 1)
        /\ empties' = empties
    BY <1>4 DEF Plays, Ticks, GateAges, Downloads, PauseTold
  <2> QED BY <1>1, <2>1
<1>5. CASE AsksSeek \/ AsksPause \/ UNCHANGED vars
  BY <1>5 DEF AsksSeek, AsksPause, vars
<1> QED BY <1>2, <1>3, <1>4, <1>5 DEF Next, Passing

-----------------------------------------------------------------------------
(* The queue: most steps leave it, or only follow it.                        *)

CoreInv == FieldsInv /\ QueueInv

LEMMA CoreInit ==
  ASSUME Init
  PROVE  CoreInv
<1>1. /\ dec = [at |-> "loop", frame |-> NoFrame] /\ draw = [at |-> "top", frame |-> NoFrame]
      /\ nextV = 1 /\ nextA = 1 /\ clock = 0 /\ seek = 0 /\ epoch = 0 /\ fq = <<>>
  BY DEF Init
<1>2. NoFrame \in Pictures
  BY TracksAssumption DEF NoFrame, Pictures
<1>3. FieldsInv
  BY <1>1, <1>2, TracksAssumption DEF FieldsInv, DecStages, Late
<1>4. QueueInv
  BY <1>1, FreshEmpty, CapsAssumption DEF QueueInv
<1> QED BY <1>3, <1>4 DEF CoreInv

USE DEF CoreInv, FieldsInv, QueueInv, Top, DecStages, Late

LEMMA CoreConstants ==
  ASSUME CoreInv
  PROVE  /\ Frames \in Nat \ {0} /\ FqSlots \in Nat
         /\ dec.frame.pts \in 0 .. Frames /\ draw.frame.pts \in 0 .. Frames
         /\ NoFrame \in Pictures /\ NoFrame.pts = 0
BY TracksAssumption, CapsAssumption DEF Pictures, NoFrame

\* A step that leaves the queue and the demuxer where they are.
LEMMA CoreStays ==
  ASSUME CoreInv, UNCHANGED <<fq, epoch, nextV>>, nextA' \in 1 .. Frames + 1,
         clock' \in 0 .. Late, seek' \in 0 .. Frames,
         DOMAIN draw' = {"at", "frame"}, draw'.frame \in {draw.frame, NoFrame},
         \/ dec' = dec
         \/ /\ DOMAIN dec' = {"at", "frame"} /\ dec'.at \in DecStages \ {"push", "seekFlush"}
            /\ dec.at # "seekFlush" /\ dec'.frame \in {dec.frame, NoFrame}
  PROVE  CoreInv'
<1>1. FieldsInv'
  BY CoreConstants
<1>2. CASE dec' = dec
  BY <1>1, <1>2
<1>3. CASE dec' # dec
  <2>1. Top \in Nat /\ Top' \in Nat /\ Top <= Top'
    BY <1>3, CoreConstants, SMTT(40)
  <2>2. Fresh(fq, epoch, Top')
    BY <2>1, FreshLater
  <2> QED BY <1>1, <1>3, <2>2
<1> QED BY <1>2, <1>3

LEMMA DecodeKeeps ==
  ASSUME CoreInv, LoopReads \/ ReadEof \/ PushDrops \/ PushGivesUp \/ SeekFails
                    \/ SeekClear \/ SeekGate \/ SeekHold \/ SeekEnd
  PROVE  CoreInv'
<1>1. /\ UNCHANGED <<fq, epoch, nextV, nextA, clock, draw>> /\ seek' \in {seek, 0}
      /\ dec.at # "seekFlush"
      /\ \E at \in DecStages \ {"push", "seekFlush"} :
           dec' \in {[dec EXCEPT !.at = at], [dec EXCEPT !.at = at, !.frame = NoFrame]}
  BY DEF LoopReads, ReadEof, PushDrops, PushGivesUp, SeekFails, SeekClear, SeekGate, SeekHold, SeekEnd,
         DecAt, DecGoes, LoopSeeks, demux, sound, asked
<1>2. /\ DOMAIN dec' = {"at", "frame"} /\ dec'.at \in DecStages \ {"push", "seekFlush"}
      /\ dec'.frame \in {dec.frame, NoFrame}
  BY <1>1
<1> QED BY <1>1, <1>2, CoreStays, CoreConstants

LEMMA ReadVideoKeeps ==
  ASSUME CoreInv, ReadVideo
  PROVE  CoreInv'
<1>1. /\ dec.at = "read" /\ nextV <= Frames /\ nextV' = nextV + 1
      /\ UNCHANGED <<nextA, fq, clock, draw, seek, epoch>>
      /\ dec' = [dec EXCEPT !.at = "push", !.frame = [pts |-> nextV, epoch |-> epoch]]
  BY DEF ReadVideo, DecAt, sound, asked
<1>2. /\ DOMAIN dec' = {"at", "frame"} /\ dec'.at = "push"
      /\ dec'.frame = [pts |-> nextV, epoch |-> epoch]
  BY <1>1
<1>3. dec'.frame \in Pictures /\ dec'.frame.pts = nextV /\ dec'.frame.epoch = epoch
  BY <1>1, <1>2, CoreConstants DEF Pictures
<1>4. FieldsInv'
  BY <1>1, <1>2, <1>3, CoreConstants
<1>5. QueueInv'
  BY <1>1, <1>2, <1>3
<1> QED BY <1>4, <1>5

LEMMA ReadAudioKeeps ==
  ASSUME CoreInv, ReadAudio
  PROVE  CoreInv'
<1>1. /\ dec' = [dec EXCEPT !.at = "loop"] /\ dec.at = "read"
      /\ nextA <= AudioFrames /\ nextA' = nextA + 1 /\ clock' \in {clock, nextA}
      /\ UNCHANGED <<nextV, fq, draw, seek, epoch>>
  BY DEF ReadAudio, DecAt, DecGoes, asked
<1>2. nextA' \in 1 .. Frames + 1
  BY <1>1, TracksAssumption
<1>3. DOMAIN dec' = {"at", "frame"} /\ dec'.at = "loop" /\ dec'.frame = dec.frame
  BY <1>1
<1> QED BY <1>1, <1>2, <1>3, CoreStays

LEMMA PushQueuesKeeps ==
  ASSUME CoreInv, PushQueues
  PROVE  CoreInv'
<1>1. /\ dec.at = "push" /\ Len(fq) < FqSlots /\ fq' = Append(fq, dec.frame)
      /\ dec' = [dec EXCEPT !.at = "loop", !.frame = NoFrame]
      /\ UNCHANGED <<nextV, nextA, clock, draw, seek, epoch>>
  BY DEF PushQueues, HasRoom, DecAt, demux, sound, asked
<1>2. DOMAIN dec' = {"at", "frame"} /\ dec'.at = "loop" /\ dec'.frame = NoFrame
  BY <1>1
<1>3. Fresh(fq', epoch, nextV) /\ Len(fq') = Len(fq) + 1
  BY <1>1, FreshAppend
<1>4. Len(fq) \in Nat
  BY DEF Fresh
<1>5. FieldsInv'
  BY <1>1, <1>2, CoreConstants
<1> QED BY <1>1, <1>2, <1>3, <1>4, <1>5, CoreConstants

LEMMA SeekMovesKeeps ==
  ASSUME CoreInv, SeekMoves
  PROVE  CoreInv'
<1>1. /\ dec' = [dec EXCEPT !.at = "seekFlush"] /\ dec.at = "loop" /\ seek' = 0
      /\ nextV' \in {1, seek} /\ nextA' \in {1, seek} /\ seek # 0
      /\ UNCHANGED <<fq, clock, draw, epoch>>
  BY DEF SeekMoves, DecAt, DecGoes, LoopSeeks, sound
<1>2. DOMAIN dec' = {"at", "frame"} /\ dec'.at = "seekFlush" /\ dec'.frame = dec.frame
  BY <1>1
<1>3. FieldsInv'
  BY <1>1, <1>2, CoreConstants
<1>4. Fresh(fq, epoch, Frames + 1)
  BY <1>1, CoreConstants, FreshLater
<1> QED BY <1>1, <1>2, <1>3, <1>4

LEMMA SeekFlushKeeps ==
  ASSUME CoreInv, SeekFlush
  PROVE  CoreInv'
<1>1. /\ dec' = [dec EXCEPT !.at = "seekClear"] /\ dec.at = "seekFlush"
      /\ fq' = <<>> /\ epoch' = epoch + 1 /\ UNCHANGED <<nextV, nextA, clock, draw, seek>>
  BY DEF SeekFlush, Flushed, DecAt, DecGoes, demux, asked
<1>2. DOMAIN dec' = {"at", "frame"} /\ dec'.at = "seekClear" /\ dec'.frame = dec.frame
  BY <1>1
<1>3. FieldsInv'
  BY <1>1, <1>2, CoreConstants
<1>4. Fresh(fq', epoch', nextV) /\ Len(fq') = 0
  BY <1>1, FreshEmpty
<1> QED BY <1>1, <1>2, <1>3, <1>4, CoreConstants

LEMMA RenderKeeps ==
  ASSUME CoreInv, GatePasses \/ GateOpens \/ GateUnholds \/ CachePauses \/ CacheHolds
                    \/ NoCachePause \/ CacheResumes \/ CacheOpens \/ CacheUnholds \/ Holds \/ Ends
  PROVE  CoreInv'
<1>1. /\ UNCHANGED <<dec, nextV, nextA, clock, fq, seek, epoch>>
      /\ \E at : draw' = [draw EXCEPT !.at = at]
  BY DEF GatePasses, GateOpens, GateUnholds, CachePauses, CacheHolds, NoCachePause, CacheResumes,
         CacheOpens, CacheUnholds, Holds, Ends, DrawGoes, demux, sound, asked
<1>2. DOMAIN draw' = {"at", "frame"} /\ draw'.frame = draw.frame
  BY <1>1
<1> QED BY <1>1, <1>2, CoreStays

LEMMA ShowsKeeps ==
  ASSUME CoreInv, Shows
  PROVE  CoreInv'
<1>1. /\ draw' = [at |-> "top", frame |-> NoFrame] /\ clock' \in {clock, draw.frame.pts}
      /\ UNCHANGED <<dec, nextV, nextA, fq, seek, epoch>>
  BY DEF Shows, demux, asked
<1>2. DOMAIN draw' = {"at", "frame"} /\ draw'.frame = NoFrame
  BY <1>1
<1> QED BY <1>1, <1>2, CoreStays, CoreConstants

LEMMA PassingKeeps ==
  ASSUME CoreInv, Passing \/ AsksSeek \/ AsksPause
  PROVE  CoreInv'
<1>1. /\ clock' \in {clock, Least(clock + 1, Late)} /\ seek' \in {seek} \cup 1 .. Frames
      /\ UNCHANGED <<dec, nextV, nextA, fq, draw, epoch>>
  BY DEF Passing, Plays, Ticks, GateAges, Downloads, PauseTold, AsksSeek, AsksPause, demux, sound, asked
<1>2. clock' \in 0 .. Late /\ seek' \in 0 .. Frames
  BY <1>1, CoreConstants DEF Least
<1> QED BY <1>1, <1>2, CoreStays

-----------------------------------------------------------------------------
(* The pictures that are due are the first of the queue.                     *)

LEMMA LeastOf ==
  ASSUME NEW S \in SUBSET Nat, S # {}
  PROVE  \E x \in S : \A y \in S : x <= y
<1> DEFINE Less == {ss \in Nat \X Nat : ss[1] < ss[2]}
<1>1. IsWellFoundedOn(Less, Nat)
  BY NatLessThanWellFounded, Zenon DEF OpToRel
<1>2. PICK x \in S : \A y \in S : ~(<<y, x>> \in Less)
  <2> HIDE DEF Less
  <2> QED BY <1>1, WFMin
<1>3. \A y \in S : x <= y
  <2> TAKE y \in S
  <2>1. ~(<<y, x>> \in Less)
    BY <1>2
  <2>2. x \in Nat /\ y \in Nat
    OBVIOUS
  <2> QED BY <2>1, <2>2
<1> QED BY <1>3

LEMMA DueFacts ==
  ASSUME CoreInv
  PROVE  Due \in 0 .. Len(fq)
<1> DEFINE n == Len(fq)
           Split(k) == /\ \A i \in 1 .. k : fq[i].pts <= clock
                       /\ k < n => fq[k + 1].pts > clock
           Later == {k \in 1 .. n : fq[k].pts > clock}
<1>1. n \in Nat /\ clock \in Nat /\ \A i \in 1 .. n : fq[i].pts \in Nat
  <2>1. n \in Nat /\ \A i \in 1 .. n : fq[i] \in Pictures
    BY DEF Fresh
  <2>2. clock \in Nat
    BY CoreConstants
  <2> QED BY <2>1, <2>2, PictureFacts
<1> HIDE DEF n, CoreInv
<1>2. \E k \in 0 .. n : Split(k)
  <2>1. CASE Later = {}
    <3>1. \A i \in 1 .. n : fq[i].pts <= clock
      BY <1>1, <2>1
    <3>2. n \in 0 .. n /\ ~(n < n)
      BY <1>1
    <3> QED BY <3>1, <3>2
  <2>2. CASE Later # {}
    <3>1. Later \in SUBSET Nat
      BY <1>1
    <3>2. PICK x \in Later : \A y \in Later : x <= y
      <4> HIDE DEF Later
      <4> QED BY <2>2, <3>1, LeastOf
    <3>3. x \in 1 .. n /\ fq[x].pts > clock /\ x - 1 \in 0 .. n /\ (x - 1) + 1 = x
      BY <1>1, <3>2
    <3>4. ASSUME NEW i \in 1 .. x - 1
          PROVE  fq[i].pts <= clock
      <4>1. i \in 1 .. n /\ ~(x <= i)
        BY <1>1, <3>3
      <4>2. ~(fq[i].pts > clock)
        BY <3>2, <4>1
      <4> QED BY <1>1, <4>1, <4>2
    <3> QED BY <3>3, <3>4
  <2> QED BY <2>1, <2>2
<1>3. CASE gotFrame
  <2>1. Due = CHOOSE k \in 0 .. n : Split(k)
    BY <1>3 DEF Due, n
  <2> HIDE DEF Split
  <2> QED BY <1>2, <2>1 DEF n
<1>4. CASE ~gotFrame
  <2>1. Due = Least(1, n)
    BY <1>4 DEF Due, n
  <2>2. Least(1, n) \in 0 .. n
    BY <1>1 DEF Least
  <2> QED BY <2>1, <2>2 DEF n
<1> QED BY <1>3, <1>4

LEMMA PopsKeeps ==
  ASSUME CoreInv, Pops
  PROVE  CoreInv'
<1> DEFINE n == Len(fq)
           d == Due
<1>1. d \in 0 .. n /\ n \in Nat /\ d \in Nat
  <2>1. n \in Nat
    BY DEF Fresh
  <2> QED BY <2>1, DueFacts
<1>2. /\ fq' = SubSeq(fq, d + 1, n)
      /\ draw' = [at |-> "show", frame |-> IF d = 0 THEN NoFrame ELSE fq[d]]
      /\ UNCHANGED <<dec, nextV, nextA, clock, seek, epoch>>
  BY DEF Pops, demux, sound, asked
<1> HIDE DEF d
<1>3. Fresh(fq', epoch, Top) /\ Len(fq') = n - d
  BY <1>1, <1>2, FreshTail
<1>4. /\ DOMAIN draw' = {"at", "frame"} /\ draw'.frame \in Pictures
      /\ draw'.frame # NoFrame => draw'.frame.pts >= 1
  <2>1. CASE d = 0
    BY <1>2, <2>1, CoreConstants
  <2>2. CASE d # 0
    <3>1. d \in 1 .. n
      BY <1>1, <2>2
    <3>2. fq[d] \in Pictures /\ fq[d].pts >= 1
      BY <3>1 DEF Fresh
    <3> QED BY <1>2, <2>2, <3>2
  <2> QED BY <2>1, <2>2
<1>5. FieldsInv'
  BY <1>2, <1>4
<1>6. Len(fq') <= FqSlots
  BY <1>1, <1>3, CoreConstants
<1> QED BY <1>2, <1>3, <1>5, <1>6

-----------------------------------------------------------------------------
HIDE DEF CoreInv, FieldsInv, QueueInv, Top

LEMMA StepKeeps ==
  ASSUME PlaybackInv, [Next]_vars
  PROVE  PlaybackInv'
<1>1. FlagsInv' /\ NumbersInv'
  BY FlagsKeep, NumbersKeep DEF PlaybackInv, FieldsInv
<1>2. CoreInv
  BY DEF PlaybackInv, CoreInv
<1>3. CoreInv'
  <2>1. CASE Decode
    BY <1>2, <2>1, DecodeKeeps, ReadVideoKeeps, ReadAudioKeeps, PushQueuesKeeps, SeekMovesKeeps,
       SeekFlushKeeps DEF Decode
  <2>2. CASE Render
    BY <1>2, <2>2, RenderKeeps, PopsKeeps, ShowsKeeps DEF Render
  <2>3. CASE Passing \/ AsksSeek \/ AsksPause
    BY <1>2, <2>3, PassingKeeps
  <2>4. CASE UNCHANGED vars
    BY <1>2, <2>4 DEF vars, CoreInv, FieldsInv, QueueInv, Top
  <2> QED BY <2>1, <2>2, <2>3, <2>4 DEF Next
<1> QED BY <1>1, <1>3 DEF PlaybackInv, CoreInv

\* The threads of one stream keep PlaybackInv, for every film, queue, ring and viewer.
THEOREM PlaybackInvariant == Spec => []PlaybackInv
<1>1. Init => PlaybackInv
  BY CoreInit, InitTypes DEF PlaybackInv, CoreInv
<1>2. PlaybackInv /\ [Next]_vars => PlaybackInv'
  BY StepKeeps
<1> QED BY <1>1, <1>2, PTL DEF Spec

\* Every variable of the player's threads keeps its type; g_fq never holds more than
\* FQ_SLOTS pictures, the ring no more than RING_FRAMES.
THEOREM PlaybackTypes == Spec => []PlaybackTypeOK
<1>1. PlaybackInv => PlaybackTypeOK
  <2> SUFFICES ASSUME PlaybackInv PROVE PlaybackTypeOK
    OBVIOUS
  <2>1. FlagsInv /\ NumbersInv /\ FieldsInv /\ QueueInv
    BY DEF PlaybackInv
  <2>2. Len(fq) <= FqSlots /\ \A i \in DOMAIN fq : fq[i].pts \in 1 .. Frames
    <3>1. fq \in Seq(Pictures) /\ \A i \in 1 .. Len(fq) : fq[i].pts >= 1
      BY <2>1 DEF QueueInv, Fresh
    <3>2. DOMAIN fq = 1 .. Len(fq) /\ \A i \in 1 .. Len(fq) : fq[i] \in Pictures
      BY <3>1
    <3>3. \A i \in 1 .. Len(fq) : fq[i].pts \in Nat /\ fq[i].pts <= Frames
      BY <3>2, PictureFacts
    <3> QED BY <2>1, <3>1, <3>2, <3>3, TracksAssumption DEF QueueInv
  <2> QED BY <2>1, <2>2 DEF FlagsInv, NumbersInv, FieldsInv, DecStages, PlaybackTypeOK
<1> QED BY <1>1, PlaybackInvariant, PTL

\* fq_push and fq_flush, on the decode thread, and render_threaded, on the main thread: once
\* apply_seek is carried out no picture of the old position is queued, and the queue is in
\* the order of the film.
THEOREM QueueStaysFresh == Spec => []QueueIsFresh
<1>1. PlaybackInv => QueueIsFresh
  <2> SUFFICES ASSUME PlaybackInv PROVE QueueIsFresh
    OBVIOUS
  <2>1. Fresh(fq, epoch, Top)
    BY DEF PlaybackInv, QueueInv
  <2>2. Len(fq) \in Nat /\ DOMAIN fq = 1 .. Len(fq)
    BY <2>1 DEF Fresh
  <2>3. \A i \in 1 .. Len(fq) - 1 : i \in 1 .. Len(fq) /\ i + 1 \in 1 .. Len(fq) /\ i < i + 1
    BY <2>2
  <2> QED BY <2>1, <2>2, <2>3 DEF Fresh, QueueIsFresh
<1> QED BY <1>1, PlaybackInvariant, PTL

=============================================================================
