------------------------------- MODULE Reorder -------------------------------
\* The reorder buffer of the hardware path. The console's decoder hands pictures out in
\* the order in which they were coded, the screen wants them in the order of their time
\* stamps: the decode thread holds a window of them back. How wide the window must be is
\* what the demuxer says, and that may be wrong.
EXTENDS Integers, Sequences, FiniteSets

CONSTANTS RoCap,       \* HW_REORDER
          Floor,       \* H264_REORDER_FLOOR
          Stamps,      \* time stamps
          MaxDecoded   \* bound: pictures

ASSUME ReorderAssumption ==
  RoCap \in Nat \ {0} /\ Floor \in 0 .. RoCap - 1 /\ Stamps \subseteq Nat /\ MaxDecoded \in Nat

NoStamp == -1             \* AV_NOPTS_VALUE

VARIABLES
  ro,        \* g_ro: pictures held back, each with its number in coding order and its stamp
  window,    \* g_hwReorder
  lastEmit,  \* g_lastEmitPts
  mode,      \* "hw", "drain" once the packets have ended, "sw"
  rendered,  \* the stamps handed to the render queue, since the last flush
  late,      \* the pictures discarded
  coded,     \* the stamps in coding order, since the last flush
  opened     \* the window at the opening
reorderVars == <<ro, window, lastEmit, mode, rendered, late, coded, opened>>

\* video_delay of the demuxer, clamped. The sum of what was decoded stays bounded.
ReorderInit ==
  /\ opened \in 0 .. RoCap - 1 /\ window = opened /\ mode = "hw"
  /\ ro = {} /\ lastEmit = NoStamp /\ rendered = <<>> /\ late = {} /\ coded = <<>>

\* "Release the lowest-PTS frame": one that is late by then is dropped.
Lowest(held) == {p \in held : \A q \in held : p.pts <= q.pts}
NeverLate(p) == FALSE                                                 \* Mutant
Late(p) == lastEmit # NoStamp /\ p.pts < lastEmit
Emit(held) ==
  \E p \in Lowest(held) :
    /\ ro' = held \ {p}
    /\ IF Late(p) THEN late' = late \cup {p} /\ UNCHANGED <<lastEmit, rendered>>
       ELSE lastEmit' = p.pts /\ rendered' = Append(rendered, p.pts) /\ UNCHANGED late

\* decode_video_hw, decode_video_hw_seg: the packet may tell that the stream is reordered
\* before its first delayed picture comes; a picture behind one that has been handed on
\* tells that the window was too small. Of a full buffer the picture is dropped.
Observed(seen) == IF seen /\ window < Floor THEN Floor ELSE window
Widened(from, pts) ==
  IF lastEmit # NoStamp /\ pts < lastEmit /\ from < RoCap - 1 THEN from + 1 ELSE from

DecodeHw ==
  /\ mode = "hw" /\ Len(coded) < MaxDecoded
  /\ \E pts \in Stamps, seen \in BOOLEAN :
       LET p    == [n |-> Len(coded) + 1, pts |-> pts]
           held == IF Cardinality(ro) < RoCap THEN ro \cup {p} ELSE ro
       IN  /\ coded' = Append(coded, pts) /\ window' = Widened(Observed(seen), pts)
           /\ IF Cardinality(held) > window' THEN Emit(held)
              ELSE ro' = held /\ UNCHANGED <<lastEmit, rendered, late>>
  /\ UNCHANGED <<mode, opened>>

\* The packets of a file have ended (ro_drain), until a seek.
EndOfPackets ==
  /\ mode = "hw" /\ mode' = "drain" /\ UNCHANGED <<ro, window, lastEmit, rendered, late, coded, opened>>
Drain ==
  /\ mode = "drain" /\ ro # {} /\ Emit(ro) /\ UNCHANGED <<window, mode, coded, opened>>

\* A seek, a discontinuity, another size or format of the pictures: what is held back is
\* forgotten, the window stays. A decoder that fails for good leaves hardware decoding.
Forgets(kind) ==
  /\ ro' = {} /\ lastEmit' = NoStamp /\ rendered' = <<>> /\ late' = {} /\ coded' = <<>>
  /\ opened' = window /\ mode' = kind /\ UNCHANGED window
FlushReorder == mode # "sw" /\ Forgets("hw")
FailOver == mode = "hw" /\ Forgets("sw")

\* The next source is opened in hardware again.
Reopen ==
  /\ mode = "sw" /\ mode' = "hw" /\ window' \in 0 .. RoCap - 1 /\ opened' = window'
  /\ UNCHANGED <<ro, lastEmit, rendered, late, coded>>

ReorderNext == DecodeHw \/ EndOfPackets \/ Drain \/ FlushReorder \/ FailOver \/ Reopen
ReorderSpec == ReorderInit /\ [][ReorderNext]_reorderVars

ReorderTypeOK ==
  /\ ro \subseteq [n : 1 .. MaxDecoded, pts : Stamps] /\ window \in opened .. RoCap - 1
  /\ lastEmit \in Stamps \cup {NoStamp} /\ mode \in {"hw", "drain", "sw"}

\* "The render queue is consumed from its head and therefore must remain PTS monotonic."
InStampOrder == \A i, j \in 1 .. Len(rendered) : i < j => rendered[i] <= rendered[j]

\* How many pictures with a later stamp were coded before this one.
Displacement(p) == Cardinality({i \in 1 .. p.n - 1 : coded[i] > p.pts})

\* Only a picture displaced by more than the window is lost, and each loss widens it "so it
\* doesn't happen again" -- up to its limit, at which the buffer still has room for all.
OnlyDisplacedAreLost ==
  /\ \A p \in late : Displacement(p) > opened
  /\ window < RoCap - 1 => Cardinality(late) <= window - opened
  /\ Cardinality(ro) <= window /\ Cardinality(ro) + Cardinality(late) + Len(rendered) = Len(coded)

\* Pictures leave in the order of their stamps, and none is lost without need.
PicturesInOrder == InStampOrder /\ OnlyDisplacedAreLost
=============================================================================
