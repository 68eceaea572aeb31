------------------------------- MODULE Sound -------------------------------
\* audio.c: the decode thread fills a ring with sound, the output thread empties it in
\* real time, and the position of the device is the clock that the pictures follow. Only
\* the ring is locked. What the output thread does to the clock after a grain has been
\* played is not, and it reads and writes one variable after the other.
EXTENDS Integers, Sequences

CONSTANTS
  Ring,          \* RING_FRAMES, 8 s
  Grain,         \* GRAIN, what the device takes at once
  Repaid,        \* what is repaid of the debt in a grain, 16 frames
  DebtMax,       \* PAD_DEBT_MAX
  Width,         \* 2^64
  High, Packet,  \* 6 s; the longest packet, in frames of sound
  Guarded,       \* the decode thread waits while the ring is full to High
  Track,         \* bounds: sound in the stream, grains in a timeline, holds, timelines
  MaxGrains, MaxHolds, MaxSessions

ASSUME SoundAssumption ==
  /\ {Ring, Grain, Repaid, DebtMax, Width, High, Packet} \subseteq Nat \ {0}
  /\ Repaid <= Grain /\ DebtMax + Grain < Width /\ High + Packet <= Ring /\ Guarded \in BOOLEAN
  /\ {Track, MaxGrains, MaxHolds, MaxSessions} \subseteq Nat

VARIABLES
  dev,      \* the device and its thread: none, up, stopping (g_astop), gone
  ok,       \* g_ok
  paused,   \* g_paused
  sound,    \* g_pcm with g_head and g_fill
  clk,      \* g_base, g_hwOut, g_baseSet, g_padDebt
  speaker,  \* the output thread: stage, the grain being played, what it has loaded
  dec,      \* the decode thread: stage, the time stamp it decodes next, its packet
  trail     \* history: the timeline, silence forgiven in it, debt it began with, ...
soundVars == <<dev, ok, paused, sound, clk, speaker, dec, trail>>

\* A frame of sound; one timeline ends and another begins with a flush.
Sample(pts, line) == [pts |-> pts, line |-> line]
NoSound == Sample(-1, 0)
RingSlots == 0 .. Ring - 1
Lesser(x, y) == IF x < y THEN x ELSE y

Empty == [pcm |-> [i \in RingSlots |-> NoSound], head |-> 0, fill |-> 0]
Unset == [base |-> 0, hw |-> 0, set |-> FALSE, debt |-> 0]
Stage(at) == [at |-> at, grain |-> <<>>, base |-> 0, step |-> 0]

SoundInit ==
  /\ dev = "none" /\ ok = FALSE /\ paused = FALSE /\ sound = Empty /\ clk = Unset
  /\ speaker = Stage("off") /\ dec = [at |-> "off", next |-> 0, n |-> 0]
  /\ trail = [line |-> 0, forgiven |-> 0, carried |-> 0, holds |-> 0, torn |-> FALSE, lost |-> 0,
             heard |-> NoSound, grains |-> 0, begun |-> 0]

-----------------------------------------------------------------------------
\* g_acond: only the output thread waits there.
Woken == [speaker EXCEPT !.at = IF @ = "asleep" THEN "take" ELSE @]

\* A flush holds the lock, the output thread does not while it brings the clock up to date.
Updating == speaker.at \in {"rebase", "repay", "count"}
NewLine == [trail EXCEPT !.line = @ + 1, !.forgiven = 0, !.carried = 0, !.holds = 0,
                         !.grains = 0, !.torn = @ \/ Updating]
RingResetHead == [sound EXCEPT !.head = 0]                            \* Mutant
RingReset == [sound EXCEPT !.head = 0, !.fill = 0]

\* audio_open: "reuse the already-open device across casts".
OpenSound ==
  /\ dec.at = "off" /\ dev \in {"none", "up"} /\ trail.begun < MaxSessions
  /\ dev' = "up" /\ speaker' = IF dev = "none" THEN Stage("take") ELSE Woken
  /\ ok' = TRUE /\ paused' = FALSE /\ sound' = RingReset /\ clk' = Unset
  /\ dec' = [at |-> "read", next |-> 0, n |-> 0] /\ trail' = [NewLine EXCEPT !.begun = @ + 1]

\* player_teardown, with the decode thread joined: audio_pause(0), audio_close.
CloseSound ==
  /\ dec.at = "read" /\ dec' = [dec EXCEPT !.at = "off"]
  /\ ok' = FALSE /\ paused' = FALSE /\ sound' = RingReset /\ clk' = [Unset EXCEPT !.debt = clk.debt]
  /\ speaker' = Woken /\ trail' = NewLine /\ UNCHANGED dev

Shutdown ==
  /\ dec.at = "off" /\ dev = "up" /\ dev' = "stopping" /\ ok' = FALSE /\ speaker' = Woken
  /\ UNCHANGED <<paused, sound, clk, dec, trail>>
Joined ==
  /\ dev = "stopping" /\ speaker.at = "off" /\ dev' = "gone" /\ sound' = Empty
  /\ paused' = FALSE /\ clk' = [clk EXCEPT !.hw = 0, !.set = FALSE]
  /\ UNCHANGED <<ok, speaker, dec, trail>>

-----------------------------------------------------------------------------
\* The decode thread.

\* The wait for room lasts a second, which is as much as is played meanwhile unless the
\* sound is held. Bound: a hold ends before what is left of the ring is used up.
RoomForPacket == Guarded => sound.fill < High \/ (paused /\ sound.fill + Packet <= Ring)

\* audio_set_base: the first sound of a timeline anchors the clock to the device.
AnchoredAnew == [clk EXCEPT !.base = dec.next - clk.hw, !.set = TRUE]   \* Mutant
Anchored == IF clk.set THEN clk ELSE [clk EXCEPT !.base = dec.next - clk.hw, !.set = TRUE]

DecodeSound ==
  /\ dec.at = "read" /\ dec.next < Track /\ RoomForPacket
  /\ \E n \in 1 .. Packet : dec' = [dec EXCEPT !.at = "write", !.n = n]
  /\ clk' = Anchored
  /\ trail' = IF clk.set THEN trail ELSE [trail EXCEPT !.carried = clk.debt, !.forgiven = 0]
  /\ UNCHANGED <<dev, ok, paused, sound, speaker>>

\* audio_write: what does not fit is dropped.
Write ==
  /\ dec.at = "write"
  /\ LET kept == Lesser(dec.n, Ring - sound.fill)
         Age(i) == (i - sound.head - sound.fill) % Ring    \* how many frames before it
         Put(i) == IF Age(i) < kept THEN Sample(dec.next + Age(i), trail.line) ELSE sound.pcm[i]
     IN  /\ sound' = [sound EXCEPT !.fill = @ + kept, !.pcm = [i \in RingSlots |-> Put(i)]]
         /\ trail' = [trail EXCEPT !.lost = @ + dec.n - kept]
  /\ dec' = [dec EXCEPT !.at = "read", !.next = @ + dec.n, !.n = 0] /\ speaker' = Woken
  /\ UNCHANGED <<dev, ok, paused, clk>>

\* apply_seek: audio_flush, and a moment later audio_pause(1). Bound: back to the start.
SeekSound ==
  /\ dec.at = "read" /\ trail.begun < MaxSessions
  /\ sound' = RingReset /\ clk' = Unset /\ trail' = [NewLine EXCEPT !.begun = @ + 1]
  /\ dec' = [dec EXCEPT !.at = "hold", !.next = 0]
  /\ UNCHANGED <<dev, ok, paused, speaker>>
SeekHolds ==
  /\ dec.at = "hold" /\ dec' = [dec EXCEPT !.at = "read"] /\ paused' = TRUE
  /\ trail' = [trail EXCEPT !.holds = IF paused THEN @ ELSE @ + 1]
  /\ UNCHANGED <<dev, ok, sound, clk, speaker>>

\* audio_pause from the gate, a cache-pause, the viewer.
HoldSound ==
  /\ dec.at # "off" /\ ~paused /\ trail.holds < MaxHolds /\ paused' = TRUE
  /\ trail' = [trail EXCEPT !.holds = @ + 1] /\ UNCHANGED <<dev, ok, sound, clk, speaker, dec>>
ReleaseSound ==
  /\ dec.at # "off" /\ paused /\ paused' = FALSE
  /\ UNCHANGED <<dev, ok, sound, clk, speaker, dec, trail>>

-----------------------------------------------------------------------------
\* audio_main.

Leave ==
  /\ speaker.at = "take" /\ dev = "stopping" /\ speaker' = Stage("off")
  /\ UNCHANGED <<dev, ok, paused, sound, clk, dec, trail>>

Sleep ==
  /\ speaker.at = "take" /\ dev # "stopping" /\ ~ok /\ speaker' = Stage("asleep")
  /\ UNCHANGED <<dev, ok, paused, sound, clk, dec, trail>>

\* A grain is taken from the ring, what is missing is silence; the device plays it.
TakeGrain ==
  /\ speaker.at = "take" /\ dev # "stopping" /\ ok /\ trail.grains < MaxGrains
  /\ LET avail == IF paused THEN 0 ELSE Lesser(Grain, sound.fill)
         grain == [i \in 1 .. avail |-> sound.pcm[(sound.head + i - 1) % Ring]]
     IN  /\ speaker' = [Stage("account") EXCEPT !.grain = grain]
         /\ sound' = [sound EXCEPT !.head = (@ + avail) % Ring, !.fill = @ - avail]
         /\ trail' = [trail EXCEPT !.grains = IF paused THEN @ ELSE @ + 1]
  /\ UNCHANGED <<dev, ok, paused, clk, dec>>

Avail == Len(speaker.grain)
Heard == IF speaker.grain = <<>> THEN trail.heard ELSE speaker.grain[Avail]

\* "A rebuffer pause must freeze the clock."
AccountHeld ==
  /\ speaker.at = "account" /\ paused
  /\ speaker' = Stage("take") /\ trail' = [trail EXCEPT !.heard = Heard]
  /\ UNCHANGED <<dev, ok, paused, sound, clk, dec>>

\* Silence is debt, as the device goes on without sound. More than the cap is forgiven.
AccountSilence ==
  /\ speaker.at = "account" /\ ~paused /\ Avail < Grain
  /\ LET debt == (clk.debt + Grain - Avail) % Width
     IN  /\ clk' = [clk EXCEPT !.debt = Lesser(debt, DebtMax)]
         /\ trail' = [trail EXCEPT !.forgiven = @ + debt - Lesser(debt, DebtMax)]
  /\ speaker' = [speaker EXCEPT !.at = "count"] /\ UNCHANGED <<dev, ok, paused, sound, dec>>

\* Sound flows again: a little of the debt is repaid, "so the clock slides back into
\* alignment with the audio actually heard".
AccountSound ==
  /\ speaker.at = "account" /\ ~paused /\ Avail = Grain
  /\ speaker' = IF clk.debt = 0 THEN [speaker EXCEPT !.at = "count"]
            ELSE [speaker EXCEPT !.at = "rebase", !.base = clk.base, !.step = Lesser(clk.debt, Repaid)]
  /\ UNCHANGED <<dev, ok, paused, sound, clk, dec, trail>>
Rebase ==
  /\ speaker.at = "rebase" /\ speaker' = [speaker EXCEPT !.at = "repay"]
  /\ clk' = [clk EXCEPT !.base = speaker.base - speaker.step]
  /\ UNCHANGED <<dev, ok, paused, sound, dec, trail>>
Repay ==
  /\ speaker.at = "repay" /\ speaker' = [speaker EXCEPT !.at = "count"]
  /\ clk' = [clk EXCEPT !.debt = (@ - speaker.step) % Width]
  /\ UNCHANGED <<dev, ok, paused, sound, dec, trail>>

Count ==
  /\ speaker.at = "count" /\ speaker' = Stage("take")
  /\ clk' = [clk EXCEPT !.hw = @ + Grain] /\ trail' = [trail EXCEPT !.heard = Heard]
  /\ UNCHANGED <<dev, ok, paused, sound, dec>>

Playing ==
  \/ Leave \/ Sleep \/ TakeGrain \/ AccountHeld \/ AccountSilence \/ AccountSound
  \/ Rebase \/ Repay \/ Count
SoundNext ==
  \/ OpenSound \/ CloseSound \/ Shutdown \/ Joined \/ DecodeSound \/ Write \/ SeekSound \/ SeekHolds
  \/ HoldSound \/ ReleaseSound \/ Playing
SoundSpec == SoundInit /\ [][SoundNext]_soundVars

-----------------------------------------------------------------------------
SoundTypeOK ==
  /\ dev \in {"none", "up", "stopping", "gone"} /\ ok \in BOOLEAN /\ paused \in BOOLEAN
  /\ sound.head \in RingSlots /\ sound.fill \in 0 .. Ring
  /\ clk.base \in Int /\ clk.hw \in Nat /\ clk.debt \in 0 .. Width - 1
  /\ speaker.at \in {"off", "asleep", "take", "account", "rebase", "repay", "count"}
  /\ dec.at \in {"off", "read", "write", "hold"} /\ dec.next \in Nat

\* audio_clock().
Clock == clk.base + clk.hw

\* The sound that is heard next: the grain the device plays, the ring, what is to be decoded.
InFlight == speaker.grain # <<>> /\ speaker.grain[1].line = trail.line
HeardNext ==
  IF InFlight THEN speaker.grain[1].pts
  ELSE IF sound.fill > 0 THEN sound.pcm[sound.head].pts ELSE dec.next

\* How far the clock is ahead of the sound, silence aside that is still to be repaid or
\* was more than the cap.
Error == Clock - HeardNext - clk.debt - trail.forgiven

\* The clock names the sound that is heard: ahead of it by a grain at most, the one that a
\* flush found under way, and behind it by a grain for each hold that found one; and by the
\* debt from before it was anchored: set apart, like a flush in the middle of an update,
\* under the findings.
ClockIsHeard ==
  clk.set /\ ~Updating /\ ~trail.torn =>
    Error + trail.carried \in -(Grain * trail.holds) .. Grain

\* "So the output thread cancels that out": without the debt from before.
ClockIsAnchored == clk.set /\ ~Updating /\ ~trail.torn => Error >= -(Grain * trail.holds)

\* "Bounds the correction so a long starvation can't queue a multi-second pull-back."
DebtIsCapped == clk.debt <= DebtMax

\* "8s absorbs the burst so nothing is dropped."
NothingIsDropped == trail.lost = 0

\* The device plays the sound of one timeline without gap, repetition or leftover of the
\* position before, whatever a seek or the next cast does while a grain is under way.
SoundIsWhole ==
  /\ \A i \in 1 .. Avail - 1 : speaker.grain[i + 1] = [speaker.grain[i] EXCEPT !.pts = @ + 1]
  /\ Avail > 0 /\ trail.heard.line = speaker.grain[1].line => speaker.grain[1].pts = trail.heard.pts + 1
  /\ \A k \in 0 .. sound.fill - 1 : sound.pcm[(sound.head + k) % Ring].line = trail.line

\* audio_shutdown gets the output thread out of its wait, whatever the thread is about when
\* it is asked to stop: asleep, it would never look.
NobodyOversleeps == speaker.at = "asleep" => ~ok /\ dev # "stopping"

\* The output thread plays what was written for this timeline, and ends when told.
OutputIsSound == SoundIsWhole /\ NobodyOversleeps
=============================================================================
