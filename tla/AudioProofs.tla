----------------------------- MODULE AudioProofs -----------------------------
(***************************************************************************)
(* The sound of a stream, each part under its own specification.  The      *)
(* output device (audio.c): for every ring, grain and number of holds the  *)
(* output is the sound that was written, in order and whole, and the clock *)
(* is that of what is heard.  The separate audio rendition (hls.c): for    *)
(* every number of segments, slots, tries, seeks and faults the demuxer    *)
(* gets the sound in order, and a stream that is closed leaves nothing.    *)
(***************************************************************************)
EXTENDS Sound, Rendition, SequenceTheorems, WellFoundedInduction, TLAPS

\* The output device.

Samples == [pts : Int, line : Nat]
Stages == {"off", "asleep", "take", "account", "rebase", "repay", "count"}
DeviceOK == dev \in {"none", "up", "stopping", "gone"} /\ ok \in BOOLEAN /\ paused \in BOOLEAN
RingOK ==
  /\ DOMAIN sound = {"pcm", "head", "fill"} /\ sound.pcm \in [RingSlots -> Samples]
  /\ sound.head \in RingSlots /\ sound.fill \in 0 .. Ring
ClockOK ==
  /\ DOMAIN clk = {"base", "hw", "set", "debt"} /\ clk.base \in Int /\ clk.hw \in Nat
  /\ clk.set \in BOOLEAN /\ clk.debt \in 0 .. Width - 1
SpeakerOK ==
  /\ DOMAIN speaker = {"at", "grain", "base", "step"} /\ speaker.at \in Stages
  /\ speaker.grain \in Seq(Samples) /\ speaker.base \in Int /\ speaker.step \in Nat
DecoderOK ==
  /\ DOMAIN dec = {"at", "next", "n"} /\ dec.at \in {"off", "read", "write", "hold"}
  /\ dec.next \in Nat /\ dec.n \in Nat
TrailOK ==
  /\ DOMAIN trail = {"line", "forgiven", "carried", "holds", "torn", "lost", "heard", "grains", "begun"}
  /\ trail.line \in Nat /\ trail.forgiven \in Nat /\ trail.carried \in Nat /\ trail.holds \in Nat
  /\ trail.torn \in BOOLEAN /\ trail.lost \in Nat /\ trail.heard \in Samples /\ trail.grains \in Nat
  /\ trail.begun \in Nat
FieldsInv == DeviceOK /\ RingOK /\ ClockOK /\ SpeakerOK /\ DecoderOK /\ TrailOK

\* A packet fits into the ring; without a decode thread, or before the first sound of a
\* timeline, there is none in the ring, nor in the grain that is played.
StageInv ==
  /\ dec.at = "write" => dec.n \in 1 .. Packet /\ clk.set /\ sound.fill + dec.n <= Ring
  /\ dec.at = "off" => ~clk.set
  /\ dev \in {"none", "stopping", "gone"} => dec.at = "off"
  /\ ~clk.set => sound.fill = 0 /\ ~InFlight
  /\ speaker.at \in {"off", "asleep", "take"} => speaker.grain = <<>>

\* The stamp of the first frame in the ring.
First == dec.next - sound.fill

RingInv ==
  \A k \in RingSlots : k < sound.fill =>
    sound.pcm[(sound.head + k) % Ring] = Sample(First + k, trail.line)

\* The grain is a piece of one timeline. It follows what was heard of it, and the ring
\* follows the grain.
GrainInv ==
  /\ \A i \in 1 .. Avail :
       speaker.grain[i] = Sample(speaker.grain[1].pts + i - 1, speaker.grain[1].line)
  /\ Avail <= Grain /\ trail.heard.line <= trail.line
  /\ Avail > 0 /\ speaker.grain[1].line = trail.heard.line => speaker.grain[1].pts = trail.heard.pts + 1
  /\ Avail > 0 => speaker.grain[1].line <= trail.line
  /\ InFlight => speaker.grain[1].pts + Avail = First
  /\ Avail = 0 /\ trail.heard.line = trail.line => trail.heard.pts + 1 = First

\* The debt is capped, and what is repaid is there. After a flush there is none until the
\* grain under way is accounted for: its repayment meets no clock anchored meanwhile.
DebtInv ==
  ~trail.torn =>
    /\ clk.debt <= DebtMax
    /\ speaker.at \in {"rebase", "repay"} => speaker.step <= clk.debt /\ (~clk.set => dec.at = "off")
    /\ speaker.at = "rebase" => speaker.base = clk.base
    /\ speaker.at = "account" /\ Avail > 0 /\ ~InFlight /\ dec.at # "off" => clk.debt = 0

\* By how much the clock is ahead of the ring, and what is still to come of the grain
\* under way: the sum is the error of the clock when the accounting is over.
Ahead == Clock - First - clk.debt - trail.forgiven + trail.carried
ToCome ==
  CASE speaker.at = "account" -> IF InFlight THEN Avail ELSE 0
    [] speaker.at = "rebase" -> Grain
    [] speaker.at = "repay" -> Grain + speaker.step
    [] speaker.at = "count" -> Grain
    [] OTHER -> 0
ClockInv ==
  clk.set /\ ~trail.torn =>
    /\ Ahead + ToCome \in -(Grain * trail.holds) .. Grain
    /\ speaker.at = "account" /\ InFlight /\ paused => Ahead >= -(Grain * trail.holds)
    /\ speaker.at = "account" /\ Avail > 0 /\ ~InFlight => Ahead = 0

SoundInv ==
  FieldsInv /\ StageInv /\ NobodyOversleeps /\ RingInv /\ GrainInv /\ DebtInv /\ ClockInv

-----------------------------------------------------------------------------
USE DEF FieldsInv

LEMMA Constants ==
  /\ Ring \in Nat /\ Ring > 0 /\ Grain \in Nat /\ Grain > 0 /\ Repaid \in Nat /\ Repaid > 0
  /\ DebtMax \in Nat /\ Width \in Nat /\ High \in Nat /\ Packet \in Nat
  /\ Repaid <= Grain /\ DebtMax + Grain < Width /\ High + Packet <= Ring
BY SoundAssumption

LEMMA SampleFacts ==
  \A x \in Int, l \in Nat : Sample(x, l) \in Samples /\ Sample(x, l).pts = x /\ Sample(x, l).line = l
BY DEF Sample, Samples

\* A grain without frames is the empty sequence; one with frames begins and ends with one.
LEMMA GrainFacts ==
  ASSUME FieldsInv
  PROVE  /\ Avail \in Nat /\ (speaker.grain = <<>> <=> Avail = 0)
         /\ \A i \in 1 .. Avail : speaker.grain[i] \in Samples
         /\ Avail > 0 => speaker.grain[1] \in Samples /\ speaker.grain[Avail] \in Samples
         /\ InFlight <=> Avail > 0 /\ speaker.grain[1].line = trail.line
<1>1. speaker.grain \in Seq(Samples)
  BY DEF SpeakerOK
<1>2. Avail \in Nat /\ \A i \in 1 .. Avail : speaker.grain[i] \in Samples
  BY <1>1 DEF Avail
<1>3. speaker.grain = <<>> <=> Avail = 0
  BY <1>1, EmptySeq DEF Avail
<1> QED BY <1>2, <1>3 DEF InFlight

LEMMA SequenceFacts ==
  \A s \in Seq(Samples) :
    /\ Len(s) \in Nat /\ (s = <<>> <=> Len(s) = 0)
    /\ \A i \in 1 .. Len(s) : s[i] \in Samples
BY EmptySeq

\* Slots of the ring, and how far they lie after the last frame in it.
LEMMA SlotFacts ==
  ASSUME NEW h \in RingSlots, NEW f \in 0 .. Ring, NEW k \in RingSlots
  PROVE  /\ (h + k) % Ring \in RingSlots
         /\ (((h + k) % Ring) - h - f) % Ring = IF k < f THEN k - f + Ring ELSE k - f
BY Constants DEF RingSlots

LEMMA SlotSum ==
  ASSUME NEW h \in RingSlots, NEW d \in 0 .. Ring, NEW k \in Nat, d + k <= Ring
  PROVE  /\ (h + d) % Ring \in RingSlots
         /\ (((h + d) % Ring) + k) % Ring = (h + (d + k)) % Ring
BY Constants DEF RingSlots

-----------------------------------------------------------------------------
LEMMA DeviceKept == ASSUME FieldsInv, SoundNext PROVE DeviceOK'
BY DEF DeviceOK, SoundNext, Playing, OpenSound, CloseSound, Shutdown, Joined, DecodeSound, Write, SeekSound,
       SeekHolds, HoldSound, ReleaseSound, Leave, Sleep, TakeGrain, AccountHeld, AccountSilence, AccountSound,
       Rebase, Repay, Count

\* What a grain takes from the ring.
Taken == IF paused THEN 0 ELSE Lesser(Grain, sound.fill)
GrainTaken == [i \in 1 .. Taken |-> sound.pcm[(sound.head + i - 1) % Ring]]
LEMMA TakeFacts ==
  ASSUME FieldsInv
  PROVE  /\ Taken \in 0 .. sound.fill /\ Taken <= Grain /\ (sound.head + Taken) % Ring \in RingSlots
         /\ GrainTaken \in Seq(Samples) /\ Len(GrainTaken) = Taken
         /\ TakeGrain =>
              /\ speaker' = [at |-> "account", grain |-> GrainTaken, base |-> 0, step |-> 0]
              /\ DOMAIN sound' = DOMAIN sound /\ sound'.pcm = sound.pcm
              /\ sound'.head = (sound.head + Taken) % Ring /\ sound'.fill = sound.fill - Taken
              /\ trail' = [trail EXCEPT !.grains = IF paused THEN @ ELSE @ + 1]
<1>1. Taken \in 0 .. sound.fill /\ Taken <= Grain /\ (sound.head + Taken) % Ring \in RingSlots
  BY Constants DEF Taken, Lesser, RingSlots, RingOK
<1>2. \A i \in 1 .. Taken : (sound.head + i - 1) % Ring \in RingSlots
  BY <1>1, Constants DEF RingSlots, RingOK
<1>3. GrainTaken \in Seq(Samples) /\ Len(GrainTaken) = Taken
  <2>1. GrainTaken \in [1 .. Taken -> Samples]
    BY <1>2 DEF GrainTaken, RingOK
  <2> QED BY <1>1, <2>1, IsASeq DEF RingOK, GrainTaken
<1>4. ASSUME TakeGrain
      PROVE  /\ speaker' = [Stage("account") EXCEPT !.grain = GrainTaken]
             /\ sound' = [sound EXCEPT !.head = (@ + Taken) % Ring, !.fill = @ - Taken]
             /\ trail' = [trail EXCEPT !.grains = IF paused THEN @ ELSE @ + 1]
  BY <1>4 DEF TakeGrain, Taken, GrainTaken
<1>5. [Stage("account") EXCEPT !.grain = GrainTaken] = [at |-> "account", grain |-> GrainTaken, base |-> 0, step |-> 0]
  BY DEF Stage
<1>6. ASSUME TakeGrain
      PROVE  /\ DOMAIN sound' = DOMAIN sound /\ sound'.pcm = sound.pcm
             /\ sound'.head = (sound.head + Taken) % Ring /\ sound'.fill = sound.fill - Taken
  BY <1>4, <1>6 DEF RingOK
<1> QED BY <1>1, <1>3, <1>4, <1>5, <1>6

\* What is written to the ring: how many frames, and what a slot holds afterwards.
Kept == Lesser(dec.n, Ring - sound.fill)
Age(i) == (i - sound.head - sound.fill) % Ring
Written(i) == IF Age(i) < Kept THEN Sample(dec.next + Age(i), trail.line) ELSE sound.pcm[i]
LEMMA KeptFacts ==
  ASSUME FieldsInv
  PROVE  /\ Kept \in Nat /\ sound.fill + Kept <= Ring /\ Kept <= dec.n
         /\ Write => /\ DOMAIN sound' = DOMAIN sound /\ sound'.head = sound.head /\ sound'.fill = sound.fill + Kept
                     /\ sound'.pcm \in [RingSlots -> Samples]
                     /\ \A i \in RingSlots : sound'.pcm[i] = Written(i)
<1>1. Kept \in Nat /\ sound.fill + Kept <= Ring /\ Kept <= dec.n
  BY Constants DEF Kept, Lesser, RingOK, DecoderOK
<1>2. ASSUME NEW i \in RingSlots
      PROVE  Written(i) \in Samples
  <2>1. dec.next + Age(i) \in Int
    BY Constants DEF RingOK, RingSlots, DecoderOK, Age
  <2>2. sound.pcm[i] \in Samples /\ trail.line \in Nat
    BY DEF RingOK, TrailOK
  <2> QED BY <2>1, <2>2, SampleFacts DEF Written
<1>3. Write => /\ DOMAIN sound' = DOMAIN sound /\ sound'.head = sound.head /\ sound'.fill = sound.fill + Kept
               /\ sound'.pcm = [i \in RingSlots |-> Written(i)]
  BY DEF Write, Kept, RingOK, Written, Age
<1> QED BY <1>1, <1>2, <1>3

LEMMA RingKept == ASSUME FieldsInv, SoundNext PROVE RingOK'
<1> USE Constants DEF RingOK
<1>1. 0 \in RingSlots /\ 0 \in 0 .. Ring /\ NoSound \in Samples
  BY DEF NoSound, Sample, Samples, RingSlots
<1>2. CASE OpenSound \/ CloseSound \/ SeekSound
  BY <1>1, <1>2 DEF OpenSound, CloseSound, SeekSound, RingReset
<1>3. CASE Joined
  <2>1. [i \in RingSlots |-> NoSound] \in [RingSlots -> Samples]
    BY <1>1
  <2>2. sound' = [pcm |-> [i \in RingSlots |-> NoSound], head |-> 0, fill |-> 0]
    BY <1>3 DEF Joined, Empty
  <2>3. DOMAIN sound' = {"pcm", "head", "fill"} /\ sound'.pcm = [i \in RingSlots |-> NoSound]
        /\ sound'.head = 0 /\ sound'.fill = 0
    BY <2>2
  <2> QED BY <1>1, <2>1, <2>3
<1>4. CASE Write
  BY <1>4, KeptFacts
<1>5. CASE TakeGrain
  BY <1>5, TakeFacts
<1>6. CASE UNCHANGED sound
  BY <1>6
<1> QED BY <1>2, <1>3, <1>4, <1>5, <1>6 DEF SoundNext, Playing, Shutdown, DecodeSound,
     SeekHolds, HoldSound, ReleaseSound, Leave, Sleep, AccountHeld, AccountSilence, AccountSound,
     Rebase, Repay, Count

LEMMA DecoderKept == ASSUME FieldsInv, SoundNext PROVE DecoderOK'
<1> USE DEF DecoderOK
<1>1. CASE DecodeSound
  <2>1. PICK n \in 1 .. Packet : dec' = [dec EXCEPT !.at = "write", !.n = n]
    BY <1>1 DEF DecodeSound
  <2> QED BY <2>1, Constants
<1>2. CASE OpenSound
  BY <1>2 DEF OpenSound
<1>4. CASE CloseSound \/ SeekSound \/ SeekHolds
  <2>1. CASE CloseSound
    BY <2>1 DEF CloseSound
  <2>2. CASE SeekSound
    BY <2>2 DEF SeekSound
  <2>3. CASE SeekHolds
    BY <2>3 DEF SeekHolds
  <2> QED BY <1>4, <2>1, <2>2, <2>3
<1>5. CASE Write
  BY <1>5 DEF Write
<1>3. CASE UNCHANGED dec
  BY <1>3
<1> QED BY <1>1, <1>2, <1>3, <1>4, <1>5 DEF SoundNext, Playing, Shutdown, Joined, HoldSound, ReleaseSound, Leave, Sleep,
     TakeGrain, AccountHeld, AccountSilence, AccountSound, Rebase, Repay, Count

LEMMA ClockKept == ASSUME FieldsInv, SoundNext PROVE ClockOK'
<1> USE Constants DEF ClockOK
<1>1. CASE OpenSound \/ CloseSound \/ SeekSound
  <2>1. clk' = [Unset EXCEPT !.debt = clk.debt] \/ clk' = Unset
    BY <1>1 DEF OpenSound, CloseSound, SeekSound
  <2>2. CASE clk' = Unset
    BY <2>2 DEF Unset
  <2>3. CASE clk' = [Unset EXCEPT !.debt = clk.debt]
    BY <2>3 DEF Unset
  <2> QED BY <2>1, <2>2, <2>3
<1>2. CASE Joined \/ Count
  <2>1. CASE Joined
    BY <2>1 DEF Joined
  <2>2. CASE Count
    BY <2>2 DEF Count
  <2> QED BY <1>2, <2>1, <2>2
<1>3. CASE DecodeSound
  <2>1. CASE clk.set
    BY <1>3, <2>1 DEF DecodeSound, Anchored
  <2>2. CASE ~clk.set
    <3>1. clk' = [clk EXCEPT !.base = dec.next - clk.hw, !.set = TRUE]
      BY <1>3, <2>2 DEF DecodeSound, Anchored
    <3>2. dec.next - clk.hw \in Int
      BY DEF DecoderOK
    <3> QED BY <3>1, <3>2
  <2> QED BY <2>1, <2>2
<1>4. CASE AccountSilence
  <2> DEFINE debt == (clk.debt + Grain - Avail) % Width
  <2>1. debt \in 0 .. Width - 1 /\ Lesser(debt, DebtMax) \in 0 .. Width - 1
    BY GrainFacts DEF Lesser
  <2>2. clk' = [clk EXCEPT !.debt = Lesser(debt, DebtMax)]
    BY <1>4 DEF AccountSilence
  <2> HIDE DEF debt
  <2> QED BY <2>1, <2>2
<1>5. CASE Rebase \/ Repay
  <2>1. speaker.base - speaker.step \in Int /\ (clk.debt - speaker.step) % Width \in 0 .. Width - 1
    BY DEF SpeakerOK
  <2> QED BY <1>5, <2>1 DEF Rebase, Repay
<1>6. CASE UNCHANGED clk
  BY <1>6
<1> QED BY <1>1, <1>2, <1>3, <1>4, <1>5, <1>6 DEF SoundNext, Playing, Shutdown, Write,
     SeekHolds, HoldSound, ReleaseSound, Leave, Sleep, TakeGrain, AccountHeld, AccountSound

LEMMA SpeakerKept == ASSUME FieldsInv, SoundNext PROVE SpeakerOK'
<1> USE Constants DEF SpeakerOK, Stages
<1>1. ASSUME NEW at \in Stages, speaker' = Stage(at)
      PROVE  SpeakerOK'
  BY <1>1 DEF Stage
<1>2. CASE TakeGrain
  <2>1. speaker' = [at |-> "account", grain |-> GrainTaken, base |-> 0, step |-> 0] /\ GrainTaken \in Seq(Samples)
    BY <1>2, TakeFacts
  <2> QED BY <2>1
<1>3. CASE AccountSilence \/ Rebase \/ Repay
  BY <1>3 DEF AccountSilence, Rebase, Repay
<1>4. CASE AccountSound
  <2>1. clk.base \in Int /\ Lesser(clk.debt, Repaid) \in Nat
    BY DEF ClockOK, Lesser
  <2> QED BY <1>4, <2>1 DEF AccountSound
<1>5. CASE speaker' = speaker
  BY <1>5
<1>6. CASE speaker' = Woken
  BY <1>6 DEF Woken
<1> QED BY <1>1, <1>2, <1>3, <1>4, <1>5, <1>6 DEF SoundNext, Playing, OpenSound, CloseSound, Shutdown, Joined,
     DecodeSound, Write, SeekSound, SeekHolds, HoldSound, ReleaseSound, Leave, Sleep, AccountHeld, Count

LEMMA TrailKept == ASSUME FieldsInv, SoundNext PROVE TrailOK'
<1> USE DEF TrailOK
<1>1. CASE OpenSound \/ CloseSound \/ SeekSound
  <2>1. trail' = NewLine \/ trail' = [NewLine EXCEPT !.begun = @ + 1]
    BY <1>1 DEF OpenSound, CloseSound, SeekSound
  <2>2. CASE trail' = NewLine
    BY <2>2 DEF NewLine
  <2>3. CASE trail' = [NewLine EXCEPT !.begun = @ + 1]
    BY <2>3 DEF NewLine
  <2> QED BY <2>1, <2>2, <2>3
<1>2. CASE DecodeSound
  <2>1. clk.debt \in Nat
    BY Constants DEF ClockOK
  <2> QED BY <1>2, <2>1 DEF DecodeSound
<1>3. CASE Write
  <2>1. Kept \in Nat /\ trail.lost + dec.n - Kept \in Nat /\ trail' = [trail EXCEPT !.lost = @ + dec.n - Kept]
    BY <1>3, KeptFacts DEF Write, Kept, DecoderOK
  <2> QED BY <2>1
<1>4. CASE SeekHolds \/ HoldSound \/ TakeGrain
  BY <1>4 DEF SeekHolds, HoldSound, TakeGrain
<1>5. CASE AccountHeld \/ Count
  <2>1. Heard \in Samples
    BY GrainFacts DEF Heard
  <2> QED BY <1>5, <2>1 DEF AccountHeld, Count
<1>6. CASE AccountSilence
  <2> DEFINE debt == (clk.debt + Grain - Avail) % Width
  <2>0. debt \in Nat
    BY Constants, GrainFacts, SMTT(40) DEF ClockOK
  <2>1. debt - Lesser(debt, DebtMax) \in Nat
    <3> HIDE DEF debt
    <3> QED BY <2>0, Constants DEF Lesser
  <2>2. trail' = [trail EXCEPT !.forgiven = @ + debt - Lesser(debt, DebtMax)]
    BY <1>6 DEF AccountSilence
  <2> HIDE DEF debt
  <2>3. trail.forgiven + debt - Lesser(debt, DebtMax) \in Nat
    BY <2>0, <2>1, Constants DEF Lesser
  <2> QED BY <2>2, <2>3
<1>7. CASE UNCHANGED trail
  BY <1>7
<1> QED BY <1>1, <1>2, <1>3, <1>4, <1>5, <1>6, <1>7 DEF SoundNext, Playing, Shutdown, Joined,
     ReleaseSound, Leave, Sleep, AccountSound, Rebase, Repay

LEMMA FieldsKept == ASSUME FieldsInv, SoundNext PROVE FieldsInv'
BY DeviceKept, RingKept, ClockKept, SpeakerKept, DecoderKept, TrailKept

-----------------------------------------------------------------------------
\* A flush: audio_open, audio_close, apply_seek.
Flush == OpenSound \/ CloseSound \/ SeekSound
LEMMA FlushFacts ==
  ASSUME FieldsInv, Flush
  PROVE  /\ sound'.fill = 0 /\ clk'.set = FALSE /\ clk'.debt \in {0, clk.debt}
         /\ dec'.at # "write" /\ (dec'.at # "off" => clk'.debt = 0)
         /\ trail'.line = trail.line + 1 /\ trail'.heard = trail.heard
         /\ trail'.torn = (trail.torn \/ Updating)
         /\ speaker'.grain \in {speaker.grain, <<>>}
         /\ speaker'.at \in {speaker.at, "take"}
         /\ speaker'.at = "take" /\ speaker.at # "take" => speaker.at = "asleep" \/ speaker'.grain = <<>>
<1>1. sound'.fill = 0
  BY DEF Flush, OpenSound, CloseSound, SeekSound, RingReset, RingOK
<1>2. clk'.set = FALSE /\ clk'.debt \in {0, clk.debt} /\ dec'.at # "write" /\ (dec'.at # "off" => clk'.debt = 0)
  <2>1. CASE OpenSound
    BY <2>1 DEF OpenSound, Unset, DecoderOK, ClockOK
  <2>2. CASE CloseSound
    BY <2>2 DEF CloseSound, Unset, DecoderOK, ClockOK
  <2>3. CASE SeekSound
    BY <2>3 DEF SeekSound, Unset, DecoderOK, ClockOK
  <2> QED BY <2>1, <2>2, <2>3 DEF Flush
<1>3. trail'.line = trail.line + 1 /\ trail'.heard = trail.heard /\ trail'.torn = (trail.torn \/ Updating)
  <2>1. trail' = NewLine \/ trail' = [NewLine EXCEPT !.begun = @ + 1]
    BY DEF Flush, OpenSound, CloseSound, SeekSound
  <2>2. CASE trail' = NewLine
    BY <2>2 DEF NewLine, TrailOK
  <2>3. CASE trail' = [NewLine EXCEPT !.begun = @ + 1]
    BY <2>3 DEF NewLine, TrailOK
  <2> QED BY <2>1, <2>2, <2>3
<1>4. /\ speaker'.grain \in {speaker.grain, <<>>}
      /\ speaker'.at \in {speaker.at, "take"}
      /\ speaker'.at = "take" /\ speaker.at # "take" => speaker.at = "asleep" \/ speaker'.grain = <<>>
  <2>1. speaker' = Stage("take") \/ speaker' = Woken \/ speaker' = speaker
    BY DEF Flush, OpenSound, CloseSound, SeekSound
  <2>2. CASE speaker' = Woken
    BY <2>2 DEF Woken, SpeakerOK
  <2> QED BY <2>1, <2>2 DEF Stage
<1> QED BY <1>1, <1>2, <1>3, <1>4

HIDE DEF FieldsInv

\* Nothing of the new timeline is in the ring or played.
LEMMA FlushKeepsSound ==
  ASSUME FieldsInv, FieldsInv', GrainInv, Flush
  PROVE  RingInv' /\ GrainInv' /\ ~InFlight'
<1>1. sound'.fill = 0 /\ trail'.line = trail.line + 1 /\ trail'.heard = trail.heard
      /\ speaker'.grain \in {speaker.grain, <<>>}
  BY FlushFacts
<1>2. RingInv'
  BY <1>1, Constants DEF RingInv, RingSlots
<1>3. speaker.grain \in Seq(Samples) /\ trail.line \in Nat /\ trail.heard.line \in Nat
  BY DEF FieldsInv, SpeakerOK, TrailOK, Samples
<1>4. trail'.heard.line <= trail'.line /\ trail'.heard.line # trail'.line
  BY <1>1, <1>3 DEF GrainInv
<1>5. CASE speaker'.grain = <<>>
  <2>1. Avail' = 0
    BY <1>5 DEF Avail
  <2>2. ~InFlight'
    BY <1>5 DEF InFlight
  <2> QED BY <1>2, <1>4, <2>1, <2>2, Constants DEF GrainInv
<1>6. CASE speaker'.grain = speaker.grain /\ speaker.grain # <<>>
  <2>1. Avail' = Avail /\ Avail \in Nat /\ Avail > 0 /\ speaker.grain[1] \in Samples
    BY <1>6, GrainFacts DEF Avail
  <2>2. speaker'.grain[1].line <= trail'.line /\ speaker'.grain[1].line # trail'.line
    BY <1>1, <1>3, <1>6, <2>1 DEF GrainInv, Samples
  <2>3. ~InFlight'
    BY <1>1, <1>3, <1>6, <2>1, <2>2 DEF InFlight, Samples
  <2>4. /\ \A i \in 1 .. Avail' :
             speaker'.grain[i] = Sample(speaker'.grain[1].pts + i - 1, speaker'.grain[1].line)
        /\ Avail' <= Grain
        /\ Avail' > 0 /\ speaker'.grain[1].line = trail'.heard.line =>
             speaker'.grain[1].pts = trail'.heard.pts + 1
    BY <1>1, <1>6, <2>1 DEF GrainInv
  <2> QED BY <1>2, <1>4, <2>1, <2>2, <2>3, <2>4 DEF GrainInv
<1> QED BY <1>1, <1>5, <1>6

\* What leaves the sound alone keeps what is said of it.
SoundStays ==
  /\ sound'.fill = sound.fill /\ (sound.fill > 0 => sound'.head = sound.head /\ sound'.pcm = sound.pcm)
  /\ dec'.next = dec.next /\ speaker'.grain = speaker.grain
  /\ trail'.line = trail.line /\ trail'.heard = trail.heard
LEMMA StayingFacts ==
  ASSUME FieldsInv, SoundStays
  PROVE  /\ First' = First /\ Avail' = Avail /\ (InFlight' <=> InFlight)
         /\ RingInv => RingInv'
         /\ GrainInv => GrainInv'
<1>1. First' = First /\ Avail' = Avail /\ (InFlight' <=> InFlight)
  BY DEF SoundStays, First, Avail, InFlight
<1>2. GrainInv => GrainInv'
  BY <1>1 DEF SoundStays, GrainInv
<1>3. ASSUME RingInv, NEW k \in RingSlots, k < sound'.fill
      PROVE  sound'.pcm[(sound'.head + k) % Ring] = Sample(First' + k, trail'.line)
  BY <1>1, <1>3, Constants, SMTT(40) DEF SoundStays, RingInv, RingSlots, FieldsInv, RingOK
<1> QED BY <1>1, <1>2, <1>3 DEF RingInv

LEMMA Stays ==
  ASSUME FieldsInv, StageInv,
         \/ Shutdown \/ Joined \/ DecodeSound \/ SeekHolds \/ HoldSound \/ ReleaseSound \/ Leave \/ Sleep
         \/ AccountSilence \/ AccountSound \/ Rebase \/ Repay
  PROVE  SoundStays
<1> USE DEF SoundStays
<1>1. CASE HoldSound \/ ReleaseSound \/ SeekHolds
  BY <1>1 DEF HoldSound, ReleaseSound, SeekHolds, FieldsInv, TrailOK, DecoderOK
<1>2. CASE Shutdown
  BY <1>2 DEF Shutdown, Woken, FieldsInv, SpeakerOK
<1>3. CASE Joined
  <2>1. sound.fill = 0
    BY <1>3 DEF Joined, StageInv
  <2>2. sound'.fill = 0 /\ UNCHANGED <<speaker, dec, trail>>
    BY <1>3 DEF Joined, Empty
  <2> QED BY <2>1, <2>2
<1>4. CASE DecodeSound
  <2>1. PICK n \in 1 .. Packet : dec' = [dec EXCEPT !.at = "write", !.n = n]
    BY <1>4 DEF DecodeSound
  <2>2. dec'.next = dec.next
    BY <2>1 DEF FieldsInv, DecoderOK
  <2>3. trail'.line = trail.line /\ trail'.heard = trail.heard
    BY <1>4 DEF DecodeSound, FieldsInv, TrailOK
  <2> QED BY <1>4, <2>2, <2>3 DEF DecodeSound
<1>5. CASE Leave \/ Sleep
  <2>1. speaker.grain = <<>> /\ UNCHANGED <<sound, dec, trail>>
    BY <1>5 DEF Leave, Sleep, StageInv
  <2>2. speaker'.grain = <<>>
    BY <1>5 DEF Leave, Sleep, Stage
  <2> QED BY <2>1, <2>2
<1>6. CASE AccountSilence
  BY <1>6 DEF AccountSilence, FieldsInv, SpeakerOK, TrailOK
<1>7. CASE AccountSound
  BY <1>7 DEF AccountSound, FieldsInv, SpeakerOK
<1>8. CASE Rebase \/ Repay
  BY <1>8 DEF Rebase, Repay, FieldsInv, SpeakerOK
<1> QED BY <1>1, <1>2, <1>3, <1>4, <1>5, <1>6, <1>7, <1>8

\* A packet is appended where the sound in the ring ends.
LEMMA WriteKeepsSound ==
  ASSUME FieldsInv, StageInv, RingInv, GrainInv, Write
  PROVE  RingInv' /\ GrainInv' /\ First' = First /\ Avail' = Avail /\ (InFlight' <=> InFlight)
<1>1. /\ dec.n \in Nat /\ dec.next \in Nat /\ sound.fill \in 0 .. Ring /\ sound.head \in RingSlots
      /\ sound.fill + dec.n <= Ring
  BY DEF FieldsInv, DecoderOK, RingOK, Write, StageInv
<1>2. Kept = dec.n
  BY <1>1, Constants DEF Kept, Lesser
<1>3. /\ sound'.head = sound.head /\ sound'.fill = sound.fill + dec.n
      /\ \A i \in RingSlots : sound'.pcm[i] = Written(i)
  BY <1>2, KeptFacts
<1>4. dec'.next = dec.next + dec.n /\ trail'.line = trail.line /\ trail'.heard = trail.heard
  BY DEF Write, FieldsInv, DecoderOK, TrailOK
<1>5. speaker'.grain = speaker.grain
  BY DEF Write, Woken, FieldsInv, SpeakerOK
<1>6. First' = First /\ First \in Int
  BY <1>1, <1>3, <1>4, Constants DEF First
<1>7. ASSUME NEW k \in RingSlots, k < sound'.fill
      PROVE  sound'.pcm[(sound'.head + k) % Ring] = Sample(First' + k, trail'.line)
  <2> DEFINE i == (sound.head + k) % Ring
  <2>1. i \in RingSlots /\ Age(i) = IF k < sound.fill THEN k - sound.fill + Ring ELSE k - sound.fill
    BY <1>1, SlotFacts DEF Age
  <2>2. sound'.pcm[(sound'.head + k) % Ring] = Written(i)
    BY <1>3, <2>1
  <2>3. k \in Int /\ k >= 0 /\ k < Ring /\ Ring \in Nat
    BY Constants DEF RingSlots
  <2> HIDE DEF i
  <2>4. CASE k < sound.fill
    <3>1. ~(Age(i) < Kept)
      BY <1>1, <1>2, <2>1, <2>3, <2>4
    <3>2. sound.pcm[i] = Sample(First + k, trail.line)
      BY <2>4 DEF RingInv, i
    <3> QED BY <1>4, <1>6, <2>2, <3>1, <3>2 DEF Written
  <2>5. CASE ~(k < sound.fill)
    <3>1. Age(i) = k - sound.fill /\ Age(i) < Kept
      BY <1>1, <1>2, <1>3, <1>7, <2>1, <2>3, <2>5
    <3>2. dec.next + Age(i) = First + k
      BY <1>1, <2>3, <3>1, Constants DEF First
    <3> QED BY <1>4, <1>6, <2>2, <3>1, <3>2 DEF Written
  <2> QED BY <2>4, <2>5
<1>8. RingInv'
  BY <1>7 DEF RingInv
<1>9. Avail' = Avail /\ (InFlight' <=> InFlight)
  BY <1>4, <1>5 DEF Avail, InFlight
<1>10. GrainInv'
  BY <1>4, <1>5, <1>6, <1>9 DEF GrainInv
<1> QED BY <1>6, <1>8, <1>9, <1>10

\* A grain is the beginning of what is in the ring.
LEMMA TakeKeepsSound ==
  ASSUME FieldsInv, FieldsInv', StageInv, RingInv, GrainInv, TakeGrain
  PROVE  /\ RingInv' /\ GrainInv' /\ Avail' = Taken /\ First' = First + Avail'
         /\ (InFlight' <=> Avail' > 0) /\ speaker'.at = "account" /\ ~InFlight
<1>1. speaker.grain = <<>> /\ Avail = 0 /\ ~InFlight
  BY DEF TakeGrain, StageInv, Avail, InFlight
<1>2. /\ sound'.pcm = sound.pcm /\ sound'.head = (sound.head + Taken) % Ring /\ sound'.fill = sound.fill - Taken
      /\ Taken \in 0 .. sound.fill /\ Taken <= Grain /\ Len(GrainTaken) = Taken
  BY TakeFacts
<1>3. speaker'.at = "account" /\ speaker'.grain = GrainTaken
  <2>1. speaker' = [at |-> "account", grain |-> GrainTaken, base |-> 0, step |-> 0]
    BY TakeFacts
  <2> QED BY <2>1
<1>4. Avail' = Taken
  BY <1>2, <1>3 DEF Avail
<1>5. sound.fill \in 0 .. Ring /\ sound.head \in RingSlots /\ dec.next \in Nat /\ Taken \in 0 .. Ring
      /\ trail.line \in Nat /\ trail.heard \in Samples
  <2>1. sound.fill \in 0 .. Ring /\ sound.head \in RingSlots
    BY DEF FieldsInv, RingOK
  <2>2. dec.next \in Nat /\ trail.line \in Nat /\ trail.heard \in Samples
    BY DEF FieldsInv, DecoderOK, TrailOK
  <2>3. Taken \in 0 .. Ring
    BY <1>2, <2>1, Constants
  <2> QED BY <2>1, <2>2, <2>3
<1>6. dec' = dec /\ trail'.line = trail.line /\ trail'.heard = trail.heard
  <2>1. trail' = [trail EXCEPT !.grains = IF paused THEN @ ELSE @ + 1]
    BY TakeFacts
  <2> QED BY <2>1 DEF TakeGrain, FieldsInv, TrailOK
<1>7. First \in Int /\ First' = First + Taken
  BY <1>2, <1>5, <1>6, Constants DEF First
<1>8. ASSUME NEW k \in RingSlots, k < sound'.fill
      PROVE  sound'.pcm[(sound'.head + k) % Ring] = Sample(First' + k, trail'.line)
  <2>1. k \in Nat /\ Taken + k \in RingSlots /\ Taken + k < sound.fill /\ Taken + k <= Ring
    <3>1. k \in Nat /\ Taken \in Nat /\ sound.fill \in Nat /\ sound.fill <= Ring /\ Ring \in Nat
      BY <1>5, Constants DEF RingSlots
    <3>2. k < sound.fill - Taken
      BY <1>2, <1>8
    <3> QED BY <3>1, <3>2 DEF RingSlots
  <2>2. (sound'.head + k) % Ring = (sound.head + (Taken + k)) % Ring
    <3>1. (((sound.head + Taken) % Ring) + k) % Ring = (sound.head + (Taken + k)) % Ring
      BY <1>5, <2>1, SlotSum
    <3> QED BY <1>2, <3>1
  <2>3. sound.pcm[(sound.head + (Taken + k)) % Ring] = Sample(First + (Taken + k), trail.line)
    BY <2>1 DEF RingInv
  <2>4. First + (Taken + k) = First' + k
    BY <1>5, <1>7, <2>1
  <2> QED BY <1>2, <1>6, <2>2, <2>3, <2>4
<1>9. ASSUME NEW i \in 1 .. Taken
      PROVE  speaker'.grain[i] = Sample(First + (i - 1), trail.line)
  <2>1. i - 1 \in RingSlots /\ i - 1 < sound.fill
    BY <1>2, <1>5, Constants DEF RingSlots
  <2>2. sound.head + i - 1 = sound.head + (i - 1)
    BY <1>5, Constants DEF RingSlots
  <2> QED BY <1>3, <2>1, <2>2 DEF GrainTaken, RingInv
<1>10. Taken > 0 => speaker'.grain[1].pts = First /\ speaker'.grain[1].line = trail.line
  <2> SUFFICES ASSUME Taken > 0
               PROVE  speaker'.grain[1].pts = First /\ speaker'.grain[1].line = trail.line
    OBVIOUS
  <2>1. speaker'.grain[1] = Sample(First + (1 - 1), trail.line)
    BY <1>2, <1>9
  <2>2. First + (1 - 1) = First
    BY <1>7
  <2> QED BY <1>5, <1>7, <2>1, <2>2, SampleFacts
<1>11. InFlight' <=> Avail' > 0
  <2>1. Taken = 0 => speaker'.grain = <<>>
    BY <1>2, <1>3, TakeFacts, SequenceFacts
  <2>2. Taken > 0 => speaker'.grain # <<>>
    BY <1>2, <1>3
  <2> QED BY <1>4, <1>5, <1>6, <1>10, <2>1, <2>2 DEF InFlight
<1>12. GrainInv'
  <2>1. CASE Taken = 0
    <3>1. trail.heard.line <= trail.line /\ (trail.heard.line = trail.line => trail.heard.pts + 1 = First')
      BY <1>1, <1>7, <2>1 DEF GrainInv
    <3> QED BY <1>4, <1>6, <1>11, <2>1, <3>1, Constants DEF GrainInv
  <2>2. CASE Taken > 0
    <3>1. \A i \in 1 .. Taken : speaker'.grain[i] = Sample(speaker'.grain[1].pts + i - 1, speaker'.grain[1].line)
      <4> TAKE i \in 1 .. Taken
      <4>1. speaker'.grain[1].pts + i - 1 = First + (i - 1)
        BY <1>7, <1>10, <2>2
      <4> QED BY <1>9, <1>10, <2>2, <4>1
    <3>2. trail.heard.line <= trail.line /\ (trail.heard.line = trail.line => trail.heard.pts + 1 = First)
      BY <1>1 DEF GrainInv
    <3>3. speaker'.grain[1].line = trail'.heard.line => speaker'.grain[1].pts = trail'.heard.pts + 1
      BY <1>6, <1>10, <2>2, <3>2
    <3>4. Avail' > 0 /\ Avail' <= Grain /\ ~(Avail' = 0)
      BY <1>2, <1>4, <2>2
    <3>5. speaker'.grain[1].line <= trail'.line /\ speaker'.grain[1].pts + Avail' = First'
      BY <1>4, <1>5, <1>6, <1>7, <1>10, <2>2
    <3> QED BY <1>4, <1>6, <3>1, <3>2, <3>3, <3>4, <3>5 DEF GrainInv
  <2> QED BY <1>5, <2>1, <2>2
<1> QED BY <1>1, <1>3, <1>4, <1>7, <1>8, <1>11, <1>12 DEF RingInv

\* A grain that has been accounted for is what was heard last.
LEMMA HeardKeepsSound ==
  ASSUME FieldsInv, RingInv, GrainInv, AccountHeld \/ Count
  PROVE  RingInv' /\ GrainInv' /\ First' = First /\ ~InFlight' /\ Avail' = 0
<1>1. speaker' = Stage("take") /\ trail' = [trail EXCEPT !.heard = Heard] /\ UNCHANGED <<sound, dec>>
  BY DEF AccountHeld, Count
<1>2. speaker'.grain = <<>> /\ Avail' = 0 /\ ~InFlight'
  BY <1>1 DEF Stage, Avail, InFlight
<1>3. trail'.heard = Heard /\ trail'.line = trail.line /\ First' = First
  BY <1>1 DEF FieldsInv, TrailOK, First
<1>4. RingInv'
  BY <1>1, <1>3 DEF RingInv
<1>5. Heard.line <= trail.line /\ (Heard.line = trail.line => Heard.pts + 1 = First)
  <2>1. CASE speaker.grain = <<>>
    <3>1. Avail = 0 /\ Heard = trail.heard
      BY <2>1, GrainFacts DEF Heard
    <3> QED BY <3>1 DEF GrainInv
  <2>2. CASE speaker.grain # <<>>
    <3>1. Avail \in Nat /\ Avail > 0 /\ speaker.grain[1] \in Samples /\ Heard = speaker.grain[Avail]
      BY <2>2, GrainFacts DEF Heard
    <3>2. speaker.grain[1].pts + Avail - 1 \in Int /\ speaker.grain[1].line \in Nat
      BY <3>1 DEF Samples
    <3>3. Heard = Sample(speaker.grain[1].pts + Avail - 1, speaker.grain[1].line)
      BY <3>1 DEF GrainInv
    <3>4. Heard.pts = speaker.grain[1].pts + Avail - 1 /\ Heard.line = speaker.grain[1].line
      BY <3>2, <3>3, SampleFacts
    <3>5. speaker.grain[1].line <= trail.line
      BY <3>1 DEF GrainInv
    <3>6. speaker.grain[1].line = trail.line => speaker.grain[1].pts + Avail = First
      BY <2>2 DEF GrainInv, InFlight
    <3> QED BY <3>1, <3>2, <3>4, <3>5, <3>6 DEF Samples
  <2> QED BY <2>1, <2>2
<1> QED BY <1>2, <1>3, <1>4, <1>5, Constants DEF GrainInv

LEMMA SoundKept ==
  ASSUME FieldsInv, FieldsInv', StageInv, RingInv, GrainInv, SoundNext
  PROVE  RingInv' /\ GrainInv'
<1>1. CASE Flush
  BY <1>1, FlushKeepsSound
<1>2. CASE Write
  BY <1>2, WriteKeepsSound
<1>3. CASE TakeGrain
  BY <1>3, TakeKeepsSound
<1>4. CASE AccountHeld \/ Count
  BY <1>4, HeardKeepsSound
<1>5. CASE SoundStays
  BY <1>5, StayingFacts
<1> QED BY <1>1, <1>2, <1>3, <1>4, <1>5, Stays DEF SoundNext, Playing, Flush

-----------------------------------------------------------------------------
\* The decode thread waits for room, so that the packet fits; nobody takes it away.
LEMMA DecodeKeepsStages ==
  ASSUME FieldsInv, FieldsInv', StageInv, Guarded, DecodeSound
  PROVE  StageInv'
<1>1. PICK n \in 1 .. Packet : dec' = [dec EXCEPT !.at = "write", !.n = n]
  BY DEF DecodeSound
<1>2. dec'.at = "write" /\ dec'.n = n /\ dec.at = "read"
  BY <1>1 DEF DecodeSound, FieldsInv, DecoderOK
<1>3. clk'.set
  BY DEF DecodeSound, Anchored, FieldsInv, ClockOK
<1>4. sound.fill + n <= Ring
  BY Constants DEF DecodeSound, RoomForPacket, FieldsInv, RingOK
<1>5. UNCHANGED <<dev, sound, speaker>>
  BY DEF DecodeSound
<1> QED BY <1>2, <1>3, <1>4, <1>5 DEF StageInv

LEMMA WakingFacts ==
  ASSUME FieldsInv, speaker' = Woken
  PROVE  /\ speaker'.grain = speaker.grain /\ speaker'.at # "asleep"
         /\ speaker'.base = speaker.base /\ speaker'.step = speaker.step
         /\ speaker'.at = IF speaker.at = "asleep" THEN "take" ELSE speaker.at
BY DEF FieldsInv, SpeakerOK, Woken

LEMMA StagesKept ==
  ASSUME FieldsInv, FieldsInv', StageInv, RingInv, GrainInv, Guarded, SoundNext
  PROVE  StageInv'
<1>1. CASE DecodeSound
  BY <1>1, DecodeKeepsStages
<1>2. CASE Flush
  <2>1. sound'.fill = 0 /\ ~clk'.set /\ dec'.at # "write" /\ ~InFlight'
    BY <1>2, FlushFacts, FlushKeepsSound
  <2>2. speaker'.at \in {"off", "asleep", "take"} => speaker'.grain = <<>>
    BY <1>2, FlushFacts DEF StageInv
  <2>3. dev' \in {"none", "stopping", "gone"} => dec'.at = "off"
    <3>1. CASE OpenSound
      BY <3>1 DEF OpenSound
    <3>2. CASE CloseSound
      BY <3>2 DEF CloseSound, FieldsInv, DecoderOK
    <3>3. CASE SeekSound
      BY <3>3 DEF SeekSound, StageInv
    <3> QED BY <1>2, <3>1, <3>2, <3>3 DEF Flush
  <2> QED BY <2>1, <2>2, <2>3 DEF StageInv
<1>3. CASE Write
  <2>1. (InFlight' <=> InFlight) /\ clk.set /\ clk' = clk /\ dev' = dev /\ dec.at = "write"
    BY <1>3, WriteKeepsSound DEF Write, StageInv
  <2>2. dec'.at = "read"
    BY <1>3 DEF Write, FieldsInv, DecoderOK
  <2>3. speaker'.at \in {"off", "asleep", "take"} => speaker'.grain = <<>>
    BY <1>3, WakingFacts DEF Write, StageInv
  <2> QED BY <2>1, <2>2, <2>3 DEF StageInv
<1>4. CASE TakeGrain
  <2>1. UNCHANGED <<dev, clk, dec>>
    BY <1>4 DEF TakeGrain
  <2>2. speaker'.at = "account" /\ (InFlight' <=> Taken > 0)
    BY <1>4, TakeKeepsSound
  <2>3. sound'.fill = sound.fill - Taken /\ Taken \in 0 .. sound.fill
    BY <1>4, TakeFacts
  <2>4. sound.fill \in Nat /\ dec.n \in Nat
    BY Constants DEF FieldsInv, RingOK, DecoderOK
  <2>5. ~clk.set => sound'.fill = 0 /\ ~InFlight'
    BY <2>2, <2>3, <2>4 DEF StageInv
  <2>6. dec.at = "write" => sound'.fill + dec.n <= Ring
    BY <2>3, <2>4, Constants DEF StageInv
  <2> QED BY <2>1, <2>2, <2>5, <2>6 DEF StageInv
<1>5. CASE AccountHeld \/ Count
  <2>1. UNCHANGED <<dev, sound, dec>> /\ clk'.set = clk.set
    BY <1>5 DEF AccountHeld, Count, FieldsInv, ClockOK
  <2>2. ~InFlight' /\ speaker'.grain = <<>>
    BY <1>5, HeardKeepsSound DEF AccountHeld, Count, Stage
  <2> QED BY <2>1, <2>2 DEF StageInv
<1>6. CASE Joined
  <2>1. dec.at = "off" /\ dec' = dec /\ speaker' = speaker /\ ~clk.set
    BY <1>6 DEF Joined, StageInv
  <2>2. (InFlight' <=> InFlight) /\ sound'.fill = sound.fill
    BY <1>6, Stays, StayingFacts DEF SoundStays
  <2>3. clk'.set = FALSE
    BY <1>6 DEF Joined, FieldsInv, ClockOK
  <2> QED BY <2>1, <2>2, <2>3 DEF StageInv
<1>7. CASE Shutdown
  <2>1. UNCHANGED <<sound, clk, dec>> /\ (InFlight' <=> InFlight) /\ dec.at = "off"
    BY <1>7, Stays, StayingFacts DEF Shutdown
  <2>2. speaker'.at \in {"off", "asleep", "take"} => speaker'.grain = <<>>
    BY <1>7, WakingFacts DEF Shutdown, StageInv
  <2> QED BY <2>1, <2>2 DEF StageInv
<1>8. CASE SeekHolds \/ HoldSound \/ ReleaseSound
  <2>1. UNCHANGED <<dev, sound, clk, speaker>> /\ (InFlight' <=> InFlight) /\ dec.at # "off"
    BY <1>8, Stays, StayingFacts DEF SeekHolds, HoldSound, ReleaseSound
  <2>2. dec' = dec \/ dec'.at = "read"
    BY <1>8 DEF SeekHolds, HoldSound, ReleaseSound, FieldsInv, DecoderOK
  <2>3. dec'.at # "off" /\ (dec'.at = "write" => dec' = dec)
    BY <2>1, <2>2
  <2> QED BY <2>1, <2>3 DEF StageInv
<1>9. CASE Leave \/ Sleep \/ AccountSilence \/ AccountSound \/ Rebase \/ Repay
  <2>1. UNCHANGED <<dev, sound, dec>> /\ clk'.set = clk.set
    BY <1>9 DEF Leave, Sleep, AccountSilence, AccountSound, Rebase, Repay, FieldsInv, ClockOK
  <2>2. (InFlight' <=> InFlight) /\ speaker'.grain = speaker.grain
    BY <1>9, Stays, StayingFacts DEF SoundStays
  <2>3. speaker'.at \in {"off", "asleep", "take"} => speaker.at = "take"
    BY <1>9 DEF Leave, Sleep, AccountSilence, AccountSound, Rebase, Repay, FieldsInv, SpeakerOK
  <2> QED BY <2>1, <2>2, <2>3 DEF StageInv
<1> QED BY <1>1, <1>2, <1>3, <1>4, <1>5, <1>6, <1>7, <1>8, <1>9 DEF SoundNext, Playing, Flush

\* Whatever sets what the sleeper waits for wakes it.
LEMMA NobodyStaysAsleep ==
  ASSUME FieldsInv, NobodyOversleeps, SoundNext
  PROVE  NobodyOversleeps'
<1>1. CASE speaker' = Woken
  BY <1>1, WakingFacts DEF NobodyOversleeps
<1>2. CASE \E at \in Stages : speaker' = Stage(at) /\ (at = "asleep" => ~ok /\ dev # "stopping" /\ UNCHANGED <<ok, dev>>)
  BY <1>2 DEF NobodyOversleeps, Stage
<1>3. CASE speaker' = speaker /\ UNCHANGED ok /\ (dev' = dev \/ dev' = "gone")
  BY <1>3 DEF NobodyOversleeps
<1>4. CASE TakeGrain
  <2>1. speaker' = [at |-> "account", grain |-> GrainTaken, base |-> 0, step |-> 0]
    BY <1>4, TakeFacts
  <2> QED BY <2>1 DEF NobodyOversleeps
<1>5. CASE AccountSilence \/ AccountSound \/ Rebase \/ Repay
  BY <1>5 DEF NobodyOversleeps, AccountSilence, AccountSound, Rebase, Repay, FieldsInv, SpeakerOK
<1>6. CASE OpenSound \/ CloseSound \/ Shutdown \/ Write
  BY <1>1, <1>2, <1>6 DEF OpenSound, CloseSound, Shutdown, Write, Stages
<1>7. CASE Leave \/ Sleep \/ AccountHeld \/ Count
  BY <1>2, <1>7 DEF Leave, Sleep, AccountHeld, Count, Stages
<1>8. CASE Joined \/ DecodeSound \/ SeekSound \/ SeekHolds \/ HoldSound \/ ReleaseSound
  BY <1>3, <1>8 DEF Joined, DecodeSound, SeekSound, SeekHolds, HoldSound, ReleaseSound
<1> QED BY <1>4, <1>5, <1>6, <1>7, <1>8 DEF SoundNext, Playing

-----------------------------------------------------------------------------
LEMMA DebtKept ==
  ASSUME FieldsInv, FieldsInv', StageInv, GrainInv, RingInv, DebtInv, SoundNext
  PROVE  DebtInv'
<1> SUFFICES ASSUME ~trail'.torn
             PROVE  DebtInv'
  BY DEF DebtInv
<1> USE DEF DebtInv
<1>1. clk.debt \in Nat /\ clk.debt < Width
  BY Constants DEF FieldsInv, ClockOK
<1>2. CASE Flush
  <2>1. ~trail.torn /\ ~Updating /\ clk'.debt \in {0, clk.debt} /\ (dec'.at # "off" => clk'.debt = 0)
        /\ speaker'.at \in {speaker.at, "take"}
    BY <1>2, FlushFacts
  <2> QED BY <2>1, Constants DEF Updating
<1>3. CASE DecodeSound
  <2>1. dec.at = "read" /\ speaker' = speaker /\ clk' = Anchored
    BY <1>3 DEF DecodeSound
  <2>2. trail'.torn = trail.torn /\ (InFlight' <=> InFlight) /\ Avail' = Avail
    BY <1>3, Stays, StayingFacts DEF DecodeSound, FieldsInv, TrailOK
  <2>3. clk'.debt = clk.debt /\ clk'.set /\ (clk.set => clk' = clk)
    BY <2>1 DEF Anchored, FieldsInv, ClockOK
  <2> QED BY <2>1, <2>2, <2>3
<1>4. CASE Write
  <2>1. clk' = clk /\ trail'.torn = trail.torn /\ dec.at = "write" /\ clk.set
    BY <1>4 DEF Write, StageInv, FieldsInv, TrailOK
  <2>2. (InFlight' <=> InFlight) /\ Avail' = Avail
    BY <1>4, WriteKeepsSound
  <2>3. /\ speaker'.base = speaker.base /\ speaker'.step = speaker.step
        /\ speaker'.at = IF speaker.at = "asleep" THEN "take" ELSE speaker.at
    BY <1>4, WakingFacts DEF Write
  <2> QED BY <2>1, <2>2, <2>3
<1>5. CASE SeekHolds \/ HoldSound \/ ReleaseSound
  <2>1. UNCHANGED <<clk, speaker>> /\ dec.at # "off" /\ (InFlight' <=> InFlight) /\ Avail' = Avail
    BY <1>5, Stays, StayingFacts DEF SeekHolds, HoldSound, ReleaseSound
  <2>2. trail'.torn = trail.torn
    BY <1>5 DEF SeekHolds, HoldSound, ReleaseSound, FieldsInv, TrailOK
  <2> QED BY <2>1, <2>2
<1>6. CASE Shutdown
  <2>1. UNCHANGED <<clk, dec, trail>> /\ dec.at = "off"
    BY <1>6 DEF Shutdown
  <2>2. /\ speaker'.base = speaker.base /\ speaker'.step = speaker.step
        /\ speaker'.at = IF speaker.at = "asleep" THEN "take" ELSE speaker.at
    BY <1>6, WakingFacts DEF Shutdown
  <2> QED BY <2>1, <2>2
<1>7. CASE Joined
  BY <1>7 DEF Joined, FieldsInv, ClockOK
<1>8. CASE Leave \/ Sleep \/ AccountHeld
  <2>1. UNCHANGED clk /\ trail'.torn = trail.torn /\ speaker'.at \in {"off", "asleep", "take"}
    BY <1>8 DEF Leave, Sleep, AccountHeld, Stage, FieldsInv, TrailOK
  <2> QED BY <2>1
<1>9. CASE Count
  <2>1. clk'.debt = clk.debt /\ trail'.torn = trail.torn /\ speaker'.at = "take"
    BY <1>9 DEF Count, Stage, FieldsInv, TrailOK, ClockOK
  <2> QED BY <2>1
<1>10. CASE TakeGrain
  <2>1. speaker'.at = "account" /\ (InFlight' <=> Avail' > 0)
    BY <1>10, TakeKeepsSound
  <2>2. trail'.torn = trail.torn /\ clk' = clk
    BY <1>10 DEF TakeGrain, FieldsInv, TrailOK
  <2> QED BY <2>1, <2>2
<1>11. CASE AccountSilence
  <2>1. speaker'.at = "count" /\ trail'.torn = trail.torn
    BY <1>11 DEF AccountSilence, FieldsInv, SpeakerOK, TrailOK
  <2>2. (clk.debt + Grain - Avail) % Width \in Nat
    BY <1>1, GrainFacts, Constants
  <2>3. clk'.debt = Lesser((clk.debt + Grain - Avail) % Width, DebtMax)
    BY <1>11 DEF AccountSilence, FieldsInv, ClockOK
  <2>4. clk'.debt <= DebtMax
    BY <2>2, <2>3, Constants DEF Lesser
  <2> QED BY <2>1, <2>4
<1>12. CASE AccountSound
  <2>1. UNCHANGED <<clk, dec, trail>> /\ Avail > 0 /\ speaker.at = "account" /\ Avail = Grain
    BY <1>12, Constants DEF AccountSound
  <2>2. CASE clk.debt = 0
    <3>1. speaker'.at = "count"
      BY <1>12, <2>2 DEF AccountSound, FieldsInv, SpeakerOK
    <3> QED BY <2>1, <3>1
  <2>3. CASE clk.debt # 0
    <3>1. speaker'.at = "rebase" /\ speaker'.base = clk.base /\ speaker'.step = Lesser(clk.debt, Repaid)
      BY <1>12, <2>3 DEF AccountSound, FieldsInv, SpeakerOK
    <3>2. speaker'.step <= clk.debt
      BY <1>1, <3>1, Constants DEF Lesser
    <3>3. ~clk.set => dec.at = "off"
      BY <2>1, <2>3 DEF StageInv
    <3> QED BY <2>1, <3>1, <3>2, <3>3
  <2> QED BY <2>2, <2>3
<1>13. CASE Rebase
  <2>1. speaker.at = "rebase" /\ speaker'.at = "repay" /\ speaker'.step = speaker.step /\ UNCHANGED <<dec, trail>>
    BY <1>13 DEF Rebase, FieldsInv, SpeakerOK
  <2>2. clk'.debt = clk.debt /\ clk'.set = clk.set
    BY <1>13 DEF Rebase, FieldsInv, ClockOK
  <2> QED BY <2>1, <2>2
<1>14. CASE Repay
  <2>1. speaker.at = "repay" /\ speaker'.at = "count" /\ UNCHANGED <<dec, trail>>
    BY <1>14 DEF Repay, FieldsInv, SpeakerOK
  <2>2. clk'.debt = (clk.debt - speaker.step) % Width /\ speaker.step \in Nat
    BY <1>14 DEF Repay, FieldsInv, ClockOK, SpeakerOK
  <2>3. clk'.debt <= DebtMax
    BY <1>1, <2>1, <2>2, Constants
  <2> QED BY <2>1, <2>3
<1> QED BY <1>2, <1>3, <1>4, <1>5, <1>6, <1>7, <1>8, <1>9, <1>10, <1>11, <1>12, <1>13, <1>14
     DEF SoundNext, Playing, Flush

-----------------------------------------------------------------------------
LEMMA NumberFacts ==
  ASSUME FieldsInv
  PROVE  /\ First \in Int /\ Ahead \in Int /\ ToCome \in Int /\ Avail \in Nat
         /\ clk.base \in Int /\ clk.hw \in Nat /\ clk.debt \in Nat /\ trail.forgiven \in Nat /\ trail.carried \in Nat
         /\ trail.holds \in Nat /\ Grain * trail.holds \in Nat /\ speaker.step \in Nat /\ speaker.base \in Int
<1>1. /\ clk.base \in Int /\ clk.hw \in Nat /\ clk.debt \in Nat /\ trail.forgiven \in Nat /\ trail.carried \in Nat
      /\ trail.holds \in Nat /\ speaker.step \in Nat /\ dec.next \in Nat /\ sound.fill \in Nat /\ speaker.base \in Int
  BY Constants DEF FieldsInv, ClockOK, TrailOK, SpeakerOK, DecoderOK, RingOK
<1>2. \A n \in Nat : Grain * n \in Nat
  BY Constants
<1>3. Avail \in Nat
  BY GrainFacts
<1>4. First \in Int /\ Ahead \in Int
  BY <1>1, Constants DEF First, Ahead, Clock
<1>5. ToCome \in Int
  BY <1>1, <1>3, Constants DEF ToCome
<1> QED BY <1>1, <1>2, <1>3, <1>4, <1>5

\* Nothing wraps below the width.
LEMMA WidthFacts == \A x \in Nat : x < Width => x % Width = x
BY Constants

\* A step that leaves the clock and its timeline alone.
LEMMA ClockStays ==
  ASSUME FieldsInv, ClockInv, UNCHANGED clk, First' = First, Avail' = Avail, InFlight' <=> InFlight,
         trail'.torn = trail.torn, trail'.forgiven = trail.forgiven, trail'.carried = trail.carried,
         trail'.holds = trail.holds, speaker'.step = speaker.step, paused' => paused,
         \/ speaker'.at = speaker.at
         \/ {speaker.at, speaker'.at} \subseteq {"off", "asleep", "take"}
  PROVE  ClockInv'
<1>1. Ahead' = Ahead
  BY DEF Ahead, Clock
<1>2. ToCome' = ToCome
  BY DEF ToCome
<1> QED BY <1>1, <1>2 DEF ClockInv

\* The first sound of a timeline anchors the clock.
LEMMA DecodeKeepsClock ==
  ASSUME FieldsInv, FieldsInv', StageInv, DebtInv, ClockInv, DecodeSound
  PROVE  ClockInv'
<1>1. /\ dec.at = "read" /\ speaker' = speaker /\ sound' = sound /\ paused' = paused
      /\ First' = First /\ Avail' = Avail /\ (InFlight' <=> InFlight)
  BY Stays, StayingFacts DEF DecodeSound
<1>2. CASE clk.set
  BY <1>1, <1>2, ClockStays DEF DecodeSound, Anchored
<1>3. CASE ~clk.set
  <2>1. clk' = [clk EXCEPT !.base = dec.next - clk.hw, !.set = TRUE]
        /\ trail' = [trail EXCEPT !.carried = clk.debt, !.forgiven = 0]
    BY <1>3 DEF DecodeSound, Anchored
  <2>2. clk'.base = dec.next - clk.hw /\ clk'.hw = clk.hw /\ clk'.debt = clk.debt
        /\ trail'.carried = clk.debt /\ trail'.forgiven = 0 /\ trail'.holds = trail.holds /\ trail'.torn = trail.torn
    BY <2>1 DEF FieldsInv, ClockOK, TrailOK
  <2>3. sound.fill = 0 /\ ~InFlight /\ dec.next \in Nat
    BY <1>3 DEF StageInv, FieldsInv, DecoderOK
  <2>4. Ahead' = 0
    BY <1>1, <2>2, <2>3, NumberFacts DEF Ahead, Clock, First
  <2>5. ~trail.torn => ToCome' \in {0, Grain}
    <3>1. ~trail.torn => speaker.at \notin {"rebase", "repay"}
      BY <1>1, <1>3 DEF DebtInv
    <3> QED BY <1>1, <2>3, <3>1 DEF ToCome
  <2>6. Grain * trail'.holds \in Nat
    BY <2>2, NumberFacts
  <2> QED BY <1>1, <2>2, <2>3, <2>4, <2>5, <2>6, Constants DEF ClockInv
<1> QED BY <1>2, <1>3

\* A hold may find a grain under way, which is then not counted: a grain for each.
LEMMA HoldKeepsClock ==
  ASSUME FieldsInv, GrainInv, StageInv, ClockInv, SeekHolds \/ HoldSound
  PROVE  ClockInv'
<1>1. /\ UNCHANGED <<clk, speaker>> /\ First' = First /\ Avail' = Avail /\ (InFlight' <=> InFlight)
  BY Stays, StayingFacts DEF SeekHolds, HoldSound
<1>2. /\ trail'.torn = trail.torn /\ trail'.forgiven = trail.forgiven /\ trail'.carried = trail.carried
      /\ trail'.holds = trail.holds \/ trail'.holds = trail.holds + 1
      /\ trail'.holds = trail.holds => paused
  BY NumberFacts DEF SeekHolds, HoldSound, FieldsInv, TrailOK
<1>3. CASE trail'.holds = trail.holds
  BY <1>1, <1>2, <1>3, ClockStays
<1>4. CASE trail'.holds = trail.holds + 1
  <2>1. Ahead' = Ahead /\ ToCome' = ToCome
    BY <1>1, <1>2 DEF Ahead, Clock, ToCome
  <2>2. Grain * trail'.holds = Grain * trail.holds + Grain
    BY <1>4, NumberFacts, Constants
  <2>3. speaker.at = "account" /\ InFlight => ToCome = Avail /\ Avail <= Grain
    BY DEF ToCome, GrainInv
  <2>4. trail'.torn = trail.torn /\ clk' = clk /\ speaker' = speaker
    BY <1>1, <1>2
  <2> QED BY <1>1, <2>1, <2>2, <2>3, <2>4, NumberFacts, Constants DEF ClockInv
<1> QED BY <1>2, <1>3, <1>4

\* Silence is debt: what the device is ahead by is owed, the sound in the grain aside.
LEMMA SilenceKeepsClock ==
  ASSUME FieldsInv, StageInv, GrainInv, DebtInv, ClockInv, AccountSilence
  PROVE  ClockInv'
<1> SUFFICES ASSUME clk'.set, ~trail'.torn
             PROVE  ClockInv'
  BY DEF ClockInv
<1> DEFINE debt == (clk.debt + Grain - Avail) % Width
<1>1. /\ First' = First /\ Avail' = Avail /\ (InFlight' <=> InFlight) /\ speaker.at = "account" /\ Avail < Grain
  BY Stays, StayingFacts DEF AccountSilence
<1>2. speaker'.at = "count"
  BY DEF AccountSilence, FieldsInv, SpeakerOK
<1>3. clk'.base = clk.base /\ clk'.hw = clk.hw /\ clk'.set = clk.set /\ clk'.debt = Lesser(debt, DebtMax)
  BY DEF AccountSilence, FieldsInv, ClockOK
<1>4. /\ trail'.forgiven = trail.forgiven + debt - Lesser(debt, DebtMax) /\ trail'.torn = trail.torn
      /\ trail'.carried = trail.carried /\ trail'.holds = trail.holds
  BY DEF AccountSilence, FieldsInv, TrailOK
<1>5. debt = clk.debt + Grain - Avail /\ Lesser(debt, DebtMax) \in Int
  <2>1. clk.debt <= DebtMax
    BY <1>4 DEF DebtInv
  <2>2. debt = clk.debt + Grain - Avail
    <3>1. clk.debt + Grain - Avail \in Nat /\ clk.debt + Grain - Avail < Width
      BY <1>1, <2>1, NumberFacts, Constants
    <3> QED BY <3>1, WidthFacts
  <2> HIDE DEF debt
  <2> QED BY <1>1, <2>2, NumberFacts, Constants DEF Lesser
<1> HIDE DEF debt
<1>6. Ahead' = Ahead - Grain + Avail
  BY <1>1, <1>3, <1>4, <1>5, NumberFacts, Constants DEF Ahead, Clock
<1>7. ToCome' = Grain
  BY <1>2 DEF ToCome
<1>8. /\ Ahead + ToCome \in -(Grain * trail.holds) .. Grain
      /\ ToCome = IF InFlight THEN Avail ELSE 0
      /\ Avail > 0 /\ ~InFlight => Ahead = 0
  BY <1>1, <1>3, <1>4 DEF ClockInv, ToCome
<1>9. InFlight => Avail > 0
  BY GrainFacts
<1>10. Ahead' + ToCome' \in -(Grain * trail'.holds) .. Grain
  BY <1>1, <1>4, <1>6, <1>7, <1>8, <1>9, NumberFacts, Constants
<1> QED BY <1>2, <1>10 DEF ClockInv

\* A grain of sound: a part of the debt is repaid in two steps.
LEMMA RepayKeepsClock ==
  ASSUME FieldsInv, StageInv, GrainInv, DebtInv, ClockInv, AccountSound \/ Rebase \/ Repay
  PROVE  ClockInv'
<1> SUFFICES ASSUME clk'.set, ~trail'.torn
             PROVE  ClockInv'
  BY DEF ClockInv
<1>1. First' = First /\ Avail' = Avail /\ (InFlight' <=> InFlight) /\ UNCHANGED <<dec, trail>>
  BY Stays, StayingFacts DEF AccountSound, Rebase, Repay
<1>2. clk'.set = clk.set /\ clk'.hw = clk.hw
  BY DEF AccountSound, Rebase, Repay, FieldsInv, ClockOK
<1>3. Ahead + ToCome \in -(Grain * trail.holds) .. Grain
  BY <1>1, <1>2 DEF ClockInv
<1>4. CASE AccountSound
  <2>1. clk' = clk /\ speaker.at = "account" /\ Avail = Grain /\ Ahead' = Ahead
    BY <1>1, <1>4 DEF AccountSound, Ahead, Clock
  <2>2. ToCome' = Grain
    BY <1>4 DEF AccountSound, FieldsInv, SpeakerOK, ToCome
  <2>3. speaker'.at # "account"
    BY <1>4 DEF AccountSound, FieldsInv, SpeakerOK
  <2>4. ToCome = (IF InFlight THEN Avail ELSE 0) /\ (~InFlight => Ahead = 0)
    BY <1>1, <1>2, <2>1, Constants DEF ClockInv, ToCome
  <2>5. Ahead' + ToCome' \in -(Grain * trail'.holds) .. Grain
    BY <1>1, <1>3, <2>1, <2>2, <2>4, NumberFacts, Constants
  <2> QED BY <2>3, <2>5 DEF ClockInv
<1>5. CASE Rebase
  <2>1. speaker.at = "rebase" /\ speaker'.at = "repay" /\ speaker'.step = speaker.step
    BY <1>5 DEF Rebase, FieldsInv, SpeakerOK
  <2>2. clk'.base = clk.base - speaker.step /\ clk'.debt = clk.debt
    BY <1>1, <1>5, <2>1 DEF Rebase, DebtInv, FieldsInv, ClockOK
  <2>3. Ahead' = Ahead - speaker.step
    BY <1>1, <1>2, <2>2, NumberFacts, Constants DEF Ahead, Clock
  <2>4. ToCome = Grain /\ ToCome' = Grain + speaker.step
    BY <2>1 DEF ToCome
  <2>5. Ahead' + ToCome' = Ahead + ToCome
    BY <2>3, <2>4, NumberFacts, Constants
  <2> QED BY <1>1, <1>3, <2>1, <2>5 DEF ClockInv
<1>6. CASE Repay
  <2>1. speaker.at = "repay" /\ speaker'.at = "count"
    BY <1>6 DEF Repay, FieldsInv, SpeakerOK
  <2>2. speaker.step <= clk.debt /\ clk.debt <= DebtMax
    BY <1>1, <2>1 DEF DebtInv
  <2>3. clk'.base = clk.base /\ clk'.debt = (clk.debt - speaker.step) % Width
    BY <1>6 DEF Repay, FieldsInv, ClockOK
  <2>4. clk'.debt = clk.debt - speaker.step
    <3>1. clk.debt - speaker.step \in Nat /\ clk.debt - speaker.step < Width
      BY <2>2, NumberFacts, Constants
    <3> QED BY <2>3, <3>1, WidthFacts
  <2>5. Ahead' = Ahead + speaker.step
    BY <1>1, <1>2, <2>3, <2>4, NumberFacts, Constants DEF Ahead, Clock
  <2>6. ToCome = Grain + speaker.step /\ ToCome' = Grain
    BY <2>1 DEF ToCome
  <2>7. Ahead' + ToCome' = Ahead + ToCome
    BY <2>5, <2>6, NumberFacts, Constants
  <2> QED BY <1>1, <1>3, <2>1, <2>7 DEF ClockInv
<1> QED BY <1>4, <1>5, <1>6

\* The accounting of a grain begins and ends.
LEMMA GrainKeepsClock ==
  ASSUME FieldsInv, FieldsInv', StageInv, RingInv, GrainInv, ClockInv, TakeGrain \/ AccountHeld \/ Count
  PROVE  ClockInv'
<1> SUFFICES ASSUME clk'.set, ~trail'.torn
             PROVE  ClockInv'
  BY DEF ClockInv
<1>1. /\ trail'.torn = trail.torn /\ trail'.forgiven = trail.forgiven
      /\ trail'.carried = trail.carried /\ trail'.holds = trail.holds
  BY DEF TakeGrain, AccountHeld, Count, FieldsInv, TrailOK
<1>2. clk'.base = clk.base /\ clk'.set = clk.set /\ clk'.debt = clk.debt
  BY DEF TakeGrain, AccountHeld, Count, FieldsInv, ClockOK
<1>3. Ahead + ToCome \in -(Grain * trail.holds) .. Grain
  BY <1>1, <1>2 DEF ClockInv
<1>4. CASE TakeGrain
  <2>1. speaker.at = "take" /\ clk' = clk /\ paused' = paused
    BY <1>4 DEF TakeGrain
  <2>2. /\ Avail' = Taken /\ First' = First + Avail' /\ (InFlight' <=> Avail' > 0) /\ speaker'.at = "account"
    BY <1>4, TakeKeepsSound
  <2>3. Taken \in Nat /\ (paused => Taken = 0)
    BY TakeFacts, Constants DEF Taken, FieldsInv, RingOK
  <2>4. Ahead' = Ahead - Avail'
    BY <1>1, <2>1, <2>2, <2>3, NumberFacts DEF Ahead, Clock
  <2>5. ToCome = 0 /\ ToCome' = Avail'
    BY <2>1, <2>2, <2>3 DEF ToCome
  <2>6. Ahead' + ToCome' = Ahead + ToCome
    BY <2>2, <2>3, <2>4, <2>5, NumberFacts
  <2>7. ~(InFlight' /\ paused') /\ ~(Avail' > 0 /\ ~InFlight')
    BY <2>1, <2>2, <2>3
  <2> QED BY <1>1, <1>3, <2>6, <2>7 DEF ClockInv
<1>5. CASE AccountHeld
  <2>1. First' = First /\ speaker.at = "account" /\ paused /\ clk' = clk
    BY <1>5, HeardKeepsSound DEF AccountHeld
  <2>2. speaker'.at = "take"
    BY <1>5 DEF AccountHeld, Stage
  <2>3. Ahead' = Ahead /\ ToCome' = 0
    BY <1>1, <2>1, <2>2 DEF Ahead, Clock, ToCome
  <2>4. ToCome = (IF InFlight THEN Avail ELSE 0) /\ (InFlight => Ahead >= -(Grain * trail.holds))
    BY <1>1, <1>2, <2>1 DEF ClockInv, ToCome
  <2>5. Ahead' + ToCome' \in -(Grain * trail'.holds) .. Grain
    BY <1>1, <1>3, <2>3, <2>4, NumberFacts, Constants
  <2> QED BY <2>2, <2>5 DEF ClockInv
<1>6. CASE Count
  <2>1. First' = First /\ speaker.at = "count"
    BY <1>6, HeardKeepsSound DEF Count
  <2>2. speaker'.at = "take" /\ clk'.hw = clk.hw + Grain
    BY <1>6 DEF Count, Stage, FieldsInv, ClockOK
  <2>3. Ahead' = Ahead + Grain
    BY <1>1, <1>2, <2>1, <2>2, NumberFacts, Constants DEF Ahead, Clock
  <2>4. ToCome = Grain /\ ToCome' = 0
    BY <2>1, <2>2 DEF ToCome
  <2>5. Ahead' + ToCome' = Ahead + ToCome
    BY <2>3, <2>4, NumberFacts, Constants
  <2> QED BY <1>1, <1>3, <2>2, <2>5 DEF ClockInv
<1> QED BY <1>4, <1>5, <1>6

LEMMA ClockErrorKept ==
  ASSUME FieldsInv, FieldsInv', StageInv, StageInv', RingInv, GrainInv, DebtInv, ClockInv, SoundNext
  PROVE  ClockInv'
<1>1. CASE Flush
  BY <1>1, FlushFacts DEF ClockInv
<1>2. CASE Shutdown \/ Joined
  <2>1. dec'.at = "off"
    BY <1>2 DEF Shutdown, Joined, StageInv
  <2> QED BY <2>1 DEF StageInv, ClockInv
<1>3. CASE Write
  <2>1. /\ clk' = clk /\ trail'.torn = trail.torn /\ trail'.forgiven = trail.forgiven
        /\ trail'.carried = trail.carried /\ trail'.holds = trail.holds /\ paused' = paused
    BY <1>3 DEF Write, FieldsInv, TrailOK
  <2>2. First' = First /\ Avail' = Avail /\ (InFlight' <=> InFlight)
    BY <1>3, WriteKeepsSound
  <2>3. /\ speaker'.step = speaker.step
        /\ speaker'.at = IF speaker.at = "asleep" THEN "take" ELSE speaker.at
    BY <1>3, WakingFacts DEF Write
  <2> QED BY <2>1, <2>2, <2>3, ClockStays
<1>4. CASE ReleaseSound \/ Leave \/ Sleep
  <2>1. UNCHANGED <<clk, trail>> /\ (paused' => paused)
    BY <1>4 DEF ReleaseSound, Leave, Sleep
  <2>2. First' = First /\ Avail' = Avail /\ (InFlight' <=> InFlight)
    BY <1>4, Stays, StayingFacts
  <2>3. CASE ReleaseSound
    BY <2>1, <2>2, <2>3, ClockStays DEF ReleaseSound
  <2>4. CASE Leave \/ Sleep
    <3>1. speaker.at = "take" /\ speaker'.at \in {"off", "asleep"}
      BY <2>4 DEF Leave, Sleep, Stage
    <3>2. Ahead' = Ahead /\ ToCome = 0 /\ ToCome' = 0
      BY <2>1, <2>2, <3>1 DEF Ahead, Clock, ToCome
    <3> QED BY <2>1, <3>1, <3>2 DEF ClockInv
  <2> QED BY <1>4, <2>3, <2>4
<1> QED BY <1>1, <1>2, <1>3, <1>4, DecodeKeepsClock, HoldKeepsClock, SilenceKeepsClock, RepayKeepsClock,
     GrainKeepsClock DEF SoundNext, Playing, Flush

-----------------------------------------------------------------------------
LEMMA SoundInitially == ASSUME SoundInit PROVE SoundInv
<1> USE Constants DEF SoundInit
<1>1. speaker.at = "off" /\ speaker.grain = <<>> /\ speaker.base = 0 /\ speaker.step = 0
      /\ DOMAIN speaker = {"at", "grain", "base", "step"}
  BY DEF Stage
<1>2. sound.fill = 0 /\ sound.head = 0 /\ DOMAIN sound = {"pcm", "head", "fill"}
      /\ sound.pcm = [i \in RingSlots |-> NoSound]
  BY DEF Empty
<1>3. ~clk.set /\ clk.debt = 0 /\ clk.base = 0 /\ clk.hw = 0 /\ DOMAIN clk = {"base", "hw", "set", "debt"}
      /\ clk.set \in BOOLEAN
  BY DEF Unset
<1>4. NoSound \in Samples /\ NoSound.pts = -1 /\ NoSound.line = 0
  BY DEF NoSound, Sample, Samples
<1>5. Avail = 0 /\ ~InFlight /\ First = 0
  BY <1>1, <1>2 DEF Avail, InFlight, First
<1>6. FieldsInv
  <2>1. RingOK
    <3>1. [i \in RingSlots |-> NoSound] \in [RingSlots -> Samples]
      BY <1>4
    <3> QED BY <1>2, <3>1 DEF RingOK, RingSlots
  <2>2. DeviceOK /\ DecoderOK
    BY DEF DeviceOK, DecoderOK
  <2>3. ClockOK
    BY <1>3 DEF ClockOK
  <2>4. SpeakerOK
    <3>1. speaker.grain \in Seq(Samples)
      <4>1. <<>> \in Seq(Samples)
        OBVIOUS
      <4> QED BY <1>1, <4>1, Zenon
    <3>2. speaker.at \in Stages /\ speaker.base \in Int /\ speaker.step \in Nat
      BY <1>1 DEF Stages
    <3> QED BY <1>1, <3>1, <3>2 DEF SpeakerOK
  <2>5. TrailOK
    BY <1>4 DEF TrailOK
  <2> QED BY <2>1, <2>2, <2>3, <2>4, <2>5 DEF FieldsInv
<1>7. StageInv /\ NobodyOversleeps
  BY <1>1, <1>2, <1>3, <1>5 DEF StageInv, NobodyOversleeps
<1>8. RingInv
  BY <1>2 DEF RingInv, RingSlots
<1>9. GrainInv
  BY <1>4, <1>5 DEF GrainInv
<1>10. DebtInv /\ ClockInv
  BY <1>1, <1>3, <1>5 DEF DebtInv, ClockInv
<1> QED BY <1>6, <1>7, <1>8, <1>9, <1>10 DEF SoundInv

LEMMA SoundStep == ASSUME Guarded, SoundInv, [SoundNext]_soundVars PROVE SoundInv'
<1>1. CASE SoundNext
  <2>1. FieldsInv /\ StageInv /\ NobodyOversleeps /\ RingInv /\ GrainInv /\ DebtInv /\ ClockInv
    BY DEF SoundInv
  <2>2. FieldsInv'
    BY <1>1, <2>1, FieldsKept
  <2>3. StageInv'
    BY <1>1, <2>1, <2>2, StagesKept
  <2> QED BY <1>1, <2>1, <2>2, <2>3, NobodyStaysAsleep, SoundKept, DebtKept, ClockErrorKept DEF SoundInv
<1>2. CASE UNCHANGED soundVars
  BY <1>2 DEF soundVars, SoundInv, FieldsInv, DeviceOK, RingOK, ClockOK, SpeakerOK, DecoderOK, TrailOK,
     StageInv, NobodyOversleeps, RingInv, GrainInv, DebtInv, ClockInv, First, Ahead, Clock, ToCome, Avail, InFlight
<1> QED BY <1>1, <1>2

\* The output thread and the ring agree, and the decode thread with both, in every reachable
\* state: what is in the ring, what is played, what is owed, how far the clock is ahead.
THEOREM SoundInvariant == Guarded /\ SoundSpec => []SoundInv
<1>1. Guarded /\ SoundInit => Guarded /\ SoundInv
  BY SoundInitially
<1>2. Guarded /\ SoundInv /\ [SoundNext]_soundVars => Guarded' /\ SoundInv'
  BY SoundStep
<1> QED BY <1>1, <1>2, PTL DEF SoundSpec

\* What the device plays of a timeline is whole, and whoever has to be woken is: for every
\* size of the ring, a grain and a packet, any number of flushes, holds and casts.
THEOREM SoundStaysWhole == Guarded /\ SoundSpec => []OutputIsSound
<1>1. ASSUME SoundInv PROVE OutputIsSound
  <2>0. FieldsInv /\ GrainInv /\ RingInv /\ NobodyOversleeps
    BY <1>1 DEF SoundInv
  <2>1. \A i \in 1 .. Avail - 1 : speaker.grain[i + 1] = [speaker.grain[i] EXCEPT !.pts = @ + 1]
    <3> TAKE i \in 1 .. Avail - 1
    <3>1. i \in 1 .. Avail /\ i + 1 \in 1 .. Avail /\ Avail > 0
      BY <2>0, GrainFacts
    <3>2. speaker.grain[1].pts \in Int /\ speaker.grain[1].line \in Nat
      BY <2>0, <3>1, GrainFacts DEF Samples
    <3>3. /\ speaker.grain[i] = Sample(speaker.grain[1].pts + i - 1, speaker.grain[1].line)
          /\ speaker.grain[i + 1] = Sample(speaker.grain[1].pts + (i + 1) - 1, speaker.grain[1].line)
      BY <2>0, <3>1 DEF GrainInv
    <3> QED BY <3>1, <3>2, <3>3 DEF Sample
  <2>2. \A k \in 0 .. sound.fill - 1 : sound.pcm[(sound.head + k) % Ring].line = trail.line
    <3> TAKE k \in 0 .. sound.fill - 1
    <3>1. k \in RingSlots /\ k < sound.fill /\ First + k \in Int /\ trail.line \in Nat
      <4>1. sound.fill \in 0 .. Ring /\ trail.line \in Nat
        BY <2>0 DEF FieldsInv, RingOK, TrailOK
      <4>2. First \in Int
        BY <2>0, NumberFacts
      <4> QED BY <4>1, <4>2, Constants DEF RingSlots
    <3> QED BY <2>0, <3>1, SampleFacts DEF RingInv
  <2> QED BY <2>0, <2>1, <2>2 DEF OutputIsSound, SoundIsWhole, GrainInv
<1> QED BY <1>1, SoundInvariant, PTL

\* The clock that the pictures follow names the sound that is heard, to a grain for what a
\* flush found under way and for each hold.
THEOREM ClockStaysRight == Guarded /\ SoundSpec => []ClockIsHeard
<1>1. ASSUME SoundInv, clk.set, ~Updating, ~trail.torn
      PROVE  Error + trail.carried \in -(Grain * trail.holds) .. Grain
  <2>1. FieldsInv /\ StageInv /\ GrainInv /\ RingInv /\ ClockInv
    BY <1>1 DEF SoundInv
  <2>2. Ahead + ToCome \in -(Grain * trail.holds) .. Grain
    BY <1>1, <2>1 DEF ClockInv
  <2>3. ToCome = IF InFlight THEN Avail ELSE 0
    <3>1. speaker.at \in {"off", "asleep", "take", "account"}
      BY <1>1, <2>1 DEF Updating, FieldsInv, SpeakerOK, Stages
    <3>2. speaker.at # "account" => ~InFlight
      BY <2>1, <3>1 DEF StageInv, InFlight
    <3> QED BY <3>1, <3>2 DEF ToCome
  <2>4. HeardNext = First - (IF InFlight THEN Avail ELSE 0)
    <3>1. CASE InFlight
      <4>1. speaker.grain[1].pts + Avail = First /\ speaker.grain[1].pts \in Int
        BY <2>1, <3>1, GrainFacts DEF GrainInv, Samples
      <4> QED BY <2>1, <3>1, <4>1, NumberFacts DEF HeardNext
    <3>2. CASE ~InFlight /\ sound.fill > 0
      <4>1. 0 \in RingSlots /\ sound.head \in RingSlots /\ (sound.head + 0) % Ring = sound.head
        BY <2>1, Constants DEF FieldsInv, RingOK, RingSlots
      <4>2. sound.pcm[sound.head] = Sample(First + 0, trail.line)
        BY <2>1, <3>2, <4>1 DEF RingInv
      <4>3. sound.pcm[sound.head].pts = First
        BY <2>1, <4>2, SampleFacts, NumberFacts DEF FieldsInv, TrailOK
      <4> QED BY <2>1, <3>2, <4>3, NumberFacts DEF HeardNext
    <3>3. CASE ~InFlight /\ ~(sound.fill > 0)
      <4>1. sound.fill = 0 /\ dec.next \in Nat
        BY <2>1, <3>3, Constants DEF FieldsInv, RingOK, DecoderOK
      <4> QED BY <3>3, <4>1 DEF HeardNext, First
    <3> QED BY <3>1, <3>2, <3>3
  <2>5. Error + trail.carried = Ahead + ToCome
    BY <2>1, <2>3, <2>4, NumberFacts DEF Error, Ahead, Clock
  <2> QED BY <2>2, <2>5
<1>2. SoundInv => ClockIsHeard
  BY <1>1 DEF ClockIsHeard
<1> QED BY <1>2, SoundInvariant, PTL

-----------------------------------------------------------------------------
\* The audio rendition.

LifeStages == {"closed", "open", "probe", "play"}
WorkerStages == {"off", "pick", "fetch", "gone"}
ReaderStages ==
  {"off", "idle", "ensure", "check", "enter", "wait", "took", "missed", "fetch", "give", "tell"}
StopStages == {"none", "raise", "ask", "join", "clear", "next", "reader"}
Reasons == {"none", "seek", "interrupt", "teardown", "close"}
Pieces == [seg : Int, line : Nat]
Slots == [state : {"free", "fetching", "ready"}, piece : Pieces]

\* The types, field by field.
RenditionFields ==
  /\ DOMAIN life = {"at", "init", "stop"}
  /\ life.at \in LifeStages /\ life.init \in BOOLEAN /\ life.stop \in BOOLEAN
  /\ DOMAIN list = {"idx", "init", "abort"}
  /\ list.idx \in Nat /\ list.init \in BOOLEAN /\ list.abort \in BOOLEAN
  /\ slots \in [SlotIds -> Slots]
  /\ DOMAIN apref = {"up", "stop", "at", "slot", "mtx"}
  /\ apref.up \in BOOLEAN /\ apref.stop \in BOOLEAN /\ apref.at \in WorkerStages
  /\ apref.mtx \in {"none", "live", "destroyed"}
  /\ sticky \in BOOLEAN
  /\ DOMAIN rd = {"at", "piece", "tries"}
  /\ rd.at \in ReaderStages /\ rd.piece \in Pieces /\ rd.tries \in Nat
  /\ DOMAIN sp = {"at", "why", "to"}
  /\ sp.at \in StopStages /\ sp.why \in Reasons /\ sp.to \in Nat
  /\ DOMAIN hist = {"line", "from", "faults", "last", "lost"}
  /\ hist.line \in Nat /\ hist.from \in Nat /\ hist.faults \in Nat
  /\ hist.last \in Int /\ hist.lost \in Nat

\* What a stop may meet: which stream it is for, and what it has behind it.
StopInv ==
  /\ sp.at = "none" <=> sp = NoStop
  /\ sp.at # "none" => sp.why # "none"
  /\ sp.why = "seek" => life.at = "open"
  /\ sp.why \in {"interrupt", "teardown"} => life.at = "play"
  /\ sp.why = "close" => rd.at \in {"idle", "off"}
  /\ sp.at = "raise" => sp.why \in {"interrupt", "teardown"}
  /\ sp.at = "reader" => sp.why = "teardown"
  /\ life.at = "closed" => sp = NoStop
  /\ life.at = "probe" => sp.why \in {"none", "close"}

\* Who reads, and when the init segment is still to come.
ReaderInv ==
  /\ life.at \in {"closed", "open"} => rd.at = "off"
  /\ life.at = "play" => ~list.init
  /\ rd.at \notin {"off", "idle", "ensure", "fetch"} => ~list.init

\* The worker is up from its start until the slots it leaves are cleared.
WorkerInv ==
  /\ ~apref.up => apref.at = "off"
  /\ apref.at = "off" => ~apref.up \/ sp.at = "clear"
  /\ sp.at = "join" => apref.up
  /\ sp.at = "clear" => apref.at = "off"
  /\ sp.at = "next" => ~apref.up /\ slots = NoSlots
  /\ life.at = "closed" => ~apref.up /\ slots = NoSlots

\* A slot that is not free holds a segment of this timeline that no other slot holds; one is
\* being fetched only by the worker, or by one that has gone and is not yet cleared away.
SlotInv ==
  /\ \A i \in SlotIds :
       IF slots[i].state = "free" THEN slots[i] = FreeSlot
       ELSE slots[i].piece.seg >= 0 /\ slots[i].piece.line = hist.line
  /\ \A i, j \in SlotIds :
       i # j /\ slots[i].state # "free" => slots[i].piece.seg # slots[j].piece.seg
  /\ apref.at = "fetch" => apref.slot \in SlotIds /\ slots[apref.slot].state = "fetching"
  /\ \A i \in SlotIds :
       slots[i].state = "fetching" =>
         apref.at = "gone" \/ sp.at = "clear" \/ (apref.at = "fetch" /\ i = apref.slot)

\* The index is past what the demuxer has got, and what the reader has in hand is between.
OrderInv ==
  /\ life.at # "closed" => hist.from <= list.idx /\ hist.last < list.idx
  /\ list.init => life.at # "closed" /\ hist.last = None
  /\ rd.at \in {"took", "give"} =>
       rd.piece.line = hist.line
         /\ (rd.piece.seg >= hist.from \/ (rd.at = "give" /\ rd.piece.seg = InitSegment))
  /\ rd.at = "took" => rd.piece.seg = list.idx
  /\ rd.at = "give" => hist.last < rd.piece.seg /\ rd.piece.seg < list.idx

RenditionInv == RenditionFields /\ StopInv /\ ReaderInv /\ WorkerInv /\ SlotInv /\ OrderInv

\* The least of a set of numbers is one of them.
LEMMA LowestFacts ==
  ASSUME NEW S \in SUBSET Nat, S # {}
  PROVE  Lowest(S) \in S /\ \A y \in S : Lowest(S) <= y
<1> DEFINE Less == {ss \in Nat \X Nat : ss[1] < ss[2]}
<1>1. IsWellFoundedOn(Less, Nat)
  BY NatLessThanWellFounded, Zenon DEF OpToRel
<1>2. PICK x \in S : \A y \in S : ~(<<y, x>> \in Less)
  <2> HIDE DEF Less
  <2> QED BY <1>1, WFMin
<1>3. \A y \in S : x <= y
  <2> TAKE y \in S
  <2>1. ~(<<y, x>> \in Less)
    BY <1>2
  <2>2. x \in Nat /\ y \in Nat
    OBVIOUS
  <2> QED BY <2>1, <2>2
<1> QED BY <1>3 DEF Lowest

LEMMA SlotIdFacts == SlotIds \subseteq Nat
BY DEF SlotIds

\* A reader that begins, or begins again.
LEMMA ReaderFacts ==
  ASSUME NEW at
  PROVE  /\ DOMAIN Reader(at) = {"at", "piece", "tries"}
         /\ Reader(at).at = at /\ Reader(at).piece \in Pieces /\ Reader(at).tries = 0
BY DEF Reader, NoPiece, Piece, Pieces, None

LEMMA RetriedFacts ==
  ASSUME rd.tries \in Nat
  PROVE  /\ DOMAIN Retried = {"at", "piece", "tries"}
         /\ Retried.at \in {"ensure", "idle"} /\ Retried.piece \in Pieces /\ Retried.tries \in Nat
BY DEF Retried, Reader, Idle, NoPiece, Piece, Pieces, None

WorkerFields ==
  /\ DOMAIN apref = {"up", "stop", "at", "slot", "mtx"}
  /\ apref.up \in BOOLEAN /\ apref.stop \in BOOLEAN /\ apref.at \in WorkerStages
  /\ apref.mtx \in {"none", "live", "destroyed"}

LEMMA StartsFacts ==
  ASSUME WorkerFields, NEW init, StartsUnless(init)
  PROVE  WorkerFields'
<1>1. CASE apref' = apref
  BY <1>1 DEF WorkerFields
<1>2. CASE apref' = Started
  BY <1>2 DEF WorkerFields, Started, WorkerStages
<1> QED BY <1>1, <1>2 DEF StartsUnless

HistoryFields ==
  /\ DOMAIN hist = {"line", "from", "faults", "last", "lost"}
  /\ hist.line \in Nat /\ hist.from \in Nat /\ hist.faults \in Nat
  /\ hist.last \in Int /\ hist.lost \in Nat

LEMMA NextLineFacts ==
  ASSUME HistoryFields, NEW from \in Nat, hist' = NextLine(from)
  PROVE  HistoryFields' /\ hist'.from = from /\ hist'.last = None
BY DEF HistoryFields, NextLine, None

LEMMA InitFields ==
  ASSUME RenditionInit
  PROVE  RenditionFields
<1>1. /\ DOMAIN rd = {"at", "piece", "tries"}
      /\ rd.at = "off" /\ rd.piece \in Pieces /\ rd.tries \in Nat
  BY ReaderFacts DEF RenditionInit
<1>2. slots \in [SlotIds -> Slots]
  BY DEF RenditionInit, NoSlots, FreeSlot, NoPiece, Piece, None, Slots, Pieces
<1>3. WorkerFields /\ HistoryFields
  BY DEF RenditionInit, WorkerFields, HistoryFields, WorkerStages, None
<1>4. DOMAIN sp = {"at", "why", "to"} /\ sp.at = "none" /\ sp.why = "none" /\ sp.to \in Nat
  BY DEF RenditionInit, NoStop
<1>5. /\ DOMAIN life = {"at", "init", "stop"} /\ life.at = "closed"
      /\ life.init \in BOOLEAN /\ life.stop \in BOOLEAN /\ sticky \in BOOLEAN
      /\ DOMAIN list = {"idx", "init", "abort"} /\ list.idx \in Nat
      /\ list.init \in BOOLEAN /\ list.abort \in BOOLEAN
  BY DEF RenditionInit
<1> QED BY <1>1, <1>2, <1>3, <1>4, <1>5
        DEF RenditionFields, WorkerFields, HistoryFields, LifeStages, ReaderStages, StopStages, Reasons

USE RenditionAssumption
USE DEF RenditionInv, RenditionFields, StopInv, ReaderInv, WorkerInv, SlotInv, OrderInv,
        LifeStages, WorkerStages, ReaderStages, StopStages, Reasons, Pieces, Slots,
        NoStop, NoSlots, FreeSlot, NoPiece, Piece, InitSegment, None

LEMMA OpenRenditionKeeps ==
  ASSUME RenditionInv, OpenRendition
  PROVE  RenditionInv'
<1>1. PICK init \in BOOLEAN :
        /\ life.at = "closed" /\ life' = [life EXCEPT !.at = "open", !.init = init]
        /\ list' = [idx |-> 0, init |-> init, abort |-> FALSE] /\ StartsUnless(init)
        /\ sticky' = FALSE /\ hist' = NextLine(0) /\ UNCHANGED <<slots, rd, sp>>
  BY DEF OpenRendition
<1>2. RenditionFields'
  <2>1. WorkerFields /\ HistoryFields
    BY DEF WorkerFields, HistoryFields
  <2>2. WorkerFields' /\ HistoryFields'
    BY <1>1, <2>1, StartsFacts, NextLineFacts
  <2> QED BY <1>1, <2>2 DEF WorkerFields, HistoryFields
<1>3. StopInv'
  BY <1>1 DEF StartsUnless, Started, NextLine
<1>4. ReaderInv'
  BY <1>1 DEF StartsUnless, Started, NextLine
<1>5. WorkerInv'
  BY <1>1 DEF StartsUnless, Started, NextLine
<1>6. SlotInv'
  BY <1>1 DEF StartsUnless, Started, NextLine
<1>7. OrderInv'
  BY <1>1 DEF StartsUnless, Started, NextLine
<1> QED BY <1>2, <1>3, <1>4, <1>5, <1>6, <1>7

LEMMA ProbeKeeps ==
  ASSUME RenditionInv, Probe
  PROVE  RenditionInv'
BY DEF Probe, Idle, Reader

LEMMA PlayKeeps ==
  ASSUME RenditionInv, Play
  PROVE  RenditionInv'
BY DEF Play

LEMMA PickNotKeeps ==
  ASSUME RenditionInv, PickNot
  PROVE  RenditionInv'
BY DEF PickNot, Told

LEMMA FetchedKeeps ==
  ASSUME RenditionInv, Fetched
  PROVE  RenditionInv'
<1> DEFINE i == apref.slot
<1>1. /\ apref.at = "fetch" /\ UNCHANGED <<life, list, sticky, rd, sp>>
      /\ hist' \in {hist, [hist EXCEPT !.faults = hist.faults + 1]}
      /\ \/ apref' = [apref EXCEPT !.at = "gone"] /\ slots' = slots
         \/ /\ apref' = [apref EXCEPT !.at = "pick"]
            /\ \/ slots' = [slots EXCEPT ![i] = [slots[i] EXCEPT !.state = "ready"]]
               \/ slots' = [slots EXCEPT ![i] = FreeSlot]
  BY DEF Fetched, Outcome, Fails
<1>2. /\ DOMAIN hist' = DOMAIN hist /\ hist'.line = hist.line /\ hist'.from = hist.from
      /\ hist'.faults \in Nat /\ hist'.last = hist.last /\ hist'.lost = hist.lost
  BY <1>1
<1>3. i \in SlotIds /\ slots[i].state = "fetching" /\ slots[i].piece.seg >= 0
      /\ slots[i].piece.line = hist.line /\ slots[i] \in Slots
  BY <1>1
<1>4. CASE slots' = slots
  BY <1>1, <1>2, <1>4
<1>5. CASE slots' = [slots EXCEPT ![i] = [slots[i] EXCEPT !.state = "ready"]] /\ slots' # slots
  <2>1. /\ slots' \in [SlotIds -> Slots] /\ slots'[i].state = "ready" /\ slots'[i].piece = slots[i].piece
        /\ \A k \in SlotIds \ {i} : slots'[k] = slots[k]
    BY <1>3, <1>5
  <2> QED BY <1>1, <1>2, <1>3, <1>5, <2>1
<1>6. CASE slots' = [slots EXCEPT ![i] = FreeSlot] /\ slots' # slots
  <2>1. /\ slots' \in [SlotIds -> Slots] /\ slots'[i] = FreeSlot
        /\ \A k \in SlotIds \ {i} : slots'[k] = slots[k]
    BY <1>3, <1>6
  <2> QED BY <1>1, <1>2, <1>3, <1>6, <2>1
<1> QED BY <1>1, <1>4, <1>5, <1>6

LEMMA ReadKeeps ==
  ASSUME RenditionInv, Read
  PROVE  RenditionInv'
BY DEF Read, Now

LEMMA ExitKeeps ==
  ASSUME RenditionInv, Exit
  PROVE  RenditionInv'
<1>1. rd' = Reader("off") /\ rd.at = "idle" /\ UNCHANGED <<life, list, slots, apref, sticky, sp, hist>>
  BY DEF Exit
<1>2. /\ DOMAIN rd' = {"at", "piece", "tries"}
      /\ rd'.at = "off" /\ rd'.piece \in Pieces /\ rd'.tries = 0
  BY <1>1, ReaderFacts
<1> QED BY <1>1, <1>2

LEMMA EnsureKeeps ==
  ASSUME RenditionInv, Ensure
  PROVE  RenditionInv'
BY DEF Ensure, Now, Idle, Reader

LEMMA CheckKeeps ==
  ASSUME RenditionInv, Check
  PROVE  RenditionInv'
BY DEF Check, Now

LEMMA EnterKeeps ==
  ASSUME RenditionInv, Enter
  PROVE  RenditionInv'
BY DEF Enter, Now

LEMMA TookKeeps ==
  ASSUME RenditionInv, Took
  PROVE  RenditionInv'
BY DEF Took, Now

LEMMA GiveUpKeeps ==
  ASSUME RenditionInv, GiveUp
  PROVE  RenditionInv'
BY DEF GiveUp, Now, Told, Fails

LEMMA SegmentMissedKeeps ==
  ASSUME RenditionInv, SegmentMissed
  PROVE  RenditionInv'
BY DEF SegmentMissed, Now, Retried, Reader, Idle, Told

LEMMA FetchSelfKeeps ==
  ASSUME RenditionInv, FetchSelf
  PROVE  RenditionInv'
<1> DEFINE given(seg) == [rd EXCEPT !.at = "give", !.piece = Piece(seg, hist.line)]
<1>1. /\ rd.at = "fetch" /\ UNCHANGED <<life, slots, sp>>
      /\ rd' \in {Retried, given(IF list.init THEN InitSegment ELSE list.idx)}
      /\ hist' \in {hist, [hist EXCEPT !.faults = hist.faults + 1]}
  BY DEF FetchSelf, Now, Outcome, Fails
<1>2. /\ DOMAIN rd' = {"at", "piece", "tries"} /\ rd'.at \in {"ensure", "idle", "give"}
      /\ rd'.piece \in Pieces /\ rd'.tries \in Nat
      /\ rd'.at = "give" => rd'.piece = Piece(IF list.init THEN InitSegment ELSE list.idx, hist.line)
  <2>1. CASE rd' = Retried
    BY <2>1, RetriedFacts
  <2>2. CASE rd' # Retried
    <3> DEFINE piece == Piece(IF list.init THEN InitSegment ELSE list.idx, hist.line)
    <3>1. piece \in Pieces
      OBVIOUS
    <3>2. rd' = [rd EXCEPT !.at = "give", !.piece = piece]
      BY <1>1, <2>2
    <3> QED BY <3>1, <3>2
  <2> QED BY <2>1, <2>2
<1>3. /\ DOMAIN hist' = DOMAIN hist /\ hist'.line = hist.line /\ hist'.from = hist.from
      /\ hist'.faults \in Nat /\ hist'.last = hist.last /\ hist'.lost = hist.lost
  BY <1>1
<1>4. CASE list.init
  <2>1. /\ sp = NoStop /\ life.at = "probe" /\ hist.last = None
        /\ list' = [list EXCEPT !.init = FALSE] /\ sticky' \in BOOLEAN
        /\ apref' = apref \/ (~apref.up /\ apref' = Started)
    BY <1>4 DEF FetchSelf, StartsUnless
  <2>2. CASE apref' = apref
    BY <1>1, <1>2, <1>3, <1>4, <2>1, <2>2
  <2>3. CASE ~apref.up /\ apref' = Started
    BY <1>1, <1>2, <1>3, <1>4, <2>1, <2>3 DEF Started
  <2> QED BY <2>1, <2>2, <2>3
<1>5. CASE ~list.init
  <2>1. list' = [list EXCEPT !.idx = list.idx + 1] /\ UNCHANGED <<apref, sticky>>
    BY <1>5 DEF FetchSelf
  <2> QED BY <1>1, <1>2, <1>3, <1>5, <2>1
<1> QED BY <1>4, <1>5

LEMMA GiveKeeps ==
  ASSUME RenditionInv, Give
  PROVE  RenditionInv'
BY DEF Give, Reader

LEMMA TellKeeps ==
  ASSUME RenditionInv, Tell
  PROVE  RenditionInv'
BY DEF Tell, Idle, Reader

LEMMA SeekRenditionKeeps ==
  ASSUME RenditionInv, SeekRendition
  PROVE  RenditionInv'
BY DEF SeekRendition, Stop

LEMMA InterruptKeeps ==
  ASSUME RenditionInv, Interrupt
  PROVE  RenditionInv'
BY DEF Interrupt, Stop

LEMMA TeardownKeeps ==
  ASSUME RenditionInv, Teardown
  PROVE  RenditionInv'
<1>1. CASE life.at = "play"
  <2>1. /\ sp = NoStop /\ sp' = [at |-> "raise", why |-> "teardown", to |-> 0]
        /\ life' = [life EXCEPT !.stop = TRUE] /\ UNCHANGED <<list, slots, apref, sticky, rd, hist>>
    BY <1>1 DEF Teardown, Stop
  <2> QED BY <1>1, <2>1
<1>2. CASE life.at # "play"
  BY <1>2 DEF Teardown, Stop
<1> QED BY <1>1, <1>2

LEMMA RaiseKeeps ==
  ASSUME RenditionInv, Raise
  PROVE  RenditionInv'
BY DEF Raise

LEMMA AskKeeps ==
  ASSUME RenditionInv, Ask
  PROVE  RenditionInv'
BY DEF Ask

LEMMA JoinKeeps ==
  ASSUME RenditionInv, Join
  PROVE  RenditionInv'
BY DEF Join

LEMMA ClearKeeps ==
  ASSUME RenditionInv, Clear
  PROVE  RenditionInv'
BY DEF Clear

LEMMA RepositionKeeps ==
  ASSUME RenditionInv, Reposition
  PROVE  RenditionInv'
<1>1. /\ life.at = "open" /\ rd.at = "off" /\ ~apref.up /\ apref.at = "off" /\ slots = NoSlots
      /\ sp' = NoStop /\ sticky' = FALSE /\ sp.to \in Nat
      /\ list' = [idx |-> sp.to, init |-> life.init, abort |-> FALSE]
      /\ StartsUnless(life.init) /\ hist' = NextLine(sp.to) /\ UNCHANGED <<life, slots, rd>>
  BY DEF Reposition
<1>2. RenditionFields'
  <2>1. WorkerFields /\ HistoryFields
    BY DEF WorkerFields, HistoryFields
  <2>2. WorkerFields' /\ HistoryFields'
    BY <1>1, <2>1, StartsFacts, NextLineFacts
  <2> QED BY <1>1, <2>2 DEF WorkerFields, HistoryFields
<1>3. StopInv'
  BY <1>1 DEF StartsUnless, Started, NextLine
<1>4. ReaderInv'
  BY <1>1 DEF StartsUnless, Started, NextLine
<1>5. WorkerInv'
  BY <1>1 DEF StartsUnless, Started, NextLine
<1>6. SlotInv'
  BY <1>1 DEF StartsUnless, Started, NextLine
<1>7. OrderInv'
  BY <1>1 DEF StartsUnless, Started, NextLine
<1> QED BY <1>2, <1>3, <1>4, <1>5, <1>6, <1>7

LEMMA AbortedKeeps ==
  ASSUME RenditionInv, Aborted
  PROVE  RenditionInv'
BY DEF Aborted

LEMMA JoinReaderKeeps ==
  ASSUME RenditionInv, JoinReader
  PROVE  RenditionInv'
<1>1. RenditionFields'
  BY DEF JoinReader
<1>2. StopInv'
  BY DEF JoinReader
<1>3. ReaderInv'
  BY DEF JoinReader
<1>4. WorkerInv'
  BY DEF JoinReader
<1>5. SlotInv'
  BY DEF JoinReader
<1>6. OrderInv'
  BY DEF JoinReader
<1> QED BY <1>1, <1>2, <1>3, <1>4, <1>5, <1>6

LEMMA RenditionClosedKeeps ==
  ASSUME RenditionInv, RenditionClosed
  PROVE  RenditionInv'
BY DEF RenditionClosed, Reader

LEMMA PickKeeps ==
  ASSUME RenditionInv, Pick
  PROVE  RenditionInv'
<1> DEFINE i == Lowest(Free)
           seg == Lowest(WantedSegments)
<1>1. /\ Free # {} /\ Free \in SUBSET Nat /\ Free \subseteq SlotIds
      /\ WantedSegments # {} /\ WantedSegments \in SUBSET Nat
  <2>1. list.idx \in Nat /\ list.idx + PrefetchSlots - 1 \in Int
    OBVIOUS
  <2>2. list.idx .. list.idx + PrefetchSlots - 1 \subseteq Nat
    BY <2>1
  <2>3. Free \subseteq SlotIds /\ SlotIds \subseteq Nat
    <3>1. Free \subseteq SlotIds
      BY DEF Free
    <3> QED BY <3>1, SlotIdFacts
  <2>4. WantedSegments \subseteq Nat
    BY <2>2 DEF WantedSegments
  <2> QED BY <2>3, <2>4 DEF Pick
<1>2. i \in Free /\ seg \in WantedSegments
  BY <1>1, LowestFacts
<1>3. i \in SlotIds /\ slots[i].state = "free" /\ seg \in Nat
  <2>1. seg \in Nat
    BY <1>1, <1>2
  <2> QED BY <1>2, <2>1 DEF Free
<1>4. \A j \in SlotIds : slots[j].state # "free" => slots[j].piece.seg # seg
  BY <1>2 DEF WantedSegments, HasSegment
<1> HIDE DEF i, seg
<1>5. /\ slots' = [slots EXCEPT ![i] = [state |-> "fetching", piece |-> Piece(seg, hist.line)]]
      /\ apref.at = "pick" /\ apref' = [apref EXCEPT !.at = "fetch", !.slot = i]
      /\ UNCHANGED <<life, list, sticky, rd, sp, hist>>
  BY DEF Pick, i, seg
<1>6. /\ slots' \in [SlotIds -> Slots] /\ DOMAIN slots' = SlotIds
      /\ slots'[i] = [state |-> "fetching", piece |-> Piece(seg, hist.line)]
      /\ \A j \in SlotIds \ {i} : slots'[j] = slots[j]
  BY <1>3, <1>5
<1>7. RenditionFields' /\ StopInv' /\ ReaderInv' /\ WorkerInv' /\ OrderInv'
  BY <1>3, <1>5, <1>6
<1>8. SlotInv'
  BY <1>3, <1>4, <1>5, <1>6
<1> QED BY <1>7, <1>8

LEMMA TakeSegmentKeeps ==
  ASSUME RenditionInv, TakeSegment
  PROVE  RenditionInv'
<1> DEFINE i == Lowest(Takable)
<1>1. Takable # {} /\ Takable \in SUBSET Nat
  <2>1. Takable \subseteq SlotIds
    BY DEF Takable
  <2> QED BY <2>1, SlotIdFacts DEF TakeSegment
<1>2. i \in Takable
  BY <1>1, LowestFacts
<1>3. i \in SlotIds /\ slots[i].state = "ready" /\ slots[i].piece.seg = list.idx
  BY <1>2 DEF Takable
<1> HIDE DEF i
<1>4. /\ rd.at = "wait" /\ rd' = [rd EXCEPT !.at = "took", !.piece = slots[i].piece]
      /\ slots' = [slots EXCEPT ![i] = FreeSlot]
      /\ UNCHANGED <<life, list, apref, sticky, sp, hist>>
  BY DEF TakeSegment, i
<1> QED BY <1>3, <1>4

-----------------------------------------------------------------------------
LEMMA RenditionInitInv ==
  ASSUME RenditionInit
  PROVE  RenditionInv
<1>1. /\ DOMAIN rd = {"at", "piece", "tries"}
      /\ rd.at = "off" /\ rd.piece \in Pieces /\ rd.tries = 0
  BY ReaderFacts DEF RenditionInit
<1>2. slots = NoSlots /\ slots \in [SlotIds -> Slots]
  BY DEF RenditionInit
<1>3. /\ life = [at |-> "closed", init |-> FALSE, stop |-> FALSE]
      /\ list = [idx |-> 0, init |-> FALSE, abort |-> FALSE] /\ sticky = FALSE /\ sp = NoStop
      /\ apref = [up |-> FALSE, stop |-> FALSE, at |-> "off", slot |-> 0, mtx |-> "none"]
      /\ hist = [line |-> 0, from |-> 0, faults |-> 0, last |-> None, lost |-> 0]
  BY DEF RenditionInit
<1>4. RenditionFields
  BY InitFields
<1>5. StopInv /\ ReaderInv /\ WorkerInv /\ OrderInv
  BY <1>1, <1>2, <1>3
<1>6. SlotInv
  BY <1>2, <1>3
<1> QED BY <1>4, <1>5, <1>6

LEMMA RenditionStepKeeps ==
  ASSUME RenditionInv, [RenditionNext]_rendVars
  PROVE  RenditionInv'
<1>1. CASE Opening
  BY <1>1, OpenRenditionKeeps, ProbeKeeps, PlayKeeps DEF Opening
<1>2. CASE Working
  BY <1>2, PickNotKeeps, PickKeeps, FetchedKeeps DEF Working
<1>3. CASE Read \/ AudioReading
  BY <1>3, ReadKeeps, ExitKeeps, EnsureKeeps, CheckKeeps, EnterKeeps, TakeSegmentKeeps, TookKeeps,
     GiveUpKeeps, SegmentMissedKeeps, FetchSelfKeeps, GiveKeeps, TellKeeps DEF AudioReading
<1>4. CASE SeekRendition \/ Interrupt \/ Teardown
  BY <1>4, SeekRenditionKeeps, InterruptKeeps, TeardownKeeps
<1>5. CASE RenditionStopping
  BY <1>5, RaiseKeeps, AskKeeps, JoinKeeps, ClearKeeps, RepositionKeeps, AbortedKeeps,
     JoinReaderKeeps, RenditionClosedKeeps DEF RenditionStopping
<1>6. CASE UNCHANGED rendVars
  BY <1>6 DEF rendVars
<1> QED BY <1>1, <1>2, <1>3, <1>4, <1>5, <1>6 DEF RenditionNext

-----------------------------------------------------------------------------
\* Stream, worker, slots, reader and stop agree with each other at every step of hls.c's
\* audio rendition, for every number of segments, slots and tries and whatever fails.
THEOREM RenditionInvariant == RenditionSpec => []RenditionInv
<1>1. RenditionInit => RenditionInv
  BY RenditionInitInv
<1>2. RenditionInv /\ [RenditionNext]_rendVars => RenditionInv'
  BY RenditionStepKeeps
<1> HIDE DEF RenditionInv
<1> QED BY <1>1, <1>2, PTL DEF RenditionSpec

\* What hls_audio_read gives the demuxer is of the timeline of the last open or seek, begins
\* where that went, and never goes back or repeats, whether the worker fetched it or the
\* reader; hls_close leaves no worker, no slot in use and no reader behind.
THEOREM RenditionStaysSound == RenditionSpec => []RenditionIsSound
<1>1. RenditionInv => SoundIsInOrder
  BY DEF SoundIsInOrder
<1>2. RenditionInv => NothingOutlives
  BY DEF NothingOutlives
<1>3. RenditionInv => RenditionIsSound
  BY <1>1, <1>2 DEF RenditionIsSound
<1> HIDE DEF RenditionInv
<1> QED BY <1>3, RenditionInvariant, PTL
=============================================================================
