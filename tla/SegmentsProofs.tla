--------------------------- MODULE SegmentsProofs ---------------------------
(***************************************************************************)
(* For every playlist window, depth, ring and number of faults: what is in *)
(* memory is the segment its place names, an abort raised to stop a thread *)
(* is lifted before anybody fetches again, and the decoder is given the    *)
(* segments in order.                                                      *)
(***************************************************************************)
EXTENDS Segments, FiniteSetTheorems, SequenceTheorems, TLAPS

Units == [seg : Int, read : BOOLEAN]
Items == [seg : Int, gen : Int]
PrefSlot == [index : Int, holds : Int]
Windows == [first : Nat, last : Nat, over : BOOLEAN]
Playlists == [seq : Nat, count : Nat, live : BOOLEAN, url : BOOLEAN, idx : Nat, reset : Nat]
Sources == [init : BOOLEAN, mem : Units, http : Units, streak : Int]
Workers == [at : {"off", "top", "fetch"}, stop : BOOLEAN, job : PrefSlot, ready : SUBSET PrefSlot]
Locals == [at : Stages, why : {"end", "miss"}, next : Nat, item : Items]
Rings == [up : BOOLEAN, stop : BOOLEAN, items : Seq(Items)]

\* The records have their fields.
FieldsInv ==
  /\ kind \in [live : BOOLEAN, fmp4 : BOOLEAN]
  /\ srv \in Windows /\ srv.first <= srv.last
  /\ hls \in Playlists /\ src \in Sources /\ pref \in Workers
  /\ th \in [Threads -> Locals]
  /\ aborted \in BOOLEAN /\ phase \in {"probing", "playing"}
  /\ sr \in Rings /\ seek \in Int

\* Where the reader can be: in hls_read until the fetch thread takes over, and
\* never in it again.
RingStages == {"pop", "next", "none", "item", "halt", "join", "move"}
ProbeStages == {"ensure", "serve", "got", "ended", "unprefetch", "variant", "detach", "detaching"}
StageInv ==
  /\ External => th.reader.at \notin ProbeStages
  /\ ~External => th.reader.at \notin RingStages /\ At("fetcher", "off")
  /\ th.reader.at \in {"detach", "detaching", "start"} => ~kind.fmp4

\* Who may hold what.  The worker has nothing when the list can be replaced, nor
\* when the fetch thread owns the stream.
NothingAhead == pref.at = "off" /\ pref.ready = {}
OwnerInv ==
  /\ src.mem = NoUnit \/ src.http = NoUnit
  /\ External \/ At("reader", "start") => src.mem = NoUnit /\ NothingAhead
  /\ ~External /\ th.reader.at \in {"fetch", "refresh", "parse"} => NoneOpen
  /\ hls.live \/ At("reader", "parse") \/ At("fetcher", "parse") => NothingAhead
  /\ pref.at = "fetch" => pref.job.holds = Holds(pref.job.index)

StreamInv == FieldsInv /\ StageInv /\ OwnerInv /\ NothingIsMisnamed

\* A seek never finds the list lost: it was there when the seek was taken, and
\* the fetch thread has left it there.
SeekInv ==
  /\ ~sr.up => At("fetcher", "off")
  /\ At("reader", "move") => At("fetcher", "off")
  /\ th.reader.at \in {"halt", "join", "move"} => CanSeek \/ At("fetcher", "parse")
  /\ stopper \in {"ring", "close", "closed"} => th.reader.at \in {"off", "failed"}

CalmInv == SeekInv /\ AbortIsLifted

-----------------------------------------------------------------------------

LEMMA InitHolds == Init => StreamInv
<1> SUFFICES ASSUME Init PROVE StreamInv
  OBVIOUS
<1> USE StreamAssumption, SizesAssumption DEF Init
<1>1. srv.last \in Nat /\ srv.first = 0
  BY DEF Least, Kinds
<1>2. FieldsInv
  <2>1. kind \in [live : BOOLEAN, fmp4 : BOOLEAN]
    BY DEF Kinds
  <2>2. srv \in Windows /\ srv.first <= srv.last
    BY <1>1, <2>1 DEF Windows
  <2>3. hls \in Playlists
    BY <1>1, <2>1 DEF Least, Playlists
  <2>4. src \in Sources
    BY <2>1 DEF Units, NoUnit, NoSeg, Sources
  <2>5. pref \in Workers
    BY DEF NoSlot, NoSeg, PrefSlot, Workers
  <2>6. th \in [Threads -> Locals]
    BY DEF Threads, Begins, NoItem, Item, NoSeg, Stages, Items, Locals
  <2>7. sr \in Rings /\ phase \in {"probing", "playing"} /\ seek \in Int
    BY DEF Rings
  <2>8. aborted \in BOOLEAN
    OBVIOUS
  <2> QED BY <2>1, <2>2, <2>3, <2>4, <2>5, <2>6, <2>7, <2>8 DEF FieldsInv
<1>3. StageInv
  BY DEF StageInv, External, At, Begins, RingStages
<1>4. OwnerInv
  BY <1>2 DEF OwnerInv, FieldsInv, External, At, Begins, NothingAhead, Playlists
<1>5. NothingIsMisnamed
  BY DEF NothingIsMisnamed, NoUnit, NoSeg
<1> QED BY <1>2, <1>3, <1>4, <1>5 DEF StreamInv

\* The parts the records are made of.
LEMMA Parts ==
  /\ NoUnit \in Units /\ NoSlot \in PrefSlot /\ NoItem \in Items
  /\ \A s \in Int : Unit(s) \in Units
  /\ \A u \in Units : u.seg \in Int /\ [u EXCEPT !.read = TRUE] \in Units
  /\ \A i, s \in Int : [index |-> i, holds |-> s] \in PrefSlot
  /\ \A slot \in PrefSlot : slot.index \in Int /\ slot.holds \in Int
  /\ \A s, gen \in Int : Item(s, gen) \in Items
<1>1. NoUnit \in Units
  BY DEF NoUnit, Units, NoSeg
<1>2. NoSlot \in PrefSlot
  BY DEF NoSlot, PrefSlot, NoSeg
<1>3. NoItem \in Items /\ \A s, gen \in Int : Item(s, gen) \in Items
  BY DEF NoItem, Item, Items, NoSeg
<1>4. \A s \in Int : Unit(s) \in Units
  BY DEF Unit, Units
<1>5. \A u \in Units : u.seg \in Int /\ [u EXCEPT !.read = TRUE] \in Units
  BY DEF Units
<1>6. \A i, s \in Int : [index |-> i, holds |-> s] \in PrefSlot
  BY DEF PrefSlot
<1>7. \A slot \in PrefSlot : slot.index \in Int /\ slot.holds \in Int
  BY DEF PrefSlot
<1> QED BY <1>1, <1>2, <1>3, <1>4, <1>5, <1>6, <1>7

\* What a parsed list becomes.
LEMMA Lists ==
  ASSUME srv \in Windows, srv.first <= srv.last, hls \in Playlists,
         NEW next \in Int, NEW behind \in 0 .. 1, behind <= srv.first
  PROVE  /\ Listed(behind).count > 0
         /\ Reindexed(next, Listed(behind)) \in Playlists
         /\ Aligned(next, Listed(behind)) \in Playlists
         /\ Reindexed(next, Listed(behind)).count = Listed(behind).count
         /\ Reindexed(next, Listed(behind)).live = Listed(behind).live
<1>1. /\ Listed(behind).seq \in Nat /\ Listed(behind).count \in Nat
      /\ Listed(behind).live \in BOOLEAN /\ Listed(behind).count > 0
  BY DEF Listed, Windows
<1>2. Reindexed(next, Listed(behind)) \in Playlists
  BY <1>1 DEF Reindexed, Least, Playlists
<1>3. Aligned(next, Listed(behind)) \in Playlists
  BY <1>1 DEF Aligned, Least, Most, Playlists
<1> QED BY <1>1, <1>2, <1>3 DEF Reindexed

\* The worker's next segment is a place in the list.
LEMMA AheadIsPlace ==
  ASSUME hls \in Playlists, NEW i \in Ahead
  PROVE  i \in Int /\ Holds(i) \in Int
<1>1. hls.idx \in Int /\ hls.seq \in Int /\ hls.live \in BOOLEAN /\ Depth \in Int
  BY SizesAssumption DEF Playlists
<1>2. \A a, b \in Int : \A j \in a .. b : j \in Int
  OBVIOUS
<1>3. i \in Int
  BY <1>1, <1>2 DEF Ahead
<1> QED BY <1>1, <1>3 DEF Holds

\* A thread begins at a stage, with or without a segment in hand.
LEMMA Locally ==
  /\ \A s \in Stages : Begins(s) \in Locals
  /\ \A l \in Locals, s \in Stages, i \in Items : [l EXCEPT !.at = s, !.item = i] \in Locals
  /\ \A l \in Locals, s \in Stages, n \in Nat : [l EXCEPT !.at = s, !.next = n] \in Locals
<1>1. \A s \in Stages : Begins(s) \in Locals
  BY Parts DEF Begins, Locals
<1>2. ASSUME NEW l \in Locals, NEW s \in Stages, NEW i \in Items
      PROVE  [l EXCEPT !.at = s, !.item = i] \in Locals
  <2>1. [l EXCEPT !.at = s] \in Locals
    BY DEF Locals
  <2> DEFINE m == [l EXCEPT !.at = s]
  <2>2. [m EXCEPT !.item = i] \in Locals
    <3> HIDE DEF m
    <3> QED BY <2>1 DEF Locals, m
  <2> QED BY <2>2
<1>3. ASSUME NEW l \in Locals, NEW s \in Stages, NEW n \in Nat
      PROVE  [l EXCEPT !.at = s, !.next = n] \in Locals
  <2>1. [l EXCEPT !.at = s] \in Locals
    BY DEF Locals
  <2> DEFINE m == [l EXCEPT !.at = s]
  <2>2. [m EXCEPT !.next = n] \in Locals
    <3> HIDE DEF m
    <3> QED BY <2>1 DEF Locals, m
  <2> QED BY <2>2
<1> QED BY <1>1, <1>2, <1>3

\* What the ring's two ends do to it.
LEMMA RingEnds ==
  ASSUME sr \in Rings
  PROVE  /\ \A i \in Items : [sr EXCEPT !.items = Append(sr.items, i)] \in Rings
         /\ sr.items # <<>> => Head(sr.items) \in Items /\ [sr EXCEPT !.items = Tail(sr.items)] \in Rings
         /\ \A up, stop \in BOOLEAN : [up |-> up, stop |-> stop, items |-> <<>>] \in Rings
         /\ [sr EXCEPT !.up = FALSE, !.items = <<>>] \in Rings
<1>1. sr.items \in Seq(Items)
  BY DEF Rings
<1>2. \A i \in Items : Append(sr.items, i) \in Seq(Items)
  BY <1>1
<1>3. sr.items # <<>> => Head(sr.items) \in Items /\ Tail(sr.items) \in Seq(Items)
  BY <1>1
<1>4. <<>> \in Seq(Items)
  OBVIOUS
<1>5. [sr EXCEPT !.up = FALSE, !.items = <<>>] \in Rings
  <2> DEFINE r == [sr EXCEPT !.up = FALSE]
  <2>1. r \in Rings
    BY DEF Rings
  <2>2. [r EXCEPT !.items = <<>>] \in Rings
    <3> HIDE DEF r
    <3> QED BY <1>4, <2>1 DEF Rings
  <2> QED BY <2>2
<1> QED BY <1>1, <1>2, <1>3, <1>4, <1>5 DEF Rings

\* Where a thread is after refresh_live_playlist.
LEMMA Returned ==
  ASSUME th \in [Threads -> Locals], NEW t \in Threads, NEW ok \in BOOLEAN, NEW live \in BOOLEAN,
         AfterRefresh(t, ok, live)
  PROVE  /\ th' \in [Threads -> Locals]
         /\ th'[t].at \in {"fetch", "ended", "wait"}
         /\ th'[t].at = "ended" => InRead(t)
         /\ \A u \in Threads : u # t => th'[u] = th[u]
<1> DEFINE stage == IF th[t].why = "end" /\ ok THEN "fetch"
                    ELSE IF th[t].why = "end" /\ InRead(t) /\ ~live THEN "ended"
                    ELSE "wait"
           l == Begins(stage)
<1>1. stage \in {"fetch", "ended", "wait"} /\ (stage = "ended" => InRead(t))
  OBVIOUS
<1>3. th' = [th EXCEPT ![t] = l]
  BY DEF AfterRefresh
<1> HIDE DEF stage
<1>4. l \in Locals /\ l.at = stage
  BY <1>1, Locally DEF Begins, Stages
<1> HIDE DEF l
<1>5. th' \in [Threads -> Locals] /\ \A u \in Threads : u # t => th'[u] = th[u]
  BY <1>3, <1>4
<1>6. th'[t] = l
  BY <1>3
<1> QED BY <1>1, <1>4, <1>5, <1>6

\* The worker keeps to the places of the list.
LEMMA PrefetchKeeps ==
  ASSUME StreamInv, PrefStops \/ PrefPicks \/ PrefFetched \/ PrefFails
  PROVE  StreamInv'
<1> USE DEF StreamInv, owners, fetching, shown, histories, External, At, Goes
<1>1. CASE PrefStops
  <2> USE <1>1 DEF PrefStops
  <2>1. FieldsInv'
    <3>1. pref' \in Workers
      BY Parts DEF FieldsInv, Workers, Playlists, Holds
    <3> QED BY <3>1 DEF FieldsInv
  <2>2. StageInv'
    BY DEF FieldsInv, StageInv, ProbeStages, RingStages, Locals, Threads
  <2>3. OwnerInv'
    BY DEF FieldsInv, StageInv, ProbeStages, RingStages, OwnerInv, NothingAhead, Holds, NoneOpen, Playlists, Sources, Workers, Locals, Threads
  <2>4. NothingIsMisnamed'
    BY DEF FieldsInv, OwnerInv, NothingIsMisnamed, NothingAhead, Holds, NoUnit, NoSeg, Playlists, Sources, Workers, Locals, Threads
  <2> QED BY <2>1, <2>2, <2>3, <2>4
<1>2. CASE PrefPicks
  <2> USE <1>2 DEF PrefPicks
  <2>1. FieldsInv'
    <3>1. pref' \in Workers
      <4>1. PICK i \in Ahead : pref' = [pref EXCEPT !.at = "fetch", !.job = [index |-> i, holds |-> Holds(i)]]
        OBVIOUS
      <4>2. i \in Int /\ Holds(i) \in Int
        BY <4>1, AheadIsPlace DEF FieldsInv
      <4>3. [index |-> i, holds |-> Holds(i)] \in PrefSlot
        BY <4>2, Parts
      <4> QED BY <4>1, <4>3 DEF FieldsInv, Workers
    <3> QED BY <3>1 DEF FieldsInv
  <2>2. StageInv'
    BY DEF FieldsInv, StageInv, ProbeStages, RingStages, Locals, Threads
  <2>3. OwnerInv'
    <3>1. PICK i \in Ahead : pref' = [pref EXCEPT !.at = "fetch", !.job = [index |-> i, holds |-> Holds(i)]]
      OBVIOUS
    <3>2. /\ pref'.job.index = i /\ pref'.job.holds = Holds(i) /\ pref'.at = "fetch"
          /\ pref'.ready = pref.ready /\ pref.at = "top"
      BY <3>1 DEF FieldsInv, Workers
    <3>3. hls' = hls /\ src' = src /\ th' = th /\ kind' = kind /\ phase' = phase
      OBVIOUS
    <3> HIDE DEF PrefPicks
    <3> QED BY <3>2, <3>3 DEF FieldsInv, OwnerInv, NothingAhead, Holds, NoneOpen
  <2>4. NothingIsMisnamed'
    BY DEF FieldsInv, OwnerInv, NothingIsMisnamed, NothingAhead, Holds, NoUnit, NoSeg, Playlists, Sources, Workers, Locals, Threads
  <2> QED BY <2>1, <2>2, <2>3, <2>4
<1>3. CASE PrefFetched
  <2> USE <1>3 DEF PrefFetched
  <2>1. FieldsInv'
    <3>1. pref' \in Workers
      BY Parts DEF FieldsInv, Workers, Playlists, Holds
    <3> QED BY <3>1 DEF FieldsInv
  <2>2. StageInv'
    BY DEF FieldsInv, StageInv, ProbeStages, RingStages, Locals, Threads
  <2>3. OwnerInv'
    BY DEF FieldsInv, StageInv, ProbeStages, RingStages, OwnerInv, NothingAhead, Holds, NoneOpen, Playlists, Sources, Workers, Locals, Threads
  <2>4. NothingIsMisnamed'
    BY DEF FieldsInv, OwnerInv, NothingIsMisnamed, NothingAhead, Holds, NoUnit, NoSeg, Playlists, Sources, Workers, Locals, Threads
  <2> QED BY <2>1, <2>2, <2>3, <2>4
<1>4. CASE PrefFails
  <2> USE <1>4 DEF PrefFails, FailsOn, Fault
  <2>1. FieldsInv'
    <3>1. pref' \in Workers
      BY Parts DEF FieldsInv, Workers, Playlists, Holds
    <3> QED BY <3>1 DEF FieldsInv
  <2>2. StageInv'
    BY DEF FieldsInv, StageInv, ProbeStages, RingStages, Locals, Threads
  <2>3. OwnerInv'
    BY DEF FieldsInv, StageInv, ProbeStages, RingStages, OwnerInv, NothingAhead, Holds, NoneOpen, Playlists, Sources, Workers, Locals, Threads
  <2>4. NothingIsMisnamed'
    BY DEF FieldsInv, OwnerInv, NothingIsMisnamed, NothingAhead, Holds, NoUnit, NoSeg, Playlists, Sources, Workers, Locals, Threads
  <2> QED BY <2>1, <2>2, <2>3, <2>4
<1> QED BY <1>1, <1>2, <1>3, <1>4

\* Opening a segment.
LEMMA OpeningKeeps ==
  ASSUME StreamInv, ReadOpen \/ ReadCached \/ ReadMisses \/ ReadPastEnd \/ ReadFetched \/ ReadFetchFails
  PROVE  StreamInv'
<1> USE DEF StreamInv, owners, fetching, shown, histories, External, At, Goes
<1>1. CASE ReadOpen
  <2> USE <1>1 DEF ReadOpen, Serving, Begins, NoItem, Item, NoneOpen
  <2>1. FieldsInv'
    <3>1. th' \in [Threads -> Locals]
      BY Parts DEF FieldsInv, Locals, Threads, Stages, Playlists, Sources
    <3> QED BY <3>1 DEF FieldsInv
  <2>2. StageInv'
    BY DEF FieldsInv, StageInv, ProbeStages, RingStages, Locals, Threads
  <2>3. OwnerInv'
    BY DEF FieldsInv, StageInv, ProbeStages, RingStages, OwnerInv, NothingAhead, Holds, NoneOpen, Playlists, Sources, Workers, Locals, Threads
  <2>4. NothingIsMisnamed'
    BY DEF FieldsInv, OwnerInv, NothingIsMisnamed, NothingAhead, Holds, NoUnit, NoSeg, Playlists, Sources, Workers, Locals, Threads
  <2> QED BY <2>1, <2>2, <2>3, <2>4
<1>2. CASE ReadCached
  <2> USE <1>2 DEF ReadCached, Serving, Begins, NoItem, Item, NoneOpen, Unit
  <2>1. FieldsInv'
    <3>1. src' \in Sources
      <4>1. PICK slot \in pref.ready : src' = [src EXCEPT !.mem = Unit(slot.holds)]
        OBVIOUS
      <4>2. Unit(slot.holds) \in Units
        BY Parts DEF FieldsInv, Workers
      <4> QED BY <4>1, <4>2 DEF FieldsInv, Sources
    <3>2. pref' \in Workers
      BY Parts DEF FieldsInv, Workers, Playlists, Holds
    <3>3. th' \in [Threads -> Locals]
      BY Parts DEF FieldsInv, Locals, Threads, Stages, Playlists, Sources
    <3> QED BY <3>1, <3>2, <3>3 DEF FieldsInv
  <2>2. StageInv'
    BY DEF FieldsInv, StageInv, ProbeStages, RingStages, Locals, Threads
  <2>3. OwnerInv'
    BY DEF FieldsInv, StageInv, ProbeStages, RingStages, OwnerInv, NothingAhead, Holds, NoneOpen, Playlists, Sources, Workers, Locals, Threads
  <2>4. NothingIsMisnamed'
    BY DEF FieldsInv, OwnerInv, NothingIsMisnamed, NothingAhead, Holds, NoUnit, NoSeg, Playlists, Sources, Workers, Locals, Threads
  <2> QED BY <2>1, <2>2, <2>3, <2>4
<1>3. CASE ReadMisses
  <2> USE <1>3 DEF ReadMisses, NoneOpen
  <2>1. FieldsInv'
    <3>1. th' \in [Threads -> Locals]
      BY Parts DEF FieldsInv, Locals, Threads, Stages, Playlists, Sources
    <3> QED BY <3>1 DEF FieldsInv
  <2>2. StageInv'
    BY DEF FieldsInv, StageInv, ProbeStages, RingStages, Locals, Threads
  <2>3. OwnerInv'
    BY DEF FieldsInv, StageInv, ProbeStages, RingStages, OwnerInv, NothingAhead, Holds, NoneOpen, Playlists, Sources, Workers, Locals, Threads
  <2>4. NothingIsMisnamed'
    BY DEF FieldsInv, OwnerInv, NothingIsMisnamed, NothingAhead, Holds, NoUnit, NoSeg, Playlists, Sources, Workers, Locals, Threads
  <2> QED BY <2>1, <2>2, <2>3, <2>4
<1>4. CASE ReadPastEnd
  <2> USE <1>4 DEF ReadPastEnd, Refreshes, NoneOpen
  <2>1. FieldsInv'
    <3>1. th' \in [Threads -> Locals]
      BY Parts DEF FieldsInv, Locals, Threads, Stages, Playlists, Sources
    <3> QED BY <3>1 DEF FieldsInv
  <2>2. StageInv'
    BY DEF FieldsInv, StageInv, ProbeStages, RingStages, Locals, Threads
  <2>3. OwnerInv'
    BY DEF FieldsInv, StageInv, ProbeStages, RingStages, OwnerInv, NothingAhead, Holds, NoneOpen, Playlists, Sources, Workers, Locals, Threads
  <2>4. NothingIsMisnamed'
    BY DEF FieldsInv, OwnerInv, NothingIsMisnamed, NothingAhead, Holds, NoUnit, NoSeg, Playlists, Sources, Workers, Locals, Threads
  <2> QED BY <2>1, <2>2, <2>3, <2>4
<1>5. CASE ReadFetched
  <2> USE <1>5 DEF ReadFetched, Serving, Begins, NoItem, Item, InRead, MemOpened, Wanted, Unit, InitSeg
  <2>1. FieldsInv'
    <3>1. src' \in Sources
      <4>1. Wanted \in Int
        BY DEF FieldsInv, Playlists, Sources, Holds
      <4>2. Unit(Wanted) \in Units
        BY <4>1, Parts
      <4>3. \/ src' = [src EXCEPT !.mem = Unit(Wanted), !.streak = 0]
          \/ src' = [src EXCEPT !.http = Unit(Wanted)]
        OBVIOUS
      <4>4. src \in Sources
        BY DEF FieldsInv
      <4>5. CASE src' = [src EXCEPT !.http = Unit(Wanted)]
        <5> HIDE DEF ReadFetched, Wanted, Unit
        <5> QED BY <4>2, <4>4, <4>5 DEF Sources
      <4>6. CASE src' = [src EXCEPT !.mem = Unit(Wanted), !.streak = 0]
        <5> DEFINE s == [src EXCEPT !.mem = Unit(Wanted)]
        <5>1. s \in Sources
          BY <4>2, <4>4 DEF Sources
        <5>2. src' = [s EXCEPT !.streak = 0]
          BY <4>6
        <5> HIDE DEF ReadFetched, s
        <5> QED BY <5>1, <5>2 DEF Sources
      <4> QED BY <4>3, <4>5, <4>6
    <3>2. th' \in [Threads -> Locals]
      BY Parts DEF FieldsInv, Locals, Threads, Stages, Playlists, Sources
    <3> QED BY <3>1, <3>2 DEF FieldsInv
  <2>2. StageInv'
    BY DEF FieldsInv, StageInv, ProbeStages, RingStages, Locals, Threads
  <2>3. OwnerInv'
    BY DEF FieldsInv, StageInv, ProbeStages, RingStages, OwnerInv, NothingAhead, Holds, NoneOpen, Playlists, Sources, Workers, Locals, Threads
  <2>4. NothingIsMisnamed'
    <3>1. Wanted = InitSeg \/ Wanted = Holds(hls.idx)
      OBVIOUS
    <3>2. hls' = hls /\ pref' = pref /\ kind' = kind /\ phase' = phase
      OBVIOUS
    <3>3. \/ src'.mem = Unit(Wanted) /\ src'.http = src.http
          \/ src'.http = Unit(Wanted) /\ src'.mem = src.mem
      BY DEF FieldsInv, Sources
    <3>4. src.mem = NoUnit /\ src.http = NoUnit
      BY DEF OwnerInv, NoneOpen, External
    <3>5. Unit(Wanted).seg = Wanted
      OBVIOUS
    <3> HIDE DEF Wanted, Unit, ReadFetched
    <3> QED BY <3>1, <3>2, <3>3, <3>4, <3>5 DEF NothingIsMisnamed, Holds, NoUnit, NoSeg
  <2> QED BY <2>1, <2>2, <2>3, <2>4
<1>6. CASE ReadFetchFails
  <2> USE <1>6 DEF ReadFetchFails, FailsOn, Fault, InRead, Refreshes, Missed, Wanted, Least, InitSeg
  <2>1. FieldsInv'
    <3>1. src' \in Sources
      BY Parts DEF FieldsInv, Sources, Playlists
    <3>2. th' \in [Threads -> Locals]
      BY Parts DEF FieldsInv, Locals, Threads, Stages, Playlists, Sources
    <3> QED BY <3>1, <3>2 DEF FieldsInv
  <2>2. StageInv'
    BY DEF FieldsInv, StageInv, ProbeStages, RingStages, Locals, Threads
  <2>3. OwnerInv'
    BY DEF FieldsInv, StageInv, ProbeStages, RingStages, OwnerInv, NothingAhead, Holds, NoneOpen, Playlists, Sources, Workers, Locals, Threads
  <2>4. NothingIsMisnamed'
    BY DEF FieldsInv, OwnerInv, NothingIsMisnamed, NothingAhead, Holds, NoUnit, NoSeg, Playlists, Sources, Workers, Locals, Threads
  <2> QED BY <2>1, <2>2, <2>3, <2>4
<1> QED BY <1>1, <1>2, <1>3, <1>4, <1>5, <1>6

\* Reading a segment.
LEMMA ReadingKeeps ==
  ASSUME StreamInv, ReadServes \/ ReadDrainsMem \/ ReadDrainsHttp \/ Unprefetch \/ LoadVariant
  PROVE  StreamInv'
<1> USE DEF StreamInv, owners, fetching, shown, histories, External, At, Goes
<1>1. CASE ReadServes
  <2> USE <1>1 DEF ReadServes, Demuxes, Sees
  <2>1. FieldsInv'
    <3>1. src' \in Sources
      BY Parts DEF FieldsInv, Sources, Playlists
    <3>2. th' \in [Threads -> Locals]
      BY Parts DEF FieldsInv, Locals, Threads, Stages, Playlists, Sources
    <3> QED BY <3>1, <3>2 DEF FieldsInv
  <2>2. StageInv'
    BY DEF FieldsInv, StageInv, ProbeStages, RingStages, Locals, Threads
  <2>3. OwnerInv'
    BY DEF FieldsInv, StageInv, ProbeStages, RingStages, OwnerInv, NothingAhead, Holds, NoneOpen, Playlists, Sources, Workers, Locals, Threads
  <2>4. NothingIsMisnamed'
    BY DEF FieldsInv, OwnerInv, NothingIsMisnamed, NothingAhead, Holds, NoUnit, NoSeg, Playlists, Sources, Workers, Locals, Threads
  <2> QED BY <2>1, <2>2, <2>3, <2>4
<1>2. CASE ReadDrainsMem
  <2> USE <1>2 DEF ReadDrainsMem, Advanced, InitSeg
  <2>1. FieldsInv'
    <3>1. hls' \in Playlists
      BY Parts DEF FieldsInv, Playlists, Windows
    <3>2. src' \in Sources
      BY Parts DEF FieldsInv, Sources, Playlists
    <3>3. th' \in [Threads -> Locals]
      BY Parts DEF FieldsInv, Locals, Threads, Stages, Playlists, Sources
    <3> QED BY <3>1, <3>2, <3>3 DEF FieldsInv
  <2>2. StageInv'
    BY DEF FieldsInv, StageInv, ProbeStages, RingStages, Locals, Threads
  <2>3. OwnerInv'
    BY DEF FieldsInv, StageInv, ProbeStages, RingStages, OwnerInv, NothingAhead, Holds, NoneOpen, Playlists, Sources, Workers, Locals, Threads
  <2>4. NothingIsMisnamed'
    BY DEF FieldsInv, OwnerInv, NothingIsMisnamed, NothingAhead, Holds, NoUnit, NoSeg, Playlists, Sources, Workers, Locals, Threads
  <2> QED BY <2>1, <2>2, <2>3, <2>4
<1>3. CASE ReadDrainsHttp
  <2> USE <1>3 DEF ReadDrainsHttp, FailsOn, Fault, Advanced, InitSeg
  <2>1. FieldsInv'
    <3>1. hls' \in Playlists
      BY Parts DEF FieldsInv, Playlists, Windows
    <3>2. src' \in Sources
      BY Parts DEF FieldsInv, Sources, Playlists
    <3>3. th' \in [Threads -> Locals]
      BY Parts DEF FieldsInv, Locals, Threads, Stages, Playlists, Sources
    <3> QED BY <3>1, <3>2, <3>3 DEF FieldsInv
  <2>2. StageInv'
    BY DEF FieldsInv, StageInv, ProbeStages, RingStages, Locals, Threads
  <2>3. OwnerInv'
    BY DEF FieldsInv, StageInv, ProbeStages, RingStages, OwnerInv, NothingAhead, Holds, NoneOpen, Playlists, Sources, Workers, Locals, Threads
  <2>4. NothingIsMisnamed'
    BY DEF FieldsInv, OwnerInv, NothingIsMisnamed, NothingAhead, Holds, NoUnit, NoSeg, Playlists, Sources, Workers, Locals, Threads
  <2> QED BY <2>1, <2>2, <2>3, <2>4
<1>4. CASE Unprefetch
  <2> USE <1>4 DEF Unprefetch, PrefAsked, PrefAborts
  <2>1. FieldsInv'
    <3>1. pref' \in Workers
      BY Parts DEF FieldsInv, Workers, Playlists, Holds
    <3>2. aborted' \in BOOLEAN
      BY Parts DEF FieldsInv
    <3>3. th' \in [Threads -> Locals]
      BY Parts DEF FieldsInv, Locals, Threads, Stages, Playlists, Sources
    <3> QED BY <3>1, <3>2, <3>3 DEF FieldsInv
  <2>2. StageInv'
    BY DEF FieldsInv, StageInv, ProbeStages, RingStages, Locals, Threads
  <2>3. OwnerInv'
    BY DEF FieldsInv, StageInv, ProbeStages, RingStages, OwnerInv, NothingAhead, Holds, NoneOpen, Playlists, Sources, Workers, Locals, Threads
  <2>4. NothingIsMisnamed'
    BY DEF FieldsInv, OwnerInv, NothingIsMisnamed, NothingAhead, Holds, NoUnit, NoSeg, Playlists, Sources, Workers, Locals, Threads
  <2> QED BY <2>1, <2>2, <2>3, <2>4
<1>5. CASE LoadVariant
  <2> USE <1>5 DEF LoadVariant, FailsOn, Fault, PrefCleared, Emptied, Lifted
  <2>1. FieldsInv'
    <3>1. hls' \in Playlists
      <4>1. 0 <= srv.first /\ Holds(hls.idx) \in Int
        BY DEF FieldsInv, Windows, Playlists, Holds
      <4>2. Aligned(Holds(hls.idx), Listed(0)) \in Playlists
        BY <4>1, Lists DEF FieldsInv
      <4>3. Emptied(TRUE, FALSE) \in Playlists
        BY DEF FieldsInv, Playlists
      <4> QED BY <4>2, <4>3 DEF FieldsInv
    <3>2. src' \in Sources
      BY Parts DEF FieldsInv, Sources, Playlists
    <3>3. pref' \in Workers
      BY Parts DEF FieldsInv, Workers, Playlists, Holds
    <3>4. aborted' \in BOOLEAN
      BY Parts DEF FieldsInv
    <3>5. th' \in [Threads -> Locals]
      BY Parts DEF FieldsInv, Locals, Threads, Stages, Playlists, Sources
    <3> QED BY <3>1, <3>2, <3>3, <3>4, <3>5 DEF FieldsInv
  <2>2. StageInv'
    BY DEF FieldsInv, StageInv, ProbeStages, RingStages, Locals, Threads
  <2>3. OwnerInv'
    BY DEF FieldsInv, StageInv, ProbeStages, RingStages, OwnerInv, NothingAhead, Holds, NoneOpen, Playlists, Sources, Workers, Locals, Threads
  <2>4. NothingIsMisnamed'
    BY DEF FieldsInv, OwnerInv, NothingIsMisnamed, NothingAhead, Holds, NoUnit, NoSeg, Playlists, Sources, Workers, Locals, Threads
  <2> QED BY <2>1, <2>2, <2>3, <2>4
<1> QED BY <1>1, <1>2, <1>3, <1>4, <1>5

\* The server's window moves on.
LEMMA PublishKeeps ==
  ASSUME StreamInv, Publish
  PROVE  StreamInv'
<1> USE DEF StreamInv, owners, fetching, shown, histories, External, At, Goes
<1>1. CASE Publish
  <2> USE <1>1 DEF Publish, Most
  <2>1. FieldsInv'
    <3>1. srv' \in Windows /\ srv'.first <= srv'.last
      <4>1. Window \in Nat /\ Window >= 1
        BY StreamAssumption
      <4>2. CASE srv.last = Last
        BY <4>2 DEF FieldsInv, Windows
      <4>3. CASE srv.last # Last
        <5> DEFINE f == IF srv.first > srv.last + 2 - Window THEN srv.first ELSE srv.last + 2 - Window
        <5>1. f \in Nat /\ f <= srv.last + 1 /\ srv.last + 1 \in Nat
          BY <4>1 DEF FieldsInv, Windows
        <5>2. srv' = [first |-> f, last |-> srv.last + 1, over |-> srv.over]
          BY <4>3 DEF FieldsInv, Windows
        <5>3. srv.over \in BOOLEAN
          BY DEF FieldsInv, Windows
        <5> HIDE DEF f, Publish
        <5> QED BY <5>1, <5>2, <5>3 DEF Windows
      <4> QED BY <4>2, <4>3
    <3> QED BY <3>1 DEF FieldsInv
  <2>2. StageInv'
    BY DEF FieldsInv, StageInv, ProbeStages, RingStages, Locals, Threads
  <2>3. OwnerInv'
    BY DEF FieldsInv, StageInv, ProbeStages, RingStages, OwnerInv, NothingAhead, Holds, NoneOpen, Playlists, Sources, Workers, Locals, Threads
  <2>4. NothingIsMisnamed'
    BY DEF FieldsInv, OwnerInv, NothingIsMisnamed, NothingAhead, Holds, NoUnit, NoSeg, Playlists, Sources, Workers, Locals, Threads
  <2> QED BY <2>1, <2>2, <2>3, <2>4
<1> QED BY <1>1

\* A pause ends.
LEMMA WaitsKeep ==
  ASSUME StreamInv, NEW t \in Threads, WaitOver(t) \/ GivesUp(t)
  PROVE  StreamInv'
<1> USE DEF StreamInv, owners, fetching, shown, histories, External, At, Goes
<1>1. CASE WaitOver(t)
  <2> USE <1>1 DEF WaitOver, InRead
  <2>1. FieldsInv'
    <3>1. th' \in [Threads -> Locals]
      BY Parts DEF FieldsInv, Locals, Threads, Stages, Playlists, Sources
    <3> QED BY <3>1 DEF FieldsInv
  <2>2. StageInv'
    BY DEF FieldsInv, StageInv, ProbeStages, RingStages, Locals, Threads
  <2>3. OwnerInv'
    BY DEF FieldsInv, StageInv, ProbeStages, RingStages, OwnerInv, NothingAhead, Holds, NoneOpen, Playlists, Sources, Workers, Locals, Threads
  <2>4. NothingIsMisnamed'
    BY DEF FieldsInv, OwnerInv, NothingIsMisnamed, NothingAhead, Holds, NoUnit, NoSeg, Playlists, Sources, Workers, Locals, Threads
  <2> QED BY <2>1, <2>2, <2>3, <2>4
<1>2. CASE GivesUp(t)
  <2> USE <1>2 DEF GivesUp, InRead
  <2>1. FieldsInv'
    <3>1. th' \in [Threads -> Locals]
      BY Parts DEF FieldsInv, Locals, Threads, Stages, Playlists, Sources
    <3> QED BY <3>1 DEF FieldsInv
  <2>2. StageInv'
    BY DEF FieldsInv, StageInv, ProbeStages, RingStages, Locals, Threads
  <2>3. OwnerInv'
    BY DEF FieldsInv, StageInv, ProbeStages, RingStages, OwnerInv, NothingAhead, Holds, NoneOpen, Playlists, Sources, Workers, Locals, Threads
  <2>4. NothingIsMisnamed'
    BY DEF FieldsInv, OwnerInv, NothingIsMisnamed, NothingAhead, Holds, NoUnit, NoSeg, Playlists, Sources, Workers, Locals, Threads
  <2> QED BY <2>1, <2>2, <2>3, <2>4
<1> QED BY <1>1, <1>2

\* The demuxer probes, and the fetch thread takes over.
LEMMA ProbingKeeps ==
  ASSUME StreamInv, ProbeReads \/ ProbeFails \/ Probed \/ Detached \/ StartsReadAhead
  PROVE  StreamInv'
<1> USE DEF StreamInv, owners, fetching, shown, histories, External, At, Goes
<1>1. CASE ProbeReads
  <2> USE <1>1 DEF ProbeReads
  <2>1. FieldsInv'
    <3>1. th' \in [Threads -> Locals]
      BY Parts DEF FieldsInv, Locals, Threads, Stages, Playlists, Sources
    <3> QED BY <3>1 DEF FieldsInv
  <2>2. StageInv'
    BY DEF FieldsInv, StageInv, ProbeStages, RingStages, Locals, Threads
  <2>3. OwnerInv'
    BY DEF FieldsInv, StageInv, ProbeStages, RingStages, OwnerInv, NothingAhead, Holds, NoneOpen, Playlists, Sources, Workers, Locals, Threads
  <2>4. NothingIsMisnamed'
    BY DEF FieldsInv, OwnerInv, NothingIsMisnamed, NothingAhead, Holds, NoUnit, NoSeg, Playlists, Sources, Workers, Locals, Threads
  <2> QED BY <2>1, <2>2, <2>3, <2>4
<1>2. CASE ProbeFails
  <2> USE <1>2 DEF ProbeFails
  <2>1. FieldsInv'
    <3>1. th' \in [Threads -> Locals]
      BY Parts DEF FieldsInv, Locals, Threads, Stages, Playlists, Sources
    <3> QED BY <3>1 DEF FieldsInv
  <2>2. StageInv'
    BY DEF FieldsInv, StageInv, ProbeStages, RingStages, Locals, Threads
  <2>3. OwnerInv'
    BY DEF FieldsInv, StageInv, ProbeStages, RingStages, OwnerInv, NothingAhead, Holds, NoneOpen, Playlists, Sources, Workers, Locals, Threads
  <2>4. NothingIsMisnamed'
    BY DEF FieldsInv, OwnerInv, NothingIsMisnamed, NothingAhead, Holds, NoUnit, NoSeg, Playlists, Sources, Workers, Locals, Threads
  <2> QED BY <2>1, <2>2, <2>3, <2>4
<1>3. CASE Probed
  <2> USE <1>3 DEF Probed
  <2>1. FieldsInv'
    <3>1. th' \in [Threads -> Locals]
      BY Parts DEF FieldsInv, Locals, Threads, Stages, Playlists, Sources
    <3>2. phase' \in {"probing", "playing"}
      BY Parts DEF FieldsInv
    <3> QED BY <3>1, <3>2 DEF FieldsInv
  <2>2. StageInv'
    BY DEF FieldsInv, StageInv, ProbeStages, RingStages, Locals, Threads
  <2>3. OwnerInv'
    BY DEF FieldsInv, StageInv, ProbeStages, RingStages, OwnerInv, NothingAhead, Holds, NoneOpen, Playlists, Sources, Workers, Locals, Threads
  <2>4. NothingIsMisnamed'
    BY DEF FieldsInv, OwnerInv, NothingIsMisnamed, NothingAhead, Holds, NoUnit, NoSeg, Playlists, Sources, Workers, Locals, Threads
  <2> QED BY <2>1, <2>2, <2>3, <2>4
<1>4. CASE Detached
  <2> USE <1>4 DEF Detached, PrefCleared, Lifted
  <2>1. FieldsInv'
    <3>1. src' \in Sources
      BY Parts DEF FieldsInv, Sources, Playlists
    <3>2. pref' \in Workers
      BY Parts DEF FieldsInv, Workers, Playlists, Holds
    <3>3. aborted' \in BOOLEAN
      BY Parts DEF FieldsInv
    <3>4. th' \in [Threads -> Locals]
      BY Parts DEF FieldsInv, Locals, Threads, Stages, Playlists, Sources
    <3> QED BY <3>1, <3>2, <3>3, <3>4 DEF FieldsInv
  <2>2. StageInv'
    BY DEF FieldsInv, StageInv, ProbeStages, RingStages, Locals, Threads
  <2>3. OwnerInv'
    BY DEF FieldsInv, StageInv, ProbeStages, RingStages, OwnerInv, NothingAhead, Holds, NoneOpen, Playlists, Sources, Workers, Locals, Threads
  <2>4. NothingIsMisnamed'
    BY DEF FieldsInv, OwnerInv, NothingIsMisnamed, NothingAhead, Holds, NoUnit, NoSeg, Playlists, Sources, Workers, Locals, Threads
  <2> QED BY <2>1, <2>2, <2>3, <2>4
<1>5. CASE StartsReadAhead
  <2> USE <1>5 DEF StartsReadAhead, Begins, NoItem, Item
  <2>1. FieldsInv'
    <3>1. th' \in [Threads -> Locals]
      <4>1. Begins("loop") \in Locals /\ Begins("next") \in Locals /\ Begins("off") \in Locals
        BY Locally DEF Stages
      <4>2. \/ th' = [th EXCEPT !.reader = Begins("loop"), !.fetcher = Begins("next")]
            \/ th' = [th EXCEPT !.reader = Begins("loop"), !.fetcher = Begins("off")]
        OBVIOUS
      <4> HIDE DEF Begins, StartsReadAhead
      <4> QED BY <4>1, <4>2 DEF FieldsInv, Threads
    <3>2. sr' \in Rings
      <4>1. PICK up \in BOOLEAN : sr' = [up |-> up, stop |-> FALSE, items |-> <<>>]
        OBVIOUS
      <4> QED BY <4>1, RingEnds DEF FieldsInv
    <3>3. phase' \in {"probing", "playing"}
      BY Parts DEF FieldsInv
    <3> QED BY <3>1, <3>2, <3>3 DEF FieldsInv
  <2>2. StageInv'
    <3>1. th'.reader.at = "loop"
      <4>1. \/ th' = [th EXCEPT !.reader = Begins("loop"), !.fetcher = Begins("next")]
            \/ th' = [th EXCEPT !.reader = Begins("loop"), !.fetcher = Begins("off")]
        OBVIOUS
      <4>2. th'.reader = Begins("loop")
        <5>1. th \in [Threads -> Locals]
          BY DEF FieldsInv
        <5> HIDE DEF Begins, StartsReadAhead
        <5>2. CASE th' = [th EXCEPT !.reader = Begins("loop"), !.fetcher = Begins("next")]
          BY <5>1, <5>2 DEF Threads
        <5>3. CASE th' = [th EXCEPT !.reader = Begins("loop"), !.fetcher = Begins("off")]
          BY <5>1, <5>3 DEF Threads
        <5> QED BY <4>1, <5>2, <5>3
      <4> HIDE DEF StartsReadAhead
      <4> QED BY <4>2
    <3>2. phase' = "playing" /\ kind' = kind /\ ~kind.fmp4
      BY DEF StageInv, FieldsInv
    <3> HIDE DEF StartsReadAhead
    <3> QED BY <3>1, <3>2 DEF StageInv, ProbeStages, RingStages
  <2>3. OwnerInv'
    BY DEF FieldsInv, StageInv, ProbeStages, RingStages, OwnerInv, NothingAhead, Holds, NoneOpen, Playlists, Sources, Workers, Locals, Threads
  <2>4. NothingIsMisnamed'
    BY DEF FieldsInv, OwnerInv, NothingIsMisnamed, NothingAhead, Holds, NoUnit, NoSeg, Playlists, Sources, Workers, Locals, Threads
  <2> QED BY <2>1, <2>2, <2>3, <2>4
<1> QED BY <1>1, <1>2, <1>3, <1>4, <1>5

\* Segments go through the ring.
LEMMA RingKeeps ==
  ASSUME StreamInv, FetcherPushes \/ FetcherGoesOn \/ FetcherStops \/ LoopPops \/ Pops \/ PopsNothing \/ Decodes \/ NothingToDecode
  PROVE  StreamInv'
<1> USE DEF StreamInv, owners, fetching, shown, histories, External, At, Goes
<1>1. CASE FetcherPushes
  <2> USE <1>1 DEF FetcherPushes, Begins, NoItem, Item
  <2>1. FieldsInv'
    <3>1. th' \in [Threads -> Locals]
      <4>1. Begins("next") \in Locals
        BY Locally DEF Stages
      <4>2. th' = [th EXCEPT !.fetcher = Begins("next")]
        OBVIOUS
      <4> QED BY <4>1, <4>2 DEF FieldsInv, Threads
    <3>2. sr' \in Rings
      <4>1. sr \in Rings /\ th.fetcher.item \in Items
        BY DEF FieldsInv, Locals, Threads
      <4> HIDE DEF Item
      <4> QED BY <4>1, RingEnds
    <3> QED BY <3>1, <3>2 DEF FieldsInv
  <2>2. StageInv'
    BY DEF FieldsInv, StageInv, ProbeStages, RingStages, Locals, Threads
  <2>3. OwnerInv'
    BY DEF FieldsInv, StageInv, ProbeStages, RingStages, OwnerInv, NothingAhead, Holds, NoneOpen, Playlists, Sources, Workers, Locals, Threads
  <2>4. NothingIsMisnamed'
    BY DEF FieldsInv, OwnerInv, NothingIsMisnamed, NothingAhead, Holds, NoUnit, NoSeg, Playlists, Sources, Workers, Locals, Threads
  <2> QED BY <2>1, <2>2, <2>3, <2>4
<1>2. CASE FetcherGoesOn
  <2> USE <1>2 DEF FetcherGoesOn, Begins, NoItem, Item
  <2>1. FieldsInv'
    <3>1. th' \in [Threads -> Locals]
      BY Parts DEF FieldsInv, Locals, Threads, Stages, Playlists, Sources
    <3> QED BY <3>1 DEF FieldsInv
  <2>2. StageInv'
    BY DEF FieldsInv, StageInv, ProbeStages, RingStages, Locals, Threads
  <2>3. OwnerInv'
    BY DEF FieldsInv, StageInv, ProbeStages, RingStages, OwnerInv, NothingAhead, Holds, NoneOpen, Playlists, Sources, Workers, Locals, Threads
  <2>4. NothingIsMisnamed'
    BY DEF FieldsInv, OwnerInv, NothingIsMisnamed, NothingAhead, Holds, NoUnit, NoSeg, Playlists, Sources, Workers, Locals, Threads
  <2> QED BY <2>1, <2>2, <2>3, <2>4
<1>3. CASE FetcherStops
  <2> USE <1>3 DEF FetcherStops, Begins, NoItem, Item
  <2>1. FieldsInv'
    <3>1. th' \in [Threads -> Locals]
      BY Parts DEF FieldsInv, Locals, Threads, Stages, Playlists, Sources
    <3> QED BY <3>1 DEF FieldsInv
  <2>2. StageInv'
    BY DEF FieldsInv, StageInv, ProbeStages, RingStages, Locals, Threads
  <2>3. OwnerInv'
    BY DEF FieldsInv, StageInv, ProbeStages, RingStages, OwnerInv, NothingAhead, Holds, NoneOpen, Playlists, Sources, Workers, Locals, Threads
  <2>4. NothingIsMisnamed'
    BY DEF FieldsInv, OwnerInv, NothingIsMisnamed, NothingAhead, Holds, NoUnit, NoSeg, Playlists, Sources, Workers, Locals, Threads
  <2> QED BY <2>1, <2>2, <2>3, <2>4
<1>4. CASE LoopPops
  <2> USE <1>4 DEF LoopPops, Begins, NoItem, Item, Looping
  <2>1. FieldsInv'
    <3>1. th' \in [Threads -> Locals]
      BY Parts DEF FieldsInv, Locals, Threads, Stages, Playlists, Sources
    <3> QED BY <3>1 DEF FieldsInv
  <2>2. StageInv'
    BY DEF FieldsInv, StageInv, ProbeStages, RingStages, Locals, Threads
  <2>3. OwnerInv'
    BY DEF FieldsInv, StageInv, ProbeStages, RingStages, OwnerInv, NothingAhead, Holds, NoneOpen, Playlists, Sources, Workers, Locals, Threads
  <2>4. NothingIsMisnamed'
    BY DEF FieldsInv, OwnerInv, NothingIsMisnamed, NothingAhead, Holds, NoUnit, NoSeg, Playlists, Sources, Workers, Locals, Threads
  <2> QED BY <2>1, <2>2, <2>3, <2>4
<1>5. CASE Pops
  <2> USE <1>5 DEF Pops
  <2>1. FieldsInv'
    <3>1. th' \in [Threads -> Locals]
      <4>1. th.reader \in Locals /\ Head(sr.items) \in Items
        BY RingEnds DEF FieldsInv, Threads
      <4>2. [th.reader EXCEPT !.at = "item", !.item = Head(sr.items)] \in Locals
        BY <4>1, Locally DEF Stages
      <4>3. th' = [th EXCEPT !.reader = [th.reader EXCEPT !.at = "item", !.item = Head(sr.items)]]
        BY DEF FieldsInv, Threads
      <4> QED BY <4>2, <4>3 DEF FieldsInv, Threads
    <3>2. sr' \in Rings
      BY RingEnds DEF FieldsInv
    <3> QED BY <3>1, <3>2 DEF FieldsInv
  <2>2. StageInv'
    BY DEF FieldsInv, StageInv, ProbeStages, RingStages, Locals, Threads
  <2>3. OwnerInv'
    BY DEF FieldsInv, StageInv, ProbeStages, RingStages, OwnerInv, NothingAhead, Holds, NoneOpen, Playlists, Sources, Workers, Locals, Threads
  <2>4. NothingIsMisnamed'
    BY DEF FieldsInv, OwnerInv, NothingIsMisnamed, NothingAhead, Holds, NoUnit, NoSeg, Playlists, Sources, Workers, Locals, Threads
  <2> QED BY <2>1, <2>2, <2>3, <2>4
<1>6. CASE PopsNothing
  <2> USE <1>6 DEF PopsNothing, PopEnds
  <2>1. FieldsInv'
    <3>1. th' \in [Threads -> Locals]
      BY Parts DEF FieldsInv, Locals, Threads, Stages, Playlists, Sources
    <3> QED BY <3>1 DEF FieldsInv
  <2>2. StageInv'
    BY DEF FieldsInv, StageInv, ProbeStages, RingStages, Locals, Threads
  <2>3. OwnerInv'
    BY DEF FieldsInv, StageInv, ProbeStages, RingStages, OwnerInv, NothingAhead, Holds, NoneOpen, Playlists, Sources, Workers, Locals, Threads
  <2>4. NothingIsMisnamed'
    BY DEF FieldsInv, OwnerInv, NothingIsMisnamed, NothingAhead, Holds, NoUnit, NoSeg, Playlists, Sources, Workers, Locals, Threads
  <2> QED BY <2>1, <2>2, <2>3, <2>4
<1>7. CASE Decodes
  <2> USE <1>7 DEF Decodes, Begins, NoItem, Item, Sees
  <2>1. FieldsInv'
    <3>1. th' \in [Threads -> Locals]
      BY Parts DEF FieldsInv, Locals, Threads, Stages, Playlists, Sources
    <3> QED BY <3>1 DEF FieldsInv
  <2>2. StageInv'
    BY DEF FieldsInv, StageInv, ProbeStages, RingStages, Locals, Threads
  <2>3. OwnerInv'
    BY DEF FieldsInv, StageInv, ProbeStages, RingStages, OwnerInv, NothingAhead, Holds, NoneOpen, Playlists, Sources, Workers, Locals, Threads
  <2>4. NothingIsMisnamed'
    BY DEF FieldsInv, OwnerInv, NothingIsMisnamed, NothingAhead, Holds, NoUnit, NoSeg, Playlists, Sources, Workers, Locals, Threads
  <2> QED BY <2>1, <2>2, <2>3, <2>4
<1>8. CASE NothingToDecode
  <2> USE <1>8 DEF NothingToDecode, Begins, NoItem, Item
  <2>1. FieldsInv'
    <3>1. th' \in [Threads -> Locals]
      BY Parts DEF FieldsInv, Locals, Threads, Stages, Playlists, Sources
    <3> QED BY <3>1 DEF FieldsInv
  <2>2. StageInv'
    BY DEF FieldsInv, StageInv, ProbeStages, RingStages, Locals, Threads
  <2>3. OwnerInv'
    BY DEF FieldsInv, StageInv, ProbeStages, RingStages, OwnerInv, NothingAhead, Holds, NoneOpen, Playlists, Sources, Workers, Locals, Threads
  <2>4. NothingIsMisnamed'
    BY DEF FieldsInv, OwnerInv, NothingIsMisnamed, NothingAhead, Holds, NoUnit, NoSeg, Playlists, Sources, Workers, Locals, Threads
  <2> QED BY <2>1, <2>2, <2>3, <2>4
<1> QED BY <1>1, <1>2, <1>3, <1>4, <1>5, <1>6, <1>7, <1>8

\* The decode thread reads through the demuxer.
LEMMA LoopKeeps ==
  ASSUME StreamInv, LoopStops \/ LoopReopens \/ LoopReads \/ Decoded \/ ReadsEnd
  PROVE  StreamInv'
<1> USE DEF StreamInv, owners, fetching, shown, histories, External, At, Goes
<1>1. CASE LoopStops
  <2> USE <1>1 DEF LoopStops, Begins, NoItem, Item
  <2>1. FieldsInv'
    <3>1. th' \in [Threads -> Locals]
      BY Parts DEF FieldsInv, Locals, Threads, Stages, Playlists, Sources
    <3> QED BY <3>1 DEF FieldsInv
  <2>2. StageInv'
    BY DEF FieldsInv, StageInv, ProbeStages, RingStages, Locals, Threads
  <2>3. OwnerInv'
    BY DEF FieldsInv, StageInv, ProbeStages, RingStages, OwnerInv, NothingAhead, Holds, NoneOpen, Playlists, Sources, Workers, Locals, Threads
  <2>4. NothingIsMisnamed'
    BY DEF FieldsInv, OwnerInv, NothingIsMisnamed, NothingAhead, Holds, NoUnit, NoSeg, Playlists, Sources, Workers, Locals, Threads
  <2> QED BY <2>1, <2>2, <2>3, <2>4
<1>2. CASE LoopReopens
  <2> USE <1>2 DEF LoopReopens, Idling
  <2>1. FieldsInv'
    <3>1. th' \in [Threads -> Locals]
      BY Parts DEF FieldsInv, Locals, Threads, Stages, Playlists, Sources
    <3> QED BY <3>1 DEF FieldsInv
  <2>2. StageInv'
    BY DEF FieldsInv, StageInv, ProbeStages, RingStages, Locals, Threads
  <2>3. OwnerInv'
    BY DEF FieldsInv, StageInv, ProbeStages, RingStages, OwnerInv, NothingAhead, Holds, NoneOpen, Playlists, Sources, Workers, Locals, Threads
  <2>4. NothingIsMisnamed'
    BY DEF FieldsInv, OwnerInv, NothingIsMisnamed, NothingAhead, Holds, NoUnit, NoSeg, Playlists, Sources, Workers, Locals, Threads
  <2> QED BY <2>1, <2>2, <2>3, <2>4
<1>3. CASE LoopReads
  <2> USE <1>3 DEF LoopReads, Begins, NoItem, Item, Looping
  <2>1. FieldsInv'
    <3>1. th' \in [Threads -> Locals]
      BY Parts DEF FieldsInv, Locals, Threads, Stages, Playlists, Sources
    <3> QED BY <3>1 DEF FieldsInv
  <2>2. StageInv'
    BY DEF FieldsInv, StageInv, ProbeStages, RingStages, Locals, Threads
  <2>3. OwnerInv'
    BY DEF FieldsInv, StageInv, ProbeStages, RingStages, OwnerInv, NothingAhead, Holds, NoneOpen, Playlists, Sources, Workers, Locals, Threads
  <2>4. NothingIsMisnamed'
    BY DEF FieldsInv, OwnerInv, NothingIsMisnamed, NothingAhead, Holds, NoUnit, NoSeg, Playlists, Sources, Workers, Locals, Threads
  <2> QED BY <2>1, <2>2, <2>3, <2>4
<1>4. CASE Decoded
  <2> USE <1>4 DEF Decoded
  <2>1. FieldsInv'
    <3>1. th' \in [Threads -> Locals]
      BY Parts DEF FieldsInv, Locals, Threads, Stages, Playlists, Sources
    <3> QED BY <3>1 DEF FieldsInv
  <2>2. StageInv'
    BY DEF FieldsInv, StageInv, ProbeStages, RingStages, Locals, Threads
  <2>3. OwnerInv'
    BY DEF FieldsInv, StageInv, ProbeStages, RingStages, OwnerInv, NothingAhead, Holds, NoneOpen, Playlists, Sources, Workers, Locals, Threads
  <2>4. NothingIsMisnamed'
    BY DEF FieldsInv, OwnerInv, NothingIsMisnamed, NothingAhead, Holds, NoUnit, NoSeg, Playlists, Sources, Workers, Locals, Threads
  <2> QED BY <2>1, <2>2, <2>3, <2>4
<1>5. CASE ReadsEnd
  <2> USE <1>5 DEF ReadsEnd
  <2>1. FieldsInv'
    <3>1. th' \in [Threads -> Locals]
      BY Parts DEF FieldsInv, Locals, Threads, Stages, Playlists, Sources
    <3> QED BY <3>1 DEF FieldsInv
  <2>2. StageInv'
    BY DEF FieldsInv, StageInv, ProbeStages, RingStages, Locals, Threads
  <2>3. OwnerInv'
    BY DEF FieldsInv, StageInv, ProbeStages, RingStages, OwnerInv, NothingAhead, Holds, NoneOpen, Playlists, Sources, Workers, Locals, Threads
  <2>4. NothingIsMisnamed'
    BY DEF FieldsInv, OwnerInv, NothingIsMisnamed, NothingAhead, Holds, NoUnit, NoSeg, Playlists, Sources, Workers, Locals, Threads
  <2> QED BY <2>1, <2>2, <2>3, <2>4
<1> QED BY <1>1, <1>2, <1>3, <1>4, <1>5

\* A seek is asked for and carried out.
LEMMA SeekingKeeps ==
  ASSUME StreamInv, SeekTaken \/ SeekHalts \/ SeekJoins \/ SeekMoves \/ SeekLost \/ AsksSeek
  PROVE  StreamInv'
<1> USE DEF StreamInv, owners, fetching, shown, histories, External, At, Goes
<1>1. CASE SeekTaken
  <2> USE <1>1 DEF SeekTaken, Idling, CanSeek
  <2>1. FieldsInv'
    <3>1. seek' \in Int
      BY Parts DEF FieldsInv
    <3>2. th' \in [Threads -> Locals]
      <4>1. th.reader \in Locals /\ seek \in Nat
        BY DEF FieldsInv, Threads
      <4>2. [th.reader EXCEPT !.at = "halt", !.next = seek] \in Locals
        BY <4>1, Locally DEF Stages
      <4>3. \/ th' = th
            \/ th' = [th EXCEPT !.reader = [th.reader EXCEPT !.at = "halt", !.next = seek]]
        BY DEF FieldsInv, Threads
      <4> QED BY <4>2, <4>3 DEF FieldsInv, Threads
    <3> QED BY <3>1, <3>2 DEF FieldsInv
  <2>2. StageInv'
    BY DEF FieldsInv, StageInv, ProbeStages, RingStages, Locals, Threads
  <2>3. OwnerInv'
    BY DEF FieldsInv, StageInv, ProbeStages, RingStages, OwnerInv, NothingAhead, Holds, NoneOpen, Playlists, Sources, Workers, Locals, Threads
  <2>4. NothingIsMisnamed'
    BY DEF FieldsInv, OwnerInv, NothingIsMisnamed, NothingAhead, Holds, NoUnit, NoSeg, Playlists, Sources, Workers, Locals, Threads
  <2> QED BY <2>1, <2>2, <2>3, <2>4
<1>2. CASE SeekHalts
  <2> USE <1>2 DEF SeekHalts, Halted
  <2>1. FieldsInv'
    <3>1. sr' \in Rings
      BY Parts DEF FieldsInv, Rings, Locals, Threads
    <3>2. aborted' \in BOOLEAN
      BY Parts DEF FieldsInv
    <3>3. th' \in [Threads -> Locals]
      BY Parts DEF FieldsInv, Locals, Threads, Stages, Playlists, Sources
    <3> QED BY <3>1, <3>2, <3>3 DEF FieldsInv
  <2>2. StageInv'
    BY DEF FieldsInv, StageInv, ProbeStages, RingStages, Locals, Threads
  <2>3. OwnerInv'
    BY DEF FieldsInv, StageInv, ProbeStages, RingStages, OwnerInv, NothingAhead, Holds, NoneOpen, Playlists, Sources, Workers, Locals, Threads
  <2>4. NothingIsMisnamed'
    BY DEF FieldsInv, OwnerInv, NothingIsMisnamed, NothingAhead, Holds, NoUnit, NoSeg, Playlists, Sources, Workers, Locals, Threads
  <2> QED BY <2>1, <2>2, <2>3, <2>4
<1>3. CASE SeekJoins
  <2> USE <1>3 DEF SeekJoins
  <2>1. FieldsInv'
    <3>1. sr' \in Rings
      BY RingEnds DEF FieldsInv
    <3>2. th' \in [Threads -> Locals]
      BY Parts DEF FieldsInv, Locals, Threads, Stages, Playlists, Sources
    <3> QED BY <3>1, <3>2 DEF FieldsInv
  <2>2. StageInv'
    BY DEF FieldsInv, StageInv, ProbeStages, RingStages, Locals, Threads
  <2>3. OwnerInv'
    BY DEF FieldsInv, StageInv, ProbeStages, RingStages, OwnerInv, NothingAhead, Holds, NoneOpen, Playlists, Sources, Workers, Locals, Threads
  <2>4. NothingIsMisnamed'
    BY DEF FieldsInv, OwnerInv, NothingIsMisnamed, NothingAhead, Holds, NoUnit, NoSeg, Playlists, Sources, Workers, Locals, Threads
  <2> QED BY <2>1, <2>2, <2>3, <2>4
<1>4. CASE SeekMoves
  <2> USE <1>4 DEF SeekMoves, CanSeek, Lifted, Least
  <2>1. FieldsInv'
    <3>1. hls' \in Playlists
      <4>1. th.reader.next \in Nat
        BY DEF FieldsInv, Locals, Threads
      <4>2. hls.count \in Nat /\ hls.reset + 1 \in Nat
        BY DEF FieldsInv, Playlists
      <4>3. PICK n \in Nat : hls' = [hls EXCEPT !.idx = n, !.reset = hls.reset + 1]
        BY <4>1, <4>2
      <4>4. hls \in Playlists
        BY DEF FieldsInv
      <4> HIDE DEF SeekMoves
      <4> QED BY <4>2, <4>3, <4>4 DEF Playlists
    <3>2. src' \in Sources
      BY Parts DEF FieldsInv, Sources, Playlists
    <3>3. aborted' \in BOOLEAN
      BY Parts DEF FieldsInv
    <3>4. th' \in [Threads -> Locals]
      BY Parts DEF FieldsInv, Locals, Threads, Stages, Playlists, Sources
    <3> QED BY <3>1, <3>2, <3>3, <3>4 DEF FieldsInv
  <2>2. StageInv'
    BY DEF FieldsInv, StageInv, ProbeStages, RingStages, Locals, Threads
  <2>3. OwnerInv'
    BY DEF FieldsInv, StageInv, ProbeStages, RingStages, OwnerInv, NothingAhead, Holds, NoneOpen, Playlists, Sources, Workers, Locals, Threads
  <2>4. NothingIsMisnamed'
    BY DEF FieldsInv, OwnerInv, NothingIsMisnamed, NothingAhead, Holds, NoUnit, NoSeg, Playlists, Sources, Workers, Locals, Threads
  <2> QED BY <2>1, <2>2, <2>3, <2>4
<1>5. CASE SeekLost
  <2> USE <1>5 DEF SeekLost, CanSeek
  <2>1. FieldsInv'
    <3>1. th' \in [Threads -> Locals]
      BY Parts DEF FieldsInv, Locals, Threads, Stages, Playlists, Sources
    <3> QED BY <3>1 DEF FieldsInv
  <2>2. StageInv'
    BY DEF FieldsInv, StageInv, ProbeStages, RingStages, Locals, Threads
  <2>3. OwnerInv'
    BY DEF FieldsInv, StageInv, ProbeStages, RingStages, OwnerInv, NothingAhead, Holds, NoneOpen, Playlists, Sources, Workers, Locals, Threads
  <2>4. NothingIsMisnamed'
    BY DEF FieldsInv, OwnerInv, NothingIsMisnamed, NothingAhead, Holds, NoUnit, NoSeg, Playlists, Sources, Workers, Locals, Threads
  <2> QED BY <2>1, <2>2, <2>3, <2>4
<1>6. CASE AsksSeek
  <2> USE <1>6 DEF AsksSeek
  <2>1. FieldsInv'
    <3>1. seek' \in Int
      BY Parts DEF FieldsInv
    <3> QED BY <3>1 DEF FieldsInv
  <2>2. StageInv'
    BY DEF FieldsInv, StageInv, ProbeStages, RingStages, Locals, Threads
  <2>3. OwnerInv'
    BY DEF FieldsInv, StageInv, ProbeStages, RingStages, OwnerInv, NothingAhead, Holds, NoneOpen, Playlists, Sources, Workers, Locals, Threads
  <2>4. NothingIsMisnamed'
    BY DEF FieldsInv, OwnerInv, NothingIsMisnamed, NothingAhead, Holds, NoUnit, NoSeg, Playlists, Sources, Workers, Locals, Threads
  <2> QED BY <2>1, <2>2, <2>3, <2>4
<1> QED BY <1>1, <1>2, <1>3, <1>4, <1>5, <1>6

\* The stream is taken down.
LEMMA StoppingKeeps ==
  ASSUME StreamInv, StopFlags \/ StopSignals \/ StopJoins \/ StopRing \/ StopClosed
  PROVE  StreamInv'
<1> USE DEF StreamInv, owners, fetching, shown, histories, External, At, Goes
<1>1. CASE StopFlags
  <2> USE <1>1 DEF StopFlags
  <2>1. FieldsInv'
    <3>1. sr' \in Rings
      BY Parts DEF FieldsInv, Rings, Locals, Threads
    <3> QED BY <3>1 DEF FieldsInv
  <2>2. StageInv'
    BY DEF FieldsInv, StageInv, ProbeStages, RingStages, Locals, Threads
  <2>3. OwnerInv'
    BY DEF FieldsInv, StageInv, ProbeStages, RingStages, OwnerInv, NothingAhead, Holds, NoneOpen, Playlists, Sources, Workers, Locals, Threads
  <2>4. NothingIsMisnamed'
    BY DEF FieldsInv, OwnerInv, NothingIsMisnamed, NothingAhead, Holds, NoUnit, NoSeg, Playlists, Sources, Workers, Locals, Threads
  <2> QED BY <2>1, <2>2, <2>3, <2>4
<1>2. CASE StopSignals
  <2> USE <1>2 DEF StopSignals
  <2>1. FieldsInv'
    <3>1. aborted' \in BOOLEAN
      BY Parts DEF FieldsInv
    <3> QED BY <3>1 DEF FieldsInv
  <2>2. StageInv'
    BY DEF FieldsInv, StageInv, ProbeStages, RingStages, Locals, Threads
  <2>3. OwnerInv'
    BY DEF FieldsInv, StageInv, ProbeStages, RingStages, OwnerInv, NothingAhead, Holds, NoneOpen, Playlists, Sources, Workers, Locals, Threads
  <2>4. NothingIsMisnamed'
    BY DEF FieldsInv, OwnerInv, NothingIsMisnamed, NothingAhead, Holds, NoUnit, NoSeg, Playlists, Sources, Workers, Locals, Threads
  <2> QED BY <2>1, <2>2, <2>3, <2>4
<1>3. CASE StopJoins
  <2> USE <1>3 DEF StopJoins, Halted
  <2>1. FieldsInv'
    <3>1. sr' \in Rings
      BY Parts DEF FieldsInv, Rings, Locals, Threads
    <3>2. aborted' \in BOOLEAN
      BY Parts DEF FieldsInv
    <3> QED BY <3>1, <3>2 DEF FieldsInv
  <2>2. StageInv'
    BY DEF FieldsInv, StageInv, ProbeStages, RingStages, Locals, Threads
  <2>3. OwnerInv'
    BY DEF FieldsInv, StageInv, ProbeStages, RingStages, OwnerInv, NothingAhead, Holds, NoneOpen, Playlists, Sources, Workers, Locals, Threads
  <2>4. NothingIsMisnamed'
    BY DEF FieldsInv, OwnerInv, NothingIsMisnamed, NothingAhead, Holds, NoUnit, NoSeg, Playlists, Sources, Workers, Locals, Threads
  <2> QED BY <2>1, <2>2, <2>3, <2>4
<1>4. CASE StopRing
  <2> USE <1>4 DEF StopRing, PrefAsked, PrefAborts
  <2>1. FieldsInv'
    <3>1. sr' \in Rings
      BY Parts DEF FieldsInv, Rings, Locals, Threads
    <3>2. pref' \in Workers
      BY Parts DEF FieldsInv, Workers, Playlists, Holds
    <3>3. aborted' \in BOOLEAN
      BY Parts DEF FieldsInv
    <3> QED BY <3>1, <3>2, <3>3 DEF FieldsInv
  <2>2. StageInv'
    BY DEF FieldsInv, StageInv, ProbeStages, RingStages, Locals, Threads
  <2>3. OwnerInv'
    BY DEF FieldsInv, StageInv, ProbeStages, RingStages, OwnerInv, NothingAhead, Holds, NoneOpen, Playlists, Sources, Workers, Locals, Threads
  <2>4. NothingIsMisnamed'
    BY DEF FieldsInv, OwnerInv, NothingIsMisnamed, NothingAhead, Holds, NoUnit, NoSeg, Playlists, Sources, Workers, Locals, Threads
  <2> QED BY <2>1, <2>2, <2>3, <2>4
<1>5. CASE StopClosed
  <2> USE <1>5 DEF StopClosed, PrefCleared, Emptied
  <2>1. FieldsInv'
    <3>1. hls' \in Playlists
      BY Parts DEF FieldsInv, Playlists, Windows
    <3>2. src' \in Sources
      BY Parts DEF FieldsInv, Sources, Playlists
    <3>3. pref' \in Workers
      BY Parts DEF FieldsInv, Workers, Playlists, Holds
    <3> QED BY <3>1, <3>2, <3>3 DEF FieldsInv
  <2>2. StageInv'
    BY DEF FieldsInv, StageInv, ProbeStages, RingStages, Locals, Threads
  <2>3. OwnerInv'
    BY DEF FieldsInv, StageInv, ProbeStages, RingStages, OwnerInv, NothingAhead, Holds, NoneOpen, Playlists, Sources, Workers, Locals, Threads
  <2>4. NothingIsMisnamed'
    BY DEF FieldsInv, OwnerInv, NothingIsMisnamed, NothingAhead, Holds, NoUnit, NoSeg, Playlists, Sources, Workers, Locals, Threads
  <2> QED BY <2>1, <2>2, <2>3, <2>4
<1> QED BY <1>1, <1>2, <1>3, <1>4, <1>5

\* A segment is fetched for the ring, or in line.
LEMMA NextKeeps ==
  ASSUME StreamInv, NEW t \in Threads, NextStopped(t) \/ NextPastEnd(t) \/ NextFetches(t) \/ NextFetched(t) \/ NextFails(t)
  PROVE  StreamInv'
<1> USE DEF StreamInv, owners, fetching, shown, histories, External, At, Goes
<1>1. CASE NextStopped(t)
  <2> USE <1>1 DEF NextStopped
  <2>1. FieldsInv'
    <3>1. th' \in [Threads -> Locals]
      BY Parts DEF FieldsInv, Locals, Threads, Stages, Playlists, Sources
    <3> QED BY <3>1 DEF FieldsInv
  <2>2. StageInv'
    BY DEF FieldsInv, StageInv, ProbeStages, RingStages, Locals, Threads
  <2>3. OwnerInv'
    BY DEF FieldsInv, StageInv, ProbeStages, RingStages, OwnerInv, NothingAhead, Holds, NoneOpen, Playlists, Sources, Workers, Locals, Threads
  <2>4. NothingIsMisnamed'
    BY DEF FieldsInv, OwnerInv, NothingIsMisnamed, NothingAhead, Holds, NoUnit, NoSeg, Playlists, Sources, Workers, Locals, Threads
  <2> QED BY <2>1, <2>2, <2>3, <2>4
<1>2. CASE NextPastEnd(t)
  <2> USE <1>2 DEF NextPastEnd, Refreshes
  <2>1. FieldsInv'
    <3>1. th' \in [Threads -> Locals]
      BY Parts DEF FieldsInv, Locals, Threads, Stages, Playlists, Sources
    <3> QED BY <3>1 DEF FieldsInv
  <2>2. StageInv'
    BY DEF FieldsInv, StageInv, ProbeStages, RingStages, Locals, Threads
  <2>3. OwnerInv'
    BY DEF FieldsInv, StageInv, ProbeStages, RingStages, OwnerInv, NothingAhead, Holds, NoneOpen, Playlists, Sources, Workers, Locals, Threads
  <2>4. NothingIsMisnamed'
    BY DEF FieldsInv, OwnerInv, NothingIsMisnamed, NothingAhead, Holds, NoUnit, NoSeg, Playlists, Sources, Workers, Locals, Threads
  <2> QED BY <2>1, <2>2, <2>3, <2>4
<1>3. CASE NextFetches(t)
  <2> USE <1>3 DEF NextFetches
  <2>1. FieldsInv'
    <3>1. th' \in [Threads -> Locals]
      BY Parts DEF FieldsInv, Locals, Threads, Stages, Playlists, Sources
    <3> QED BY <3>1 DEF FieldsInv
  <2>2. StageInv'
    BY DEF FieldsInv, StageInv, ProbeStages, RingStages, Locals, Threads
  <2>3. OwnerInv'
    BY DEF FieldsInv, StageInv, ProbeStages, RingStages, OwnerInv, NothingAhead, Holds, NoneOpen, Playlists, Sources, Workers, Locals, Threads
  <2>4. NothingIsMisnamed'
    BY DEF FieldsInv, OwnerInv, NothingIsMisnamed, NothingAhead, Holds, NoUnit, NoSeg, Playlists, Sources, Workers, Locals, Threads
  <2> QED BY <2>1, <2>2, <2>3, <2>4
<1>4. CASE NextFetched(t)
  <2> USE <1>4 DEF NextFetched, InRead, Advanced, Item
  <2>1. FieldsInv'
    <3>1. hls' \in Playlists
      <4>1. Advanced \in Playlists /\ hls.reset \in Nat
        BY DEF FieldsInv, Playlists
      <4> HIDE DEF Advanced
      <4>2. PICK n \in Nat : hls' = [Advanced EXCEPT !.reset = n]
        BY <4>1
      <4> HIDE DEF NextFetched
      <4> QED BY <4>1, <4>2 DEF Playlists
    <3>2. src' \in Sources
      BY Parts DEF FieldsInv, Sources, Playlists
    <3>3. th' \in [Threads -> Locals]
      BY Parts DEF FieldsInv, Locals, Threads, Stages, Playlists, Sources
    <3> QED BY <3>1, <3>2, <3>3 DEF FieldsInv
  <2>2. StageInv'
    BY DEF FieldsInv, StageInv, ProbeStages, RingStages, Locals, Threads
  <2>3. OwnerInv'
    BY DEF FieldsInv, StageInv, ProbeStages, RingStages, OwnerInv, NothingAhead, Holds, NoneOpen, Playlists, Sources, Workers, Locals, Threads
  <2>4. NothingIsMisnamed'
    <3>1. External
      BY DEF StageInv, FieldsInv, Threads
    <3>2. src'.mem = src.mem /\ pref' = pref /\ kind' = kind /\ phase' = phase
      BY DEF FieldsInv, Sources
    <3> HIDE DEF NextFetched
    <3> QED BY <3>1, <3>2 DEF NothingIsMisnamed, OwnerInv, NothingAhead, NoUnit, NoSeg
  <2> QED BY <2>1, <2>2, <2>3, <2>4
<1>5. CASE NextFails(t)
  <2> USE <1>5 DEF NextFails, FailsOn, Fault, InRead, Refreshes, Missed, Least
  <2>1. FieldsInv'
    <3>1. src' \in Sources
      <4>1. Missed \in Sources
        BY DEF FieldsInv, Sources, Playlists
      <4> HIDE DEF Missed
      <4>2. src' = [Missed EXCEPT !.mem = NoUnit]
        OBVIOUS
      <4> HIDE DEF NextFails
      <4> QED BY <4>1, <4>2, Parts DEF Sources
    <3>2. th' \in [Threads -> Locals]
      BY Parts DEF FieldsInv, Locals, Threads, Stages, Playlists, Sources
    <3> QED BY <3>1, <3>2 DEF FieldsInv
  <2>2. StageInv'
    BY DEF FieldsInv, StageInv, ProbeStages, RingStages, Locals, Threads
  <2>3. OwnerInv'
    BY DEF FieldsInv, StageInv, ProbeStages, RingStages, OwnerInv, NothingAhead, Holds, NoneOpen, Playlists, Sources, Workers, Locals, Threads
  <2>4. NothingIsMisnamed'
    BY DEF FieldsInv, OwnerInv, NothingIsMisnamed, NothingAhead, Holds, NoUnit, NoSeg, Playlists, Sources, Workers, Locals, Threads
  <2> QED BY <2>1, <2>2, <2>3, <2>4
<1> QED BY <1>1, <1>2, <1>3, <1>4, <1>5

\* A refresh ends where the thread may be.
LEMMA RefreshReturns ==
  ASSUME StreamInv, NEW t \in Threads, NEW ok \in BOOLEAN, NEW live \in BOOLEAN, th[t].at \in {"refresh", "parse"},
         AfterRefresh(t, ok, live), UNCHANGED <<kind, phase>>
  PROVE  /\ th' \in [Threads -> Locals]
         /\ StageInv'
         /\ th'.reader.at = "start" => th.reader.at = "start"
         /\ th'.reader.at \in {"fetch", "refresh", "parse"} => th.reader.at \in {"fetch", "refresh", "parse"}
         /\ th'[t].at # "parse" /\ \A u \in Threads : u # t => th'[u] = th[u]
<1>1. th \in [Threads -> Locals] /\ StageInv
  BY DEF StreamInv, FieldsInv
<1>2. /\ th' \in [Threads -> Locals]
      /\ th'[t].at \in {"fetch", "ended", "wait"} /\ (th'[t].at = "ended" => InRead(t))
      /\ \A u \in Threads : u # t => th'[u] = th[u]
  BY <1>1, Returned
<1>3. CASE t = "reader"
  <2>1. th'.fetcher = th.fetcher /\ th'.reader.at \in {"fetch", "ended", "wait"}
    BY <1>2, <1>3 DEF Threads
  <2>2. StageInv'
    BY <1>1, <1>2, <1>3, <2>1 DEF StageInv, External, At, InRead, ProbeStages, RingStages
  <2> QED BY <1>2, <1>3, <2>1, <2>2
<1>4. CASE t = "fetcher"
  <2>1. th'.reader = th.reader
    BY <1>2, <1>4 DEF Threads
  <2>2. External
    BY <1>1, <1>4 DEF StageInv, At
  <2>3. StageInv'
    BY <1>1, <2>1, <2>2 DEF StageInv, External, At, ProbeStages, RingStages
  <2> QED BY <1>2, <1>4, <2>1, <2>3
<1> QED BY <1>3, <1>4 DEF Threads

\* A live playlist is fetched anew.
LEMMA RefreshKeeps ==
  ASSUME StreamInv, NEW t \in Threads, Refresh(t)
  PROVE  StreamInv'
<1> USE DEF StreamInv, owners, fetching, shown, histories
<1>0. t = "reader" \/ (t = "fetcher" /\ External)
  <2>1. th[t].at \in {"refresh", "parse"}
    BY DEF Refresh, RefreshFails, RefreshFetched, RefreshParsed, RefreshUnparsed, At
  <2>2. ~External => th["fetcher"].at = "off"
    BY DEF StageInv, At
  <2>3. CASE t = "reader"
    BY <2>3
  <2>4. CASE t = "fetcher"
    <3>1. th["fetcher"].at # "off"
      BY <2>1, <2>4
    <3> QED BY <2>2, <2>4, <3>1
  <2> QED BY <2>3, <2>4 DEF Threads
<1>1. CASE RefreshFails(t)
  <2>1. AfterRefresh(t, FALSE, hls.live) /\ th[t].at \in {"refresh", "parse"}
    BY <1>1 DEF RefreshFails, At
  <2>2. UNCHANGED <<kind, srv, hls, src, switch, pref, aborted, phase, sr, seek>>
    BY <1>1 DEF RefreshFails
  <2>3. /\ th' \in [Threads -> Locals]
        /\ StageInv'
        /\ th'.reader.at = "start" => th.reader.at = "start"
        /\ th'.reader.at \in {"fetch", "refresh", "parse"} => th.reader.at \in {"fetch", "refresh", "parse"}
        /\ th'[t].at # "parse" /\ \A u \in Threads : u # t => th'[u] = th[u]
    <3>1. hls.live \in BOOLEAN
      BY DEF FieldsInv, Playlists
    <3> QED BY <2>1, <2>2, <3>1, RefreshReturns
  <2>4. FieldsInv'
    BY <2>2, <2>3 DEF FieldsInv
  <2>5. OwnerInv'
    BY <1>0, <2>2, <2>3 DEF OwnerInv, External, At, NothingAhead, NoneOpen, Holds, Threads
  <2>6. NothingIsMisnamed'
    BY <2>2 DEF NothingIsMisnamed, External, Holds
  <2> QED BY <2>3, <2>4, <2>5, <2>6
<1>2. CASE RefreshFetched(t)
  <2>1. /\ hls.live /\ th[t].at = "refresh"
        /\ th' = [th EXCEPT ![t].at = "parse", ![t].next = hls.seq + hls.idx]
        /\ hls' = [seq |-> 0, count |-> 0, live |-> FALSE, url |-> TRUE, idx |-> 0, reset |-> hls.reset]
        /\ src' = [src EXCEPT !.mem = NoUnit]
        /\ UNCHANGED <<kind, srv, switch, pref, aborted, phase, sr, seek>>
    BY <1>2 DEF RefreshFetched, Emptied, At
  <2>2. FieldsInv'
    <3>1. hls' \in Playlists
      BY <2>1 DEF FieldsInv, Playlists
    <3>2. src' \in Sources
      BY <2>1, Parts DEF FieldsInv, Sources
    <3>3. th' \in [Threads -> Locals]
      BY <2>1 DEF FieldsInv, Locals, Threads, Stages, Playlists
    <3> QED BY <2>1, <3>1, <3>2, <3>3 DEF FieldsInv
  <2>3. /\ th'[t].at = "parse" /\ \A u \in Threads : u # t => th'[u] = th[u]
        /\ src'.mem = NoUnit /\ src'.http = src.http /\ NothingAhead
        /\ ~External => NoneOpen
    BY <1>0, <2>1 DEF FieldsInv, OwnerInv, Threads, Locals, Sources
  <2>4. StageInv'
    BY <1>0, <2>1, <2>3 DEF StageInv, External, At, ProbeStages, RingStages, Threads
  <2>5. OwnerInv'
    BY <1>0, <2>1, <2>3 DEF OwnerInv, External, At, NothingAhead, NoneOpen, Threads
  <2>6. NothingIsMisnamed'
    BY <2>1, <2>3 DEF NothingIsMisnamed, External, NothingAhead, NoneOpen, NoUnit, NoSeg
  <2> QED BY <2>2, <2>4, <2>5, <2>6
<1>3. CASE RefreshParsed(t)
  <2>1. PICK behind \in 0 .. 1 :
          /\ behind <= srv.first
          /\ hls' = Reindexed(th[t].next, Listed(behind))
          /\ AfterRefresh(t, hls'.idx < hls'.count, hls'.live)
          /\ pref' = Prefetched(hls')
    BY <1>3 DEF RefreshParsed
  <2>2. /\ th[t].at = "parse" /\ th[t].at \in {"refresh", "parse"}
        /\ aborted' = Resumed
        /\ UNCHANGED <<kind, srv, src, switch, phase, sr, seek>>
    BY <1>3 DEF RefreshParsed, At
  <2>3. hls' \in Playlists
    <3>1. th[t].next \in Int
      BY DEF FieldsInv, Locals
    <3> QED BY <2>1, <3>1, Lists DEF FieldsInv
  <2>4. /\ th' \in [Threads -> Locals]
        /\ StageInv'
        /\ th'.reader.at = "start" => th.reader.at = "start"
        /\ th'.reader.at \in {"fetch", "refresh", "parse"} => th.reader.at \in {"fetch", "refresh", "parse"}
        /\ th'[t].at # "parse" /\ \A u \in Threads : u # t => th'[u] = th[u]
    <3>1. (hls'.idx < hls'.count) \in BOOLEAN /\ hls'.live \in BOOLEAN
      BY <2>3 DEF Playlists
    <3> QED BY <2>1, <2>2, <3>1, RefreshReturns
  <2>5. pref' \in Workers
    <3>1. pref' = pref \/ pref' = [pref EXCEPT !.at = "top", !.stop = FALSE]
      BY <2>1 DEF Prefetched
    <3> QED BY <3>1 DEF FieldsInv, Workers
  <2>6. FieldsInv'
    <3>1. aborted' \in BOOLEAN
      BY <2>2 DEF FieldsInv, Resumed, Lifted
    <3> QED BY <2>2, <2>4, <2>3, <2>5, <3>1 DEF FieldsInv
  <2>7. /\ pref'.ready = {} /\ pref'.at # "fetch"
        /\ External \/ hls'.live => pref' = pref
        /\ NothingAhead /\ (~External => NoneOpen)
    <3>1. NothingAhead /\ (~External => NoneOpen)
      BY <1>0, <2>2 DEF OwnerInv, At
    <3> QED BY <2>1, <3>1 DEF Prefetched, NothingAhead, FieldsInv, Workers
  <2>8. OwnerInv'
    <3>1. ~External => th.fetcher.at = "off" /\ t = "reader"
      BY <1>0 DEF StageInv, At
    <3> QED BY <1>0, <2>2, <2>4, <2>7, <3>1 DEF OwnerInv, External, At, NothingAhead, NoneOpen, Threads
  <2>9. NothingIsMisnamed'
    BY <2>2, <2>7 DEF NothingIsMisnamed, OwnerInv, External, NothingAhead, NoneOpen, NoUnit, NoSeg
  <2> QED BY <2>4, <2>6, <2>8, <2>9
<1>4. CASE RefreshUnparsed(t)
  <2>1. /\ AfterRefresh(t, FALSE, TRUE) /\ th[t].at = "parse" /\ th[t].at \in {"refresh", "parse"}
        /\ hls' = [seq |-> 0, count |-> 0, live |-> TRUE, url |-> TRUE, idx |-> 0, reset |-> hls.reset]
    BY <1>4 DEF RefreshUnparsed, At, Emptied
  <2>2. UNCHANGED <<kind, srv, src, switch, pref, aborted, phase, sr, seek>>
    BY <1>4 DEF RefreshUnparsed
  <2>3. /\ th' \in [Threads -> Locals]
        /\ StageInv'
        /\ th'.reader.at = "start" => th.reader.at = "start"
        /\ th'.reader.at \in {"fetch", "refresh", "parse"} => th.reader.at \in {"fetch", "refresh", "parse"}
        /\ th'[t].at # "parse" /\ \A u \in Threads : u # t => th'[u] = th[u]
    BY <2>1, <2>2, RefreshReturns
  <2>4. hls' \in Playlists
    BY <2>1 DEF FieldsInv, Playlists
  <2>5. FieldsInv'
    BY <2>2, <2>3, <2>4 DEF FieldsInv
  <2>6. NothingAhead /\ (~External => NoneOpen)
    BY <1>0, <2>1 DEF OwnerInv, At
  <2>7. OwnerInv'
    BY <1>0, <2>2, <2>3, <2>6 DEF OwnerInv, External, At, NothingAhead, NoneOpen, Threads
  <2>8. NothingIsMisnamed'
    BY <2>2, <2>6 DEF NothingIsMisnamed, OwnerInv, External, NothingAhead, NoneOpen, NoUnit, NoSeg
  <2> QED BY <2>3, <2>5, <2>7, <2>8
<1> QED BY <1>1, <1>2, <1>3, <1>4 DEF Refresh

\* Nothing is aborted but by who stops the worker.
LEMMA FetchingCalm ==
  ASSUME StreamInv, CalmInv, "body" \notin Faults, Publish \/ PrefStops \/ PrefPicks \/ PrefFetched \/ PrefFails \/ ReadOpen \/ ReadCached \/ ReadMisses \/ ReadPastEnd \/ ReadFetched \/ ReadFetchFails \/ ReadServes \/ ReadDrainsMem \/ ReadDrainsHttp \/ Unprefetch \/ LoadVariant
  PROVE  CalmInv'
<1> USE DEF StreamInv, CalmInv, owners, fetching, shown, histories, External, At, Goes, Stopped, CanSeek
<1>0. th \in [Threads -> Locals] /\ sr \in Rings /\ hls \in Playlists
  BY DEF FieldsInv
<1>1. CASE Publish
  <2> USE <1>1 DEF Publish
  <2>1. SeekInv'
    BY <1>0 DEF SeekInv, StageInv, ProbeStages, Threads, Locals, Playlists, Rings
  <2>2. AbortIsLifted'
    BY <1>0 DEF AbortIsLifted, SeekInv, Threads, Locals
  <2> QED BY <2>1, <2>2
<1>2. CASE PrefStops
  <2> USE <1>2 DEF PrefStops
  <2>1. SeekInv'
    BY <1>0 DEF SeekInv, StageInv, ProbeStages, Threads, Locals, Playlists, Rings
  <2>2. AbortIsLifted'
    BY <1>0 DEF AbortIsLifted, SeekInv, Threads, Locals
  <2> QED BY <2>1, <2>2
<1>3. CASE PrefPicks
  <2> USE <1>3 DEF PrefPicks
  <2>1. SeekInv'
    BY <1>0 DEF SeekInv, StageInv, ProbeStages, Threads, Locals, Playlists, Rings
  <2>2. AbortIsLifted'
    BY <1>0 DEF AbortIsLifted, SeekInv, Threads, Locals
  <2> QED BY <2>1, <2>2
<1>4. CASE PrefFetched
  <2> USE <1>4 DEF PrefFetched
  <2>1. SeekInv'
    BY <1>0 DEF SeekInv, StageInv, ProbeStages, Threads, Locals, Playlists, Rings
  <2>2. AbortIsLifted'
    BY <1>0 DEF AbortIsLifted, SeekInv, Threads, Locals
  <2> QED BY <2>1, <2>2
<1>5. CASE PrefFails
  <2> USE <1>5 DEF PrefFails, FailsOn, Fault
  <2>1. SeekInv'
    BY <1>0 DEF SeekInv, StageInv, ProbeStages, Threads, Locals, Playlists, Rings
  <2>2. AbortIsLifted'
    BY <1>0 DEF AbortIsLifted, SeekInv, Threads, Locals
  <2> QED BY <2>1, <2>2
<1>6. CASE ReadOpen
  <2> USE <1>6 DEF ReadOpen, Begins, NoItem, Item, Serving
  <2>1. SeekInv'
    BY <1>0 DEF SeekInv, StageInv, ProbeStages, Threads, Locals, Playlists, Rings
  <2>2. AbortIsLifted'
    BY <1>0 DEF AbortIsLifted, SeekInv, Threads, Locals
  <2> QED BY <2>1, <2>2
<1>7. CASE ReadCached
  <2> USE <1>7 DEF ReadCached, Begins, NoItem, Item, Serving
  <2>1. SeekInv'
    BY <1>0 DEF SeekInv, StageInv, ProbeStages, Threads, Locals, Playlists, Rings
  <2>2. AbortIsLifted'
    BY <1>0 DEF AbortIsLifted, SeekInv, Threads, Locals
  <2> QED BY <2>1, <2>2
<1>8. CASE ReadMisses
  <2> USE <1>8 DEF ReadMisses
  <2>1. SeekInv'
    BY <1>0 DEF SeekInv, StageInv, ProbeStages, Threads, Locals, Playlists, Rings
  <2>2. AbortIsLifted'
    BY <1>0 DEF AbortIsLifted, SeekInv, Threads, Locals
  <2> QED BY <2>1, <2>2
<1>9. CASE ReadPastEnd
  <2> USE <1>9 DEF ReadPastEnd, Refreshes
  <2>1. SeekInv'
    BY <1>0 DEF SeekInv, StageInv, ProbeStages, Threads, Locals, Playlists, Rings
  <2>2. AbortIsLifted'
    BY <1>0 DEF AbortIsLifted, SeekInv, Threads, Locals
  <2> QED BY <2>1, <2>2
<1>10. CASE ReadFetched
  <2> USE <1>10 DEF ReadFetched, Begins, NoItem, Item, Serving
  <2>1. SeekInv'
    BY <1>0 DEF SeekInv, StageInv, ProbeStages, Threads, Locals, Playlists, Rings
  <2>2. AbortIsLifted'
    BY <1>0 DEF AbortIsLifted, SeekInv, Threads, Locals
  <2> QED BY <2>1, <2>2
<1>11. CASE ReadFetchFails
  <2> USE <1>11 DEF ReadFetchFails, FailsOn, Fault, Refreshes
  <2>1. SeekInv'
    BY <1>0, SMTT(40) DEF SeekInv, StageInv, ProbeStages, Threads, Locals, Playlists, Rings
  <2>2. AbortIsLifted'
    BY <1>0 DEF AbortIsLifted, SeekInv, Threads, Locals
  <2> QED BY <2>1, <2>2
<1>12. CASE ReadServes
  <2> USE <1>12 DEF ReadServes, NoItem, Item
  <2>1. SeekInv'
    BY <1>0 DEF SeekInv, StageInv, ProbeStages, Threads, Locals, Playlists, Rings
  <2>2. AbortIsLifted'
    BY <1>0 DEF AbortIsLifted, SeekInv, Threads, Locals
  <2> QED BY <2>1, <2>2
<1>13. CASE ReadDrainsMem
  <2> USE <1>13 DEF ReadDrainsMem, Advanced
  <2>1. SeekInv'
    BY <1>0 DEF SeekInv, StageInv, ProbeStages, Threads, Locals, Playlists, Rings
  <2>2. AbortIsLifted'
    BY <1>0 DEF AbortIsLifted, SeekInv, Threads, Locals
  <2> QED BY <2>1, <2>2
<1>14. CASE ReadDrainsHttp
  <2> USE <1>14 DEF ReadDrainsHttp, FailsOn, Fault, Advanced
  <2>1. SeekInv'
    BY <1>0 DEF SeekInv, StageInv, ProbeStages, Threads, Locals, Playlists, Rings
  <2>2. AbortIsLifted'
    BY <1>0 DEF AbortIsLifted, SeekInv, Threads, Locals
  <2> QED BY <2>1, <2>2
<1>15. CASE Unprefetch
  <2> USE <1>15 DEF Unprefetch, PrefAsked, PrefAborts
  <2>1. SeekInv'
    BY <1>0 DEF SeekInv, StageInv, ProbeStages, Threads, Locals, Playlists, Rings
  <2>2. AbortIsLifted'
    BY <1>0 DEF AbortIsLifted, SeekInv, Threads, Locals
  <2> QED BY <2>1, <2>2
<1>16. CASE LoadVariant
  <2> USE <1>16 DEF LoadVariant, FailsOn, Fault, Lifted, Aligned, Emptied
  <2>1. SeekInv'
    BY <1>0 DEF SeekInv, StageInv, ProbeStages, Threads, Locals, Playlists, Rings
  <2>2. AbortIsLifted'
    BY <1>0 DEF AbortIsLifted, SeekInv, Threads, Locals
  <2> QED BY <2>1, <2>2
<1> QED BY <1>1, <1>2, <1>3, <1>4, <1>5, <1>6, <1>7, <1>8, <1>9, <1>10, <1>11, <1>12, <1>13, <1>14, <1>15, <1>16

\* The threads that fetch abort nothing.
LEMMA ThreadsCalm ==
  ASSUME StreamInv, CalmInv, "body" \notin Faults, NEW t \in Threads, NextStopped(t) \/ NextPastEnd(t) \/ NextFetches(t) \/ NextFetched(t) \/ NextFails(t) \/ WaitOver(t) \/ GivesUp(t)
  PROVE  CalmInv'
<1> USE DEF StreamInv, CalmInv, owners, fetching, shown, histories, External, At, Goes, Stopped, CanSeek
<1>0. th \in [Threads -> Locals] /\ sr \in Rings /\ hls \in Playlists
  BY DEF FieldsInv
<1>1. CASE NextStopped(t)
  <2> USE <1>1 DEF NextStopped
  <2>1. SeekInv'
    BY <1>0 DEF SeekInv, StageInv, ProbeStages, Threads, Locals, Playlists, Rings
  <2>2. AbortIsLifted'
    BY <1>0 DEF AbortIsLifted, SeekInv, Threads, Locals
  <2> QED BY <2>1, <2>2
<1>2. CASE NextPastEnd(t)
  <2> USE <1>2 DEF NextPastEnd, Refreshes
  <2>1. SeekInv'
    BY <1>0 DEF SeekInv, StageInv, ProbeStages, Threads, Locals, Playlists, Rings
  <2>2. AbortIsLifted'
    BY <1>0 DEF AbortIsLifted, SeekInv, Threads, Locals
  <2> QED BY <2>1, <2>2
<1>3. CASE NextFetches(t)
  <2> USE <1>3 DEF NextFetches
  <2>1. SeekInv'
    BY <1>0 DEF SeekInv, StageInv, ProbeStages, Threads, Locals, Playlists, Rings
  <2>2. AbortIsLifted'
    BY <1>0 DEF AbortIsLifted, SeekInv, Threads, Locals
  <2> QED BY <2>1, <2>2
<1>4. CASE NextFetched(t)
  <2> USE <1>4 DEF NextFetched, Item, InRead, Advanced
  <2>1. SeekInv'
    BY <1>0 DEF SeekInv, StageInv, ProbeStages, Threads, Locals, Playlists, Rings
  <2>2. AbortIsLifted'
    BY <1>0 DEF AbortIsLifted, SeekInv, Threads, Locals
  <2> QED BY <2>1, <2>2
<1>5. CASE NextFails(t)
  <2> USE <1>5 DEF NextFails, InRead, FailsOn, Fault, Refreshes
  <2>1. SeekInv'
    BY <1>0 DEF SeekInv, StageInv, ProbeStages, Threads, Locals, Playlists, Rings
  <2>2. AbortIsLifted'
    BY <1>0 DEF AbortIsLifted, SeekInv, Threads, Locals
  <2> QED BY <2>1, <2>2
<1>6. CASE WaitOver(t)
  <2> USE <1>6 DEF WaitOver, InRead
  <2>1. SeekInv'
    BY <1>0 DEF SeekInv, StageInv, ProbeStages, Threads, Locals, Playlists, Rings
  <2>2. AbortIsLifted'
    BY <1>0 DEF AbortIsLifted, SeekInv, Threads, Locals
  <2> QED BY <2>1, <2>2
<1>7. CASE GivesUp(t)
  <2> USE <1>7 DEF GivesUp, InRead
  <2>1. SeekInv'
    BY <1>0 DEF SeekInv, StageInv, ProbeStages, Threads, Locals, Playlists, Rings
  <2>2. AbortIsLifted'
    BY <1>0 DEF AbortIsLifted, SeekInv, Threads, Locals
  <2> QED BY <2>1, <2>2
<1> QED BY <1>1, <1>2, <1>3, <1>4, <1>5, <1>6, <1>7

\* Nor does who plays.
LEMMA RingCalm ==
  ASSUME StreamInv, CalmInv, "body" \notin Faults, ProbeReads \/ ProbeFails \/ Probed \/ Detached \/ StartsReadAhead \/ FetcherPushes \/ FetcherGoesOn \/ FetcherStops \/ LoopStops \/ LoopReopens \/ LoopReads \/ Decoded \/ ReadsEnd \/ LoopPops \/ Pops \/ PopsNothing \/ Decodes \/ NothingToDecode
  PROVE  CalmInv'
<1> USE DEF StreamInv, CalmInv, owners, fetching, shown, histories, External, At, Goes, Stopped, CanSeek
<1>0. th \in [Threads -> Locals] /\ sr \in Rings /\ hls \in Playlists
  BY DEF FieldsInv
<1>1. CASE ProbeReads
  <2> USE <1>1 DEF ProbeReads
  <2>1. SeekInv'
    BY <1>0 DEF SeekInv, StageInv, ProbeStages, Threads, Locals, Playlists, Rings
  <2>2. AbortIsLifted'
    BY <1>0 DEF AbortIsLifted, SeekInv, Threads, Locals
  <2> QED BY <2>1, <2>2
<1>2. CASE ProbeFails
  <2> USE <1>2 DEF ProbeFails
  <2>1. SeekInv'
    BY <1>0 DEF SeekInv, StageInv, ProbeStages, Threads, Locals, Playlists, Rings
  <2>2. AbortIsLifted'
    BY <1>0 DEF AbortIsLifted, SeekInv, Threads, Locals
  <2> QED BY <2>1, <2>2
<1>3. CASE Probed
  <2> USE <1>3 DEF Probed
  <2>1. SeekInv'
    BY <1>0 DEF SeekInv, StageInv, ProbeStages, Threads, Locals, Playlists, Rings
  <2>2. AbortIsLifted'
    BY <1>0 DEF AbortIsLifted, SeekInv, Threads, Locals
  <2> QED BY <2>1, <2>2
<1>4. CASE Detached
  <2> USE <1>4 DEF Detached, Lifted
  <2>1. SeekInv'
    BY <1>0 DEF SeekInv, StageInv, ProbeStages, Threads, Locals, Playlists, Rings
  <2>2. AbortIsLifted'
    BY <1>0 DEF AbortIsLifted, SeekInv, Threads, Locals
  <2> QED BY <2>1, <2>2
<1>5. CASE StartsReadAhead
  <2> USE <1>5 DEF StartsReadAhead, Begins, NoItem, Item
  <2>1. SeekInv'
    <3>1. PICK up \in BOOLEAN :
            /\ sr' = [up |-> up, stop |-> FALSE, items |-> <<>>]
            /\ th' = [th EXCEPT !.reader = Begins("loop"), !.fetcher = Begins(IF up THEN "next" ELSE "off")]
            /\ stopper' = stopper /\ hls' = hls
      OBVIOUS
    <3>2. sr'.up = up
      BY <3>1
    <3>3. th.reader.at = "start"
      OBVIOUS
    <3>4. CASE up
      <4>1. th' = [th EXCEPT !.reader = Begins("loop"), !.fetcher = Begins("next")]
        BY <3>1, <3>4
      <4> HIDE DEF StartsReadAhead
      <4> QED BY <1>0, <3>1, <3>2, <3>3, <3>4, <4>1 DEF SeekInv, Threads
    <3>5. CASE ~up
      <4>1. th' = [th EXCEPT !.reader = Begins("loop"), !.fetcher = Begins("off")]
        BY <3>1, <3>5
      <4> HIDE DEF StartsReadAhead
      <4> QED BY <1>0, <3>1, <3>3, <3>5, <4>1 DEF SeekInv, Threads
    <3> QED BY <3>4, <3>5
  <2>2. AbortIsLifted'
    BY <1>0 DEF AbortIsLifted, SeekInv, Threads, Locals
  <2> QED BY <2>1, <2>2
<1>6. CASE FetcherPushes
  <2> USE <1>6 DEF FetcherPushes, Begins, NoItem, Item
  <2>1. SeekInv'
    BY <1>0 DEF SeekInv, StageInv, ProbeStages, Threads, Locals, Playlists, Rings
  <2>2. AbortIsLifted'
    BY <1>0 DEF AbortIsLifted, SeekInv, Threads, Locals
  <2> QED BY <2>1, <2>2
<1>7. CASE FetcherGoesOn
  <2> USE <1>7 DEF FetcherGoesOn, Begins, NoItem, Item
  <2>1. SeekInv'
    BY <1>0 DEF SeekInv, StageInv, ProbeStages, Threads, Locals, Playlists, Rings
  <2>2. AbortIsLifted'
    BY <1>0 DEF AbortIsLifted, SeekInv, Threads, Locals
  <2> QED BY <2>1, <2>2
<1>8. CASE FetcherStops
  <2> USE <1>8 DEF FetcherStops, Begins, NoItem, Item
  <2>1. SeekInv'
    BY <1>0 DEF SeekInv, StageInv, ProbeStages, Threads, Locals, Playlists, Rings
  <2>2. AbortIsLifted'
    BY <1>0 DEF AbortIsLifted, SeekInv, Threads, Locals
  <2> QED BY <2>1, <2>2
<1>9. CASE LoopStops
  <2> USE <1>9 DEF LoopStops, Begins, NoItem, Item
  <2>1. SeekInv'
    BY <1>0 DEF SeekInv, StageInv, ProbeStages, Threads, Locals, Playlists, Rings
  <2>2. AbortIsLifted'
    BY <1>0 DEF AbortIsLifted, SeekInv, Threads, Locals
  <2> QED BY <2>1, <2>2
<1>10. CASE LoopReopens
  <2> USE <1>10 DEF LoopReopens, Idling
  <2>1. SeekInv'
    BY <1>0 DEF SeekInv, StageInv, ProbeStages, Threads, Locals, Playlists, Rings
  <2>2. AbortIsLifted'
    BY <1>0 DEF AbortIsLifted, SeekInv, Threads, Locals
  <2> QED BY <2>1, <2>2
<1>11. CASE LoopReads
  <2> USE <1>11 DEF LoopReads, Begins, NoItem, Item, Looping
  <2>1. SeekInv'
    BY <1>0 DEF SeekInv, StageInv, ProbeStages, Threads, Locals, Playlists, Rings
  <2>2. AbortIsLifted'
    BY <1>0 DEF AbortIsLifted, SeekInv, Threads, Locals
  <2> QED BY <2>1, <2>2
<1>12. CASE Decoded
  <2> USE <1>12 DEF Decoded
  <2>1. SeekInv'
    BY <1>0 DEF SeekInv, StageInv, ProbeStages, Threads, Locals, Playlists, Rings
  <2>2. AbortIsLifted'
    BY <1>0 DEF AbortIsLifted, SeekInv, Threads, Locals
  <2> QED BY <2>1, <2>2
<1>13. CASE ReadsEnd
  <2> USE <1>13 DEF ReadsEnd
  <2>1. SeekInv'
    BY <1>0 DEF SeekInv, StageInv, ProbeStages, Threads, Locals, Playlists, Rings
  <2>2. AbortIsLifted'
    BY <1>0 DEF AbortIsLifted, SeekInv, Threads, Locals
  <2> QED BY <2>1, <2>2
<1>14. CASE LoopPops
  <2> USE <1>14 DEF LoopPops, Begins, NoItem, Item, Looping
  <2>1. SeekInv'
    BY <1>0 DEF SeekInv, StageInv, ProbeStages, Threads, Locals, Playlists, Rings
  <2>2. AbortIsLifted'
    BY <1>0 DEF AbortIsLifted, SeekInv, Threads, Locals
  <2> QED BY <2>1, <2>2
<1>15. CASE Pops
  <2> USE <1>15 DEF Pops
  <2>1. SeekInv'
    BY <1>0 DEF SeekInv, StageInv, ProbeStages, Threads, Locals, Playlists, Rings
  <2>2. AbortIsLifted'
    BY <1>0 DEF AbortIsLifted, SeekInv, Threads, Locals
  <2> QED BY <2>1, <2>2
<1>16. CASE PopsNothing
  <2> USE <1>16 DEF PopsNothing
  <2>1. SeekInv'
    BY <1>0 DEF SeekInv, StageInv, ProbeStages, Threads, Locals, Playlists, Rings
  <2>2. AbortIsLifted'
    BY <1>0 DEF AbortIsLifted, SeekInv, Threads, Locals
  <2> QED BY <2>1, <2>2
<1>17. CASE Decodes
  <2> USE <1>17 DEF Decodes, Begins, NoItem, Item
  <2>1. SeekInv'
    BY <1>0 DEF SeekInv, StageInv, ProbeStages, Threads, Locals, Playlists, Rings
  <2>2. AbortIsLifted'
    BY <1>0 DEF AbortIsLifted, SeekInv, Threads, Locals
  <2> QED BY <2>1, <2>2
<1>18. CASE NothingToDecode
  <2> USE <1>18 DEF NothingToDecode, Begins, NoItem, Item
  <2>1. SeekInv'
    BY <1>0 DEF SeekInv, StageInv, ProbeStages, Threads, Locals, Playlists, Rings
  <2>2. AbortIsLifted'
    BY <1>0 DEF AbortIsLifted, SeekInv, Threads, Locals
  <2> QED BY <2>1, <2>2
<1> QED BY <1>1, <1>2, <1>3, <1>4, <1>5, <1>6, <1>7, <1>8, <1>9, <1>10, <1>11, <1>12, <1>13, <1>14, <1>15, <1>16, <1>17, <1>18

\* The list that a refresh had lost is there again before a seek moves in it.
LEMMA RefreshCalm ==
  ASSUME StreamInv, CalmInv, "body" \notin Faults, NEW t \in Threads, Refresh(t)
  PROVE  CalmInv'
<1> USE DEF StreamInv, CalmInv, owners, shown, histories
<1>1. /\ th \in [Threads -> Locals] /\ UNCHANGED <<kind, phase, sr, stopper>>
      /\ th[t].at \in {"refresh", "parse"}
  BY DEF FieldsInv, Refresh, RefreshFails, RefreshFetched, RefreshParsed, RefreshUnparsed, At
<1>2. /\ th'[t].at \notin {"off", "failed", "halt", "join", "move", "variant", "detaching"}
      /\ \A u \in Threads : u # t => th'[u] = th[u]
  <2>1. CASE RefreshFetched(t)
    BY <1>1, <2>1 DEF RefreshFetched, Locals
  <2>2. ASSUME NEW ok \in BOOLEAN, NEW live \in BOOLEAN, AfterRefresh(t, ok, live)
        PROVE  /\ th'[t].at \in {"fetch", "ended", "wait"}
               /\ \A u \in Threads : u # t => th'[u] = th[u]
    BY <1>1, <2>2, Returned
  <2>3. CASE RefreshFails(t)
    <3>1. AfterRefresh(t, FALSE, hls.live) /\ hls.live \in BOOLEAN
      BY <2>3 DEF RefreshFails, FieldsInv, Playlists
    <3> QED BY <2>2, <3>1
  <2>4. CASE RefreshParsed(t)
    <3>1. hls' \in Playlists /\ AfterRefresh(t, hls'.idx < hls'.count, hls'.live)
      BY <2>4, RefreshKeeps DEF RefreshParsed, Refresh, FieldsInv
    <3>2. (hls'.idx < hls'.count) \in BOOLEAN /\ hls'.live \in BOOLEAN
      BY <3>1 DEF Playlists
    <3> QED BY <2>2, <3>1, <3>2
  <2> QED BY <2>1, <2>3, <2>4 DEF Refresh, RefreshUnparsed, Fault
<1>3. aborted' => aborted
  BY DEF Refresh, RefreshFails, RefreshFetched, RefreshParsed, RefreshUnparsed, Resumed, Lifted,
         fetching, FieldsInv
<1>4. \A u \in Threads : th'[u].at \in {"off", "failed", "halt", "join", "move", "variant", "detaching"}
        => u # t /\ th'[u] = th[u]
  BY <1>2
<1>5. \A u \in Threads : th[u].at \in {"off", "failed", "halt", "join", "move", "variant", "detaching"}
        => u # t /\ th'[u] = th[u]
  BY <1>1, <1>2
<1>6. th'.reader.at \in {"halt", "join", "move"} => (CanSeek \/ At("fetcher", "parse"))'
  <2> SUFFICES ASSUME th'.reader.at \in {"halt", "join", "move"}
               PROVE  hls'.count > 0 \/ th'.fetcher.at = "parse"
    BY DEF CanSeek, At
  <2>1. t = "fetcher" /\ th'.reader = th.reader
    BY <1>4 DEF Threads
  <2>2. hls.count > 0 \/ th.fetcher.at = "parse"
    BY <2>1 DEF SeekInv, CanSeek, At
  <2>3. CASE RefreshFails(t)
    <3>1. hls' = hls /\ th.fetcher.at = "refresh"
      BY <2>1, <2>3 DEF RefreshFails, At
    <3> QED BY <2>2, <3>1
  <2>4. CASE RefreshFetched(t)
    BY <1>1, <2>1, <2>4 DEF RefreshFetched, Locals
  <2>5. CASE RefreshParsed(t)
    <3>1. PICK behind \in 0 .. 1 : behind <= srv.first /\ hls' = Reindexed(th[t].next, Listed(behind))
      BY <2>5 DEF RefreshParsed
    <3>2. th[t].next \in Int
      BY <1>1 DEF Locals
    <3>3. Reindexed(th[t].next, Listed(behind)).count > 0
      BY <3>1, <3>2, Lists DEF FieldsInv
    <3> QED BY <3>1, <3>3
  <2> QED BY <2>3, <2>4, <2>5 DEF Refresh, RefreshUnparsed, Fault
<1>7. SeekInv'
  BY <1>1, <1>4, <1>5, <1>6 DEF SeekInv, At, Threads
<1>8. AbortIsLifted'
  BY <1>1, <1>3, <1>5 DEF AbortIsLifted, Stopped, Threads
<1> QED BY <1>7, <1>8

\* A seek lifts what it raised, and a stop ends it all.
LEMMA SeekingCalm ==
  ASSUME StreamInv, CalmInv, "body" \notin Faults, SeekTaken \/ SeekHalts \/ SeekJoins \/ SeekMoves \/ SeekLost \/ AsksSeek \/ StopFlags \/ StopSignals \/ StopJoins \/ StopRing \/ StopClosed
  PROVE  CalmInv'
<1> USE DEF StreamInv, CalmInv, owners, fetching, shown, histories, External, At, Goes, Stopped, CanSeek
<1>0. th \in [Threads -> Locals] /\ sr \in Rings /\ hls \in Playlists
  BY DEF FieldsInv
<1>1. CASE SeekTaken
  <2> USE <1>1 DEF SeekTaken, Idling
  <2>1. SeekInv'
    BY <1>0 DEF SeekInv, StageInv, ProbeStages, Threads, Locals, Playlists, Rings
  <2>2. AbortIsLifted'
    BY <1>0 DEF AbortIsLifted, SeekInv, Threads, Locals
  <2> QED BY <2>1, <2>2
<1>2. CASE SeekHalts
  <2> USE <1>2 DEF SeekHalts, Halted
  <2>1. SeekInv'
    BY <1>0 DEF SeekInv, StageInv, ProbeStages, Threads, Locals, Playlists, Rings
  <2>2. AbortIsLifted'
    BY <1>0 DEF AbortIsLifted, SeekInv, Threads, Locals
  <2> QED BY <2>1, <2>2
<1>3. CASE SeekJoins
  <2> USE <1>3 DEF SeekJoins
  <2>1. SeekInv'
    BY <1>0 DEF SeekInv, StageInv, ProbeStages, Threads, Locals, Playlists, Rings
  <2>2. AbortIsLifted'
    BY <1>0 DEF AbortIsLifted, SeekInv, Threads, Locals
  <2> QED BY <2>1, <2>2
<1>4. CASE SeekMoves
  <2> USE <1>4 DEF SeekMoves, NoItem, Item, Lifted, Least
  <2>1. SeekInv'
    BY <1>0 DEF SeekInv, StageInv, ProbeStages, Threads, Locals, Playlists, Rings
  <2>2. AbortIsLifted'
    BY <1>0 DEF AbortIsLifted, SeekInv, Threads, Locals
  <2> QED BY <2>1, <2>2
<1>5. CASE SeekLost
  <2> USE <1>5 DEF SeekLost
  <2>1. SeekInv'
    BY <1>0 DEF SeekInv, StageInv, ProbeStages, Threads, Locals, Playlists, Rings
  <2>2. AbortIsLifted'
    BY <1>0 DEF AbortIsLifted, SeekInv, Threads, Locals
  <2> QED BY <2>1, <2>2
<1>6. CASE AsksSeek
  <2> USE <1>6 DEF AsksSeek
  <2>1. SeekInv'
    BY <1>0 DEF SeekInv, StageInv, ProbeStages, Threads, Locals, Playlists, Rings
  <2>2. AbortIsLifted'
    BY <1>0 DEF AbortIsLifted, SeekInv, Threads, Locals
  <2> QED BY <2>1, <2>2
<1>7. CASE StopFlags
  <2> USE <1>7 DEF StopFlags, NoItem, Item
  <2>1. SeekInv'
    BY <1>0 DEF SeekInv, StageInv, ProbeStages, Threads, Locals, Playlists, Rings
  <2>2. AbortIsLifted'
    BY <1>0 DEF AbortIsLifted, SeekInv, Threads, Locals
  <2> QED BY <2>1, <2>2
<1>8. CASE StopSignals
  <2> USE <1>8 DEF StopSignals
  <2>1. SeekInv'
    BY <1>0 DEF SeekInv, StageInv, ProbeStages, Threads, Locals, Playlists, Rings
  <2>2. AbortIsLifted'
    BY <1>0 DEF AbortIsLifted, SeekInv, Threads, Locals
  <2> QED BY <2>1, <2>2
<1>9. CASE StopJoins
  <2> USE <1>9 DEF StopJoins, Halted
  <2>1. SeekInv'
    BY <1>0 DEF SeekInv, StageInv, ProbeStages, Threads, Locals, Playlists, Rings
  <2>2. AbortIsLifted'
    BY <1>0 DEF AbortIsLifted, SeekInv, Threads, Locals
  <2> QED BY <2>1, <2>2
<1>10. CASE StopRing
  <2> USE <1>10 DEF StopRing, PrefAsked, PrefAborts
  <2>1. SeekInv'
    BY <1>0 DEF SeekInv, StageInv, ProbeStages, Threads, Locals, Playlists, Rings
  <2>2. AbortIsLifted'
    BY <1>0 DEF AbortIsLifted, SeekInv, Threads, Locals
  <2> QED BY <2>1, <2>2
<1>11. CASE StopClosed
  <2> USE <1>11 DEF StopClosed, Emptied
  <2>1. SeekInv'
    BY <1>0 DEF SeekInv, StageInv, ProbeStages, Threads, Locals, Playlists, Rings
  <2>2. AbortIsLifted'
    BY <1>0 DEF AbortIsLifted, SeekInv, Threads, Locals
  <2> QED BY <2>1, <2>2
<1> QED BY <1>1, <1>2, <1>3, <1>4, <1>5, <1>6, <1>7, <1>8, <1>9, <1>10, <1>11

\* What is on the stream stays so, whichever thread takes the step.
LEMMA StreamStep == ASSUME StreamInv, [Next]_vars PROVE StreamInv'
<1>1. CASE Prefetch
  BY <1>1, PrefetchKeeps DEF Prefetch
<1>2. CASE Reading
  BY <1>2, OpeningKeeps, ReadingKeeps DEF Reading
<1>3. CASE Probing
  BY <1>3, ProbingKeeps DEF Probing
<1>4. CASE FetcherRuns \/ Decoding
  BY <1>4, RingKeeps, LoopKeeps DEF FetcherRuns, Decoding
<1>5. CASE Seeking \/ AsksSeek
  BY <1>5, SeekingKeeps DEF Seeking
<1>6. CASE Stopping
  BY <1>6, StoppingKeeps DEF Stopping
<1>7. ASSUME NEW t \in Threads, Steps(t) PROVE StreamInv'
  BY <1>7, RefreshKeeps, NextKeeps, WaitsKeep DEF Steps, NextSegment, Waits
<1>8. CASE UNCHANGED vars
  BY <1>8 DEF vars, StreamInv, FieldsInv, StageInv, OwnerInv, NothingIsMisnamed, NothingAhead,
              NoneOpen, External, At, Holds
<1> QED BY <1>1, <1>2, <1>3, <1>4, <1>5, <1>6, <1>7, <1>8, PublishKeeps DEF Next

\* Nor is an abort forgotten, if every playlist that comes can be parsed.
LEMMA CalmStep == ASSUME StreamInv, CalmInv, "body" \notin Faults, [Next]_vars PROVE CalmInv'
<1>1. CASE Publish \/ Prefetch \/ Reading
  BY <1>1, FetchingCalm DEF Prefetch, Reading
<1>2. CASE Probing \/ FetcherRuns \/ Decoding
  BY <1>2, RingCalm DEF Probing, FetcherRuns, Decoding
<1>3. CASE Seeking \/ AsksSeek \/ Stopping
  BY <1>3, SeekingCalm DEF Seeking, Stopping
<1>4. ASSUME NEW t \in Threads, Steps(t) PROVE CalmInv'
  BY <1>4, RefreshCalm, ThreadsCalm DEF Steps, NextSegment, Waits
<1>5. CASE UNCHANGED vars
  BY <1>5 DEF vars, CalmInv, SeekInv, AbortIsLifted, CanSeek, At, Stopped
<1> QED BY <1>1, <1>2, <1>3, <1>4, <1>5 DEF Next

-----------------------------------------------------------------------------

\* What the buffer, the connection and the worker's slots hold is the segment
\* that its place in the playlist names, for every window, depth, ring and
\* number of faults: a list is only ever replaced when nothing of it is held.
THEOREM NamesInvariant == Spec => []NothingIsMisnamed
<1>1. StreamInv /\ [Next]_vars => StreamInv'
  BY StreamStep
<1>2. StreamInv => NothingIsMisnamed
  BY DEF StreamInv
<1> QED BY InitHolds, <1>1, <1>2, PTL DEF Spec

\* The sticky abort of aseg is down again before anybody fetches, for every
\* window, ring and number of failed fetches, if every playlist that comes can
\* be parsed: a seek that found the list lost would return without lifting it.
THEOREM AbortInvariant ==
  ASSUME "body" \notin Faults
  PROVE  Spec => []AbortIsLifted
<1>1. Init => CalmInv
  BY DEF Init, CalmInv, SeekInv, AbortIsLifted, At, Begins
<1>2. StreamInv /\ CalmInv /\ [Next]_vars => StreamInv' /\ CalmInv'
  BY StreamStep, CalmStep
<1>3. CalmInv => AbortIsLifted
  BY DEF CalmInv
<1> QED BY InitHolds, <1>1, <1>2, <1>3, PTL DEF Spec

-----------------------------------------------------------------------------
(* The order of the segments.  What the decoder is given next comes first   *)
(* of: the segment in its hand, the ring's, the one in the fetch thread's   *)
(* hand, and the one to be fetched.                                         *)

\* The number of the segment to be fetched; while a list is parsed it is kept
\* by whoever parses.
NextSeg ==
  IF At("reader", "parse") THEN th.reader.next
  ELSE IF At("fetcher", "parse") THEN th.fetcher.next ELSE Holds(hls.idx)
Future == Item(NextSeg, hls.reset)
AfterRing == IF At("fetcher", "item") THEN th.fetcher.item ELSE Future
AfterReader == IF sr.items # <<>> THEN Head(sr.items) ELSE AfterRing
AfterSeen == IF At("reader", "item") THEN th.reader.item ELSE AfterReader

\* What y may be for x to be decoded right before it.
Leads(x, y) ==
  \/ x.gen < y.gen
  \/ x.gen = y.gen /\ (y.seg = x.seg + 1 \/ (used.seeks > 0 /\ x.seg < y.seg))

Counts == [faults : Nat, shifts : Nat, seeks : Nat]
HistoryTypes ==
  seen \in [item : Items, again : BOOLEAN] /\ goal \in Items /\ used \in Counts

\* Who has the ring.  Only one thread fetches, and the ring is stopped only for
\* a seek, which throws away what is on its way.
ReaderFetches == {"next", "fetch", "refresh", "parse", "wait"}
Cut == th.reader.at \in {"join", "move"}
RingInv ==
  /\ ~sr.up => sr.items = <<>>
  /\ External /\ th.reader.at \in ReaderFetches => ~sr.up
  /\ ~External \/ th.reader.at \in {"move", "start"} => ~sr.up
  /\ sr.stop => th.reader.at \in {"join", "move", "start"}
  /\ th.reader.at \in {"unprefetch", "variant"} => ~kind.fmp4
  /\ At("reader", "serve") => ~NoneOpen
  /\ seek >= 0 => used.seeks > 0

\* Nothing is ahead of the server.
EdgeInv ==
  /\ NextSeg <= srv.last + 1 /\ hls.seq + hls.count <= srv.last + 1
  /\ \A u \in {src.mem, src.http} : u = NoUnit \/ u.seg = InitSeg \/ u.seg \in 0 .. srv.last

\* Generations are given out in turn.
GenInv ==
  /\ seen.item.gen <= hls.reset
  /\ At("reader", "item") => th.reader.item.gen <= hls.reset
  /\ At("fetcher", "item") => th.fetcher.item.gen <= hls.reset
  /\ \A i \in DOMAIN sr.items : sr.items[i].gen <= hls.reset

\* Each on its way leads to the next.
WayInv ==
  /\ seen # NoneSeen /\ External => Leads(seen.item, AfterSeen)
  /\ At("reader", "item") => Leads(th.reader.item, AfterReader)
  /\ \A i \in 1 .. Len(sr.items) - 1 : Leads(sr.items[i], sr.items[i + 1])
  /\ sr.items # <<>> => Leads(sr.items[Len(sr.items)], AfterRing)
  /\ At("fetcher", "item") => Leads(th.fetcher.item, Future)

\* In hls_read what was decoded last may still be open.
Consumed == \E u \in {src.mem, src.http} : u.read /\ u.seg # InitSeg
ReadInv ==
  /\ phase = "probing" => seen = NoneSeen
  /\ ~External /\ seen # NoneSeen =>
       \/ seen.item.gen < hls.reset \/ seen.item.seg < NextSeg
       \/ seen.item.seg = NextSeg /\ Consumed

\* The first on its way after a seek is what the seek moved to.
Lands(x) == x.seg = goal.seg \/ (x.seg > goal.seg /\ x.gen > goal.gen)
GoalInv == goal # NoItem => External /\ goal.gen <= hls.reset /\ (~Cut => Lands(AfterSeen))

OrderParts ==
  HistoryTypes /\ RingInv /\ EdgeInv /\ GenInv /\ (~Cut => WayInv) /\ ReadInv /\ GoalInv
OrderInv == ~Stopped => OrderParts

-----------------------------------------------------------------------------

\* The types of what is on its way.
LEMMA WayTypes ==
  ASSUME FieldsInv
  PROVE  /\ NextSeg \in Int /\ Future \in Items /\ AfterRing \in Items
         /\ AfterReader \in Items /\ AfterSeen \in Items
         /\ \A t \in Threads : th[t].item \in Items
         /\ \A i \in DOMAIN sr.items : sr.items[i] \in Items
         /\ sr.items \in Seq(Items)
<1>1. th \in [Threads -> Locals] /\ hls \in Playlists /\ sr \in Rings
  BY DEF FieldsInv
<1>2. \A t \in Threads : th[t].item \in Items /\ th[t].next \in Nat
  BY <1>1 DEF Locals
<1>3. NextSeg \in Int
  BY <1>1, <1>2 DEF NextSeg, Holds, Playlists, Threads
<1>4. hls.reset \in Int
  BY <1>1 DEF Playlists
<1>5. Future \in Items
  BY <1>3, <1>4, Parts DEF Future
<1>6. sr.items \in Seq(Items)
  BY <1>1 DEF Rings
<1>7. AfterRing \in Items
  BY <1>2, <1>5 DEF AfterRing, Threads
<1>8. AfterReader \in Items
  BY <1>6, <1>7 DEF AfterReader
<1>9. AfterSeen \in Items
  BY <1>2, <1>8 DEF AfterSeen, Threads
<1> QED BY <1>2, <1>3, <1>5, <1>6, <1>7, <1>8, <1>9

\* A later generation, or the same and a seek, leaves the order as it is.
LEMMA LeadsOn ==
  ASSUME used \in Counts, used' \in Counts, used'.seeks >= used.seeks
  PROVE  \A x, y, z \in Items :
           /\ Leads(x, y) => Leads(x, y)'
           /\ Leads(x, y) /\ y.gen < z.gen => Leads(x, z)'
           /\ Leads(x, y) /\ Leads(y, z) /\ used.seeks > 0 => Leads(x, z)'
<1> SUFFICES ASSUME NEW x \in Items, NEW y \in Items, NEW z \in Items
             PROVE  /\ Leads(x, y) => Leads(x, y)'
                    /\ Leads(x, y) /\ y.gen < z.gen => Leads(x, z)'
                    /\ Leads(x, y) /\ Leads(y, z) /\ used.seeks > 0 => Leads(x, z)'
  OBVIOUS
<1>1. /\ x.gen \in Int /\ y.gen \in Int /\ z.gen \in Int
      /\ x.seg \in Int /\ y.seg \in Int /\ z.seg \in Int
  BY DEF Items
<1>2. used.seeks \in Nat /\ used'.seeks \in Nat
  BY DEF Counts
<1> QED BY <1>1, <1>2 DEF Leads

\* Nothing on its way has moved.
LEMMA WayKept ==
  ASSUME FieldsInv, OrderParts, External' = External, UNCHANGED <<seen, goal, sr>>,
         used' \in Counts, used'.seeks >= used.seeks,
         NextSeg' = NextSeg, hls'.reset = hls.reset, Cut => Cut',
         \A t \in Threads : /\ th'[t].at = "item" <=> th[t].at = "item"
                            /\ th[t].at = "item" => th'[t].item = th[t].item
  PROVE  HistoryTypes' /\ GenInv' /\ (~Cut => WayInv)' /\ GoalInv'
<1>1. HistoryTypes'
  BY DEF OrderParts, HistoryTypes
<1>2. /\ \A t \in {"reader", "fetcher"} : /\ th'[t].at = "item" <=> th[t].at = "item"
                                          /\ th[t].at = "item" => th'[t].item = th[t].item
  BY DEF Threads
<1>3. Future' = Future
  BY DEF Future
<1>4. AfterRing' = AfterRing
  BY <1>2, <1>3 DEF AfterRing, At
<1>5. AfterReader' = AfterReader
  BY <1>4 DEF AfterReader
<1>6. AfterSeen' = AfterSeen
  BY <1>2, <1>5 DEF AfterSeen, At
<1>8. GenInv'
  BY <1>2 DEF GenInv, OrderParts, At
<1>9. GoalInv'
  BY <1>6 DEF GoalInv, OrderParts, Lands
<1>10. ASSUME ~Cut' PROVE WayInv'
  <2>1. WayInv /\ used \in Counts
    BY <1>10 DEF OrderParts, HistoryTypes
  <2>2. \A x, y \in Items : Leads(x, y) => Leads(x, y)'
    BY <2>1, LeadsOn
  <2>3. seen.item \in Items
    BY DEF OrderParts, HistoryTypes
  <2>4. (seen # NoneSeen /\ External => Leads(seen.item, AfterSeen))'
    BY <1>6, <2>1, <2>2, <2>3, WayTypes DEF WayInv
  <2>5. (At("reader", "item") => Leads(th.reader.item, AfterReader))'
    BY <1>2, <1>5, <2>1, <2>2, WayTypes DEF WayInv, At, Threads
  <2>6. (\A i \in 1 .. Len(sr.items) - 1 : Leads(sr.items[i], sr.items[i + 1]))'
    <3> SUFFICES ASSUME NEW i \in 1 .. Len(sr.items) - 1
                 PROVE  Leads(sr.items[i], sr.items[i + 1])'
      OBVIOUS
    <3>1. i \in DOMAIN sr.items /\ i + 1 \in DOMAIN sr.items
      BY WayTypes
    <3>2. sr.items[i] \in Items /\ sr.items[i + 1] \in Items
      BY <3>1, WayTypes
    <3>3. Leads(sr.items[i], sr.items[i + 1])
      BY <2>1 DEF WayInv
    <3> QED BY <2>2, <3>2, <3>3
  <2>7. (sr.items # <<>> => Leads(sr.items[Len(sr.items)], AfterRing))'
    <3> SUFFICES ASSUME sr.items # <<>> PROVE Leads(sr.items[Len(sr.items)], AfterRing)'
      OBVIOUS
    <3>1. sr.items[Len(sr.items)] \in Items
      BY WayTypes
    <3>2. Leads(sr.items[Len(sr.items)], AfterRing)
      BY <2>1 DEF WayInv
    <3> QED BY <1>4, <2>2, <3>1, <3>2, WayTypes
  <2>8. (At("fetcher", "item") => Leads(th.fetcher.item, Future))'
    BY <1>2, <1>3, <2>1, <2>2, WayTypes DEF WayInv, At, Threads
  <2> QED BY <2>4, <2>5, <2>6, <2>7, <2>8 DEF WayInv
<1> QED BY <1>1, <1>8, <1>9, <1>10

\* Nor has what is read, nor the list.
LEMMA StreamKept ==
  ASSUME FieldsInv, FieldsInv', OrderParts, External' = External, UNCHANGED <<seen, hls>>,
         phase' = "probing" => phase = "probing",
         ~External /\ seen # NoneSeen /\ Consumed => Consumed',
         \A u \in {src'.mem, src'.http} :
           u \in {src.mem, src.http, NoUnit} \/ u.seg = InitSeg \/ u.seg \in 0 .. srv.last,
         NextSeg' = NextSeg, srv'.last >= srv.last
  PROVE  EdgeInv' /\ ReadInv'
<1>1. ReadInv'
  BY DEF ReadInv, OrderParts
<1>2. /\ NextSeg \in Int /\ srv.last \in Int /\ srv'.last \in Int /\ hls.seq \in Int /\ hls.count \in Int
  BY WayTypes DEF FieldsInv, Windows, Playlists
<1>3. \A u \in {src'.mem, src'.http} : u.seg \in Int
  BY DEF FieldsInv, Sources, Units
<1>4. \A u \in {src'.mem, src'.http} : u = NoUnit \/ u.seg = InitSeg \/ u.seg \in 0 .. srv.last
  BY DEF EdgeInv, OrderParts
<1>5. \A u \in {src'.mem, src'.http} : u = NoUnit \/ u.seg = InitSeg \/ u.seg \in 0 .. srv'.last
  BY <1>2, <1>3, <1>4
<1>6. (\A u \in {src.mem, src.http} : u = NoUnit \/ u.seg = InitSeg \/ u.seg \in 0 .. srv.last)'
  BY <1>5
<1> QED BY <1>1, <1>2, <1>6 DEF EdgeInv, OrderParts
Quiet(stage) == stage \notin {"item", "parse", "join", "move"}
Counted == used' \in Counts /\ used'.seeks >= used.seeks
Resting ==
  External' = External /\ (phase' = "probing" => phase = "probing") /\ UNCHANGED <<seen, goal, sr>> /\ Counted

\* What goes wrong, or is asked for, is counted.
LEMMA FaultsCount ==
  ASSUME HistoryTypes
  PROVE  /\ UNCHANGED used => Counted
         /\ \A f : Fault(f) => Counted
         /\ \A reason \in BOOLEAN : FailsOn(reason) => Counted
<1>1. used \in Counts
  BY DEF HistoryTypes
<1>2. \A f : Fault(f) => Counted
  BY <1>1 DEF Fault, Counted, Counts
<1> QED BY <1>1, <1>2 DEF FailsOn, Counted, Counts

\* What is open stays, or what takes its place is on the server.
Opens ==
  /\ ~External /\ seen # NoneSeen /\ Consumed => Consumed'
  /\ \A u \in {src'.mem, src'.http} :
       u \in {src.mem, src.http, NoUnit} \/ u.seg = InitSeg \/ u.seg \in 0 .. srv.last

\* A thread that hands nothing on.
LEMMA ThreadMoves ==
  ASSUME FieldsInv, FieldsInv', OrderParts, Resting, hls' = hls, Opens,
         srv'.last >= srv.last, NEW t \in Threads, \A u \in Threads \ {t} : th'[u] = th[u],
         th'[t] = th[t] \/ (Quiet(th[t].at) /\ Quiet(th'[t].at))
  PROVE  RingInv' => OrderParts'
<1> USE DEF Threads, Quiet, At
<1>1. NextSeg' = NextSeg
  BY DEF NextSeg, Holds
<1>2. Cut => Cut'
  BY DEF Cut
<1>3. HistoryTypes' /\ GenInv' /\ (~Cut => WayInv)' /\ GoalInv'
  BY <1>1, <1>2, WayKept DEF Resting, Counted
<1>4. EdgeInv' /\ ReadInv'
  BY <1>1, StreamKept DEF Resting, Opens
<1> QED BY <1>3, <1>4 DEF OrderParts

LEMMA OpensSame == src' = src => Opens
<1> SUFFICES ASSUME src' = src PROVE Opens
  OBVIOUS
<1>1. Consumed => Consumed'
  BY DEF Consumed
<1> QED BY <1>1 DEF Opens

\* The server, the worker, and the viewer who asks for a seek.
LEMMA OthersKeepOrder ==
  ASSUME StreamInv, StreamInv', OrderParts,
         Publish \/ PrefStops \/ PrefPicks \/ PrefFetched \/ PrefFails \/ AsksSeek
  PROVE  OrderParts' /\ UNCHANGED <<seen, goal>>
<1> USE DEF owners, fetching, shown, histories
<1>1. UNCHANGED <<kind, phase, seen, goal, sr, hls, src, th>>
  BY DEF Publish, PrefStops, PrefPicks, PrefFetched, PrefFails, AsksSeek
<1>2. Counted
  <2>1. HistoryTypes
    BY DEF OrderParts
  <2>2. CASE AsksSeek
    <3>1. used \in Counts /\ used' = [used EXCEPT !.seeks = used.seeks + 1]
      BY <2>1, <2>2 DEF AsksSeek, HistoryTypes
    <3> QED BY <3>1 DEF Counts, Counted
  <2>3. CASE PrefFails
    BY <2>1, <2>3, FaultsCount DEF PrefFails, StreamInv, FieldsInv
  <2> QED BY <2>1, <2>2, <2>3, FaultsCount DEF Publish, PrefStops, PrefPicks, PrefFetched
<1>3. srv'.last >= srv.last
  <2>1. srv \in Windows
    BY DEF StreamInv, FieldsInv
  <2>2. CASE Publish
    <3>1. srv' = [srv EXCEPT !.over = TRUE] \/ srv' = [srv EXCEPT !.last = srv.last + 1, !.first = Most(srv.first, srv.last + 2 - Window)]
      BY <2>2 DEF Publish
    <3>2. srv.last \in Nat /\ (srv'.last = srv.last \/ srv'.last = srv.last + 1)
      BY <2>1, <3>1 DEF Windows
    <3> QED BY <3>2
  <2>3. CASE srv' = srv
    BY <2>1, <2>3 DEF Windows
  <2> QED BY <2>2, <2>3 DEF PrefStops, PrefPicks, PrefFetched, PrefFails, AsksSeek
<1>4. RingInv'
  <2>1. seek' >= 0 => used'.seeks > 0
    <3>1. used \in Counts /\ seek \in Int /\ (seek >= 0 => used.seeks > 0)
      BY DEF OrderParts, HistoryTypes, RingInv, StreamInv, FieldsInv
    <3>2. CASE AsksSeek
      BY <3>1, <3>2 DEF AsksSeek, Counts
    <3>3. CASE seek' = seek
      BY <1>2, <3>1, <3>3 DEF Counted, Counts
    <3> QED BY <3>2, <3>3 DEF Publish, PrefStops, PrefPicks, PrefFetched, PrefFails
  <2> QED BY <1>1, <2>1 DEF OrderParts, RingInv, External, At, NoneOpen
<1>5. th'["reader"] = th["reader"]
  BY <1>1
<1> QED BY <1>1, <1>2, <1>3, <1>4, ThreadMoves, OpensSame DEF StreamInv, Resting, External, Threads

\* The reader, where it goes from one stage to the next.
LEMMA ReaderKeepsOrder ==
  ASSUME StreamInv, StreamInv', SeekInv, OrderParts, ~Stopped,
         \/ ReadOpen \/ ReadMisses \/ ReadPastEnd \/ Unprefetch \/ ProbeReads \/ ProbeFails
         \/ LoopStops \/ LoopReopens \/ LoopReads \/ Decoded \/ ReadsEnd \/ LoopPops
         \/ PopsNothing \/ NothingToDecode \/ SeekTaken \/ SeekLost
  PROVE  OrderParts' /\ UNCHANGED <<seen, goal>>
<1> USE DEF owners, fetching, shown, histories, At, Goes
<1>0. ~SeekLost
  BY DEF SeekLost, SeekInv
<1>1. UNCHANGED <<kind, phase, seen, goal, sr, hls, src, srv, used>>
  BY <1>0 DEF ReadOpen, ReadMisses, ReadPastEnd, Unprefetch, ProbeReads, ProbeFails, LoopStops, LoopReopens, LoopReads, Decoded, ReadsEnd, LoopPops, PopsNothing, NothingToDecode, SeekTaken
<1>2. th \in [Threads -> Locals] /\ srv \in Windows /\ seek \in Int
  BY DEF StreamInv, FieldsInv
<1>3. th'["fetcher"] = th["fetcher"]
  BY <1>0, <1>2 DEF Threads, Serving, Refreshes, ReadOpen, ReadMisses, ReadPastEnd, Unprefetch, ProbeReads, ProbeFails, LoopStops, LoopReopens, LoopReads, Decoded, ReadsEnd, LoopPops, PopsNothing, NothingToDecode, SeekTaken
<1>4. th'["reader"] = th["reader"] \/ (Quiet(th["reader"].at) /\ Quiet(th'["reader"].at))
  <2> USE DEF Threads, Quiet, Begins, Locals
  <2>1. CASE ReadOpen \/ ReadMisses \/ ReadPastEnd \/ Unprefetch \/ ProbeReads \/ ProbeFails
    BY <1>2, <2>1 DEF Serving, Refreshes, ReadOpen, ReadMisses, ReadPastEnd, Unprefetch, ProbeReads, ProbeFails
  <2>2. CASE LoopReopens \/ LoopReads \/ Decoded \/ ReadsEnd \/ LoopPops \/ PopsNothing
    BY <1>2, <2>2 DEF Looping, Idling, LoopReopens, LoopReads, Decoded, ReadsEnd, LoopPops, PopsNothing
  <2>3. CASE NothingToDecode
    BY <1>2, <2>3 DEF NothingToDecode
  <2>4. CASE SeekTaken
    BY <1>2, <2>4 DEF SeekTaken, Idling
  <2> QED BY <1>0, <2>1, <2>2, <2>3, <2>4 DEF LoopStops
<1>5. seek' = seek \/ seek' = -1
  BY <1>0 DEF ReadOpen, ReadMisses, ReadPastEnd, Unprefetch, ProbeReads, ProbeFails, LoopStops, LoopReopens, LoopReads, Decoded, ReadsEnd, LoopPops, PopsNothing, NothingToDecode, SeekTaken
<1>6. RingInv'

  <2>1. CASE ReadOpen
    <3> USE <2>1 DEF ReadOpen, Serving, Refreshes, Begins, Looping, Idling
    <3> QED BY <1>1, <1>2, <1>5 DEF RingInv, OrderParts, External, NoneOpen, ReaderFetches, StreamInv, StageInv, ProbeStages, RingStages, Locals, Threads
  <2>2. CASE ReadMisses
    <3> USE <2>2 DEF ReadMisses, Serving, Refreshes, Begins, Looping, Idling
    <3> QED BY <1>1, <1>2, <1>5 DEF RingInv, OrderParts, External, NoneOpen, ReaderFetches, StreamInv, StageInv, ProbeStages, RingStages, Locals, Threads
  <2>3. CASE ReadPastEnd
    <3> USE <2>3 DEF ReadPastEnd, Serving, Refreshes, Begins, Looping, Idling
    <3> QED BY <1>1, <1>2, <1>5 DEF RingInv, OrderParts, External, NoneOpen, ReaderFetches, StreamInv, StageInv, ProbeStages, RingStages, Locals, Threads
  <2>4. CASE Unprefetch
    <3> USE <2>4 DEF Unprefetch, Serving, Refreshes, Begins, Looping, Idling
    <3> QED BY <1>1, <1>2, <1>5 DEF RingInv, OrderParts, External, NoneOpen, ReaderFetches, StreamInv, StageInv, ProbeStages, RingStages, Locals, Threads
  <2>5. CASE ProbeReads
    <3> USE <2>5 DEF ProbeReads, Serving, Refreshes, Begins, Looping, Idling
    <3> QED BY <1>1, <1>2, <1>5 DEF RingInv, OrderParts, External, NoneOpen, ReaderFetches, StreamInv, StageInv, ProbeStages, RingStages, Locals, Threads
  <2>6. CASE ProbeFails
    <3> USE <2>6 DEF ProbeFails, Serving, Refreshes, Begins, Looping, Idling
    <3> QED BY <1>1, <1>2, <1>5 DEF RingInv, OrderParts, External, NoneOpen, ReaderFetches, StreamInv, StageInv, ProbeStages, RingStages, Locals, Threads
  <2>7. CASE LoopStops
    <3> USE <2>7 DEF LoopStops, Serving, Refreshes, Begins, Looping, Idling
    <3> QED BY <1>1, <1>2, <1>5 DEF RingInv, OrderParts, External, NoneOpen, ReaderFetches, StreamInv, StageInv, ProbeStages, RingStages, Locals, Threads
  <2>8. CASE LoopReopens
    <3> USE <2>8 DEF LoopReopens, Serving, Refreshes, Begins, Looping, Idling
    <3> QED BY <1>1, <1>2, <1>5 DEF RingInv, OrderParts, External, NoneOpen, ReaderFetches, StreamInv, StageInv, ProbeStages, RingStages, Locals, Threads
  <2>9. CASE LoopReads
    <3> USE <2>9 DEF LoopReads, Serving, Refreshes, Begins, Looping, Idling
    <3> QED BY <1>1, <1>2, <1>5 DEF RingInv, OrderParts, External, NoneOpen, ReaderFetches, StreamInv, StageInv, ProbeStages, RingStages, Locals, Threads
  <2>10. CASE Decoded
    <3> USE <2>10 DEF Decoded, Serving, Refreshes, Begins, Looping, Idling
    <3> QED BY <1>1, <1>2, <1>5 DEF RingInv, OrderParts, External, NoneOpen, ReaderFetches, StreamInv, StageInv, ProbeStages, RingStages, Locals, Threads
  <2>11. CASE ReadsEnd
    <3> USE <2>11 DEF ReadsEnd, Serving, Refreshes, Begins, Looping, Idling
    <3> QED BY <1>1, <1>2, <1>5 DEF RingInv, OrderParts, External, NoneOpen, ReaderFetches, StreamInv, StageInv, ProbeStages, RingStages, Locals, Threads
  <2>12. CASE LoopPops
    <3> USE <2>12 DEF LoopPops, Serving, Refreshes, Begins, Looping, Idling
    <3> QED BY <1>1, <1>2, <1>5 DEF RingInv, OrderParts, External, NoneOpen, ReaderFetches, StreamInv, StageInv, ProbeStages, RingStages, Locals, Threads
  <2>13. CASE PopsNothing
    <3> USE <2>13 DEF PopsNothing, Serving, Refreshes, Begins, Looping, Idling
    <3> QED BY <1>1, <1>2, <1>5 DEF RingInv, OrderParts, External, NoneOpen, ReaderFetches, StreamInv, StageInv, ProbeStages, RingStages, Locals, Threads
  <2>14. CASE NothingToDecode
    <3> USE <2>14 DEF NothingToDecode, Serving, Refreshes, Begins, Looping, Idling
    <3> QED BY <1>1, <1>2, <1>5 DEF RingInv, OrderParts, External, NoneOpen, ReaderFetches, StreamInv, StageInv, ProbeStages, RingStages, Locals, Threads
  <2>15. CASE SeekTaken
    <3> USE <2>15 DEF SeekTaken, Serving, Refreshes, Begins, Looping, Idling
    <3> QED BY <1>1, <1>2, <1>5 DEF RingInv, OrderParts, External, NoneOpen, ReaderFetches, StreamInv, StageInv, ProbeStages, RingStages, Locals, Threads
  <2> QED BY <1>0, <2>1, <2>2, <2>3, <2>4, <2>5, <2>6, <2>7, <2>8, <2>9, <2>10, <2>11, <2>12, <2>13, <2>14, <2>15
<1>7. Counted
  BY <1>1, FaultsCount DEF OrderParts
<1> QED BY <1>1, <1>2, <1>3, <1>4, <1>6, <1>7, ThreadMoves, OpensSame DEF StreamInv, Resting, External, Threads, Windows

\* Either thread, in the loop that fetches.
LEMMA LoopsKeepOrder ==
  ASSUME StreamInv, StreamInv', SeekInv, OrderParts, NEW t \in Threads,
         \/ NextStopped(t) \/ NextPastEnd(t) \/ NextFetches(t) \/ WaitOver(t) \/ GivesUp(t)
         \/ RefreshFails(t) \/ (t = "fetcher" /\ FetcherGoesOn)
  PROVE  OrderParts' /\ UNCHANGED <<seen, goal>>
<1> USE DEF owners, fetching, shown, histories, At, Goes
<1>1. UNCHANGED <<kind, phase, seen, goal, sr, hls, src, srv, seek>>
  BY DEF FetcherGoesOn, NextStopped, NextPastEnd, NextFetches, WaitOver, GivesUp, RefreshFails
<1>2. th \in [Threads -> Locals] /\ srv \in Windows /\ seek \in Int
  BY DEF StreamInv, FieldsInv
<1>3. \A u \in Threads \ {t} : th'[u] = th[u]
  BY <1>2 DEF Refreshes, AfterRefresh, FetcherGoesOn, NextStopped, NextPastEnd, NextFetches, WaitOver, GivesUp, RefreshFails
<1>4. Quiet(th[t].at) /\ Quiet(th'[t].at)
  BY <1>2 DEF Quiet, Begins, Locals, Refreshes, AfterRefresh, FetcherGoesOn, NextStopped, NextPastEnd, NextFetches, WaitOver, GivesUp, RefreshFails
<1>5. Counted
  BY FaultsCount DEF OrderParts, FetcherGoesOn, NextStopped, NextPastEnd, NextFetches, WaitOver, GivesUp, RefreshFails, StreamInv, FieldsInv
<1>6. RingInv'
  <2>1. seek' >= 0 => used'.seeks > 0
    BY <1>1, <1>2, <1>5 DEF Counted, Counts, OrderParts, HistoryTypes, RingInv

  <2>2. CASE NextStopped(t)
    <3> USE <2>2 DEF NextStopped, Refreshes, AfterRefresh, Begins, InRead
    <3> QED BY <1>1, <1>2, <2>1 DEF RingInv, OrderParts, External, NoneOpen, ReaderFetches, StreamInv, StageInv, ProbeStages, RingStages, Locals, Threads
  <2>3. CASE NextPastEnd(t)
    <3> USE <2>3 DEF NextPastEnd, Refreshes, AfterRefresh, Begins, InRead
    <3> QED BY <1>1, <1>2, <2>1 DEF RingInv, OrderParts, External, NoneOpen, ReaderFetches, StreamInv, StageInv, ProbeStages, RingStages, Locals, Threads
  <2>4. CASE NextFetches(t)
    <3> USE <2>4 DEF NextFetches, Refreshes, AfterRefresh, Begins, InRead
    <3> QED BY <1>1, <1>2, <2>1 DEF RingInv, OrderParts, External, NoneOpen, ReaderFetches, StreamInv, StageInv, ProbeStages, RingStages, Locals, Threads
  <2>5. CASE WaitOver(t)
    <3> USE <2>5 DEF WaitOver, Refreshes, AfterRefresh, Begins, InRead
    <3> QED BY <1>1, <1>2, <2>1 DEF RingInv, OrderParts, External, NoneOpen, ReaderFetches, StreamInv, StageInv, ProbeStages, RingStages, Locals, Threads
  <2>6. CASE GivesUp(t)
    <3> USE <2>6 DEF GivesUp, Refreshes, AfterRefresh, Begins, InRead
    <3> QED BY <1>1, <1>2, <2>1 DEF RingInv, OrderParts, External, NoneOpen, ReaderFetches, StreamInv, StageInv, ProbeStages, RingStages, Locals, Threads
  <2>7. CASE RefreshFails(t)
    <3> USE <2>7 DEF RefreshFails, Refreshes, AfterRefresh, Begins, InRead
    <3> QED BY <1>1, <1>2, <2>1 DEF RingInv, OrderParts, External, NoneOpen, ReaderFetches, StreamInv, StageInv, ProbeStages, RingStages, Locals, Threads
  <2>8. CASE t = "fetcher" /\ FetcherGoesOn
    BY <1>1, <1>2, <2>1, <2>8 DEF FetcherGoesOn, RingInv, OrderParts, External, NoneOpen, Threads
  <2> QED BY <2>2, <2>3, <2>4, <2>5, <2>6, <2>7, <2>8
<1> QED BY <1>1, <1>2, <1>3, <1>4, <1>5, <1>6, ThreadMoves, OpensSame DEF StreamInv, Resting, External, Windows


\* The reader opens something, or fails to, where nothing was open.
LEMMA OpeningKeepsOrder ==
  ASSUME StreamInv, StreamInv', OrderParts, ReadCached \/ ReadFetched \/ ReadFetchFails
  PROVE  OrderParts' /\ UNCHANGED <<seen, goal>>
<1> USE DEF owners, fetching, shown, histories, At, Goes
<1>1. UNCHANGED <<kind, phase, seen, goal, sr, hls, srv, seek>>
  BY DEF ReadCached, ReadFetched, ReadFetchFails
<1>2. th \in [Threads -> Locals] /\ srv \in Windows /\ src \in Sources /\ pref \in Workers /\ hls \in Playlists
  BY DEF StreamInv, FieldsInv
<1>3. th'["fetcher"] = th["fetcher"] /\ Quiet(th["reader"].at) /\ Quiet(th'["reader"].at)
  <2> USE DEF Threads, Quiet, Begins, Locals
  <2>1. CASE ReadCached \/ ReadFetched
    BY <1>2, <2>1 DEF ReadCached, ReadFetched, Serving
  <2>2. CASE ReadFetchFails
    BY <1>2, <2>2 DEF ReadFetchFails, Refreshes
  <2> QED BY <2>1, <2>2
<1>4. Counted
  BY FaultsCount DEF OrderParts, ReadCached, ReadFetched, ReadFetchFails
<1>5. NoneOpen
  <2>1. ReadFetched \/ ReadFetchFails => ~External /\ th.reader.at = "fetch"
    BY DEF ReadFetched, ReadFetchFails, InRead
  <2> QED BY <2>1 DEF StreamInv, OwnerInv, ReadCached
<1>6. ~Consumed
  BY <1>5 DEF Consumed, NoneOpen, NoUnit
<1>7. ReadCached => src'.mem.seg \in 0 .. srv.last /\ src'.http = NoUnit
  <2> SUFFICES ASSUME ReadCached PROVE src'.mem.seg \in 0 .. srv.last /\ src'.http = NoUnit
    OBVIOUS
  <2>1. PICK slot \in pref.ready : slot.index = hls.idx /\ src' = [src EXCEPT !.mem = Unit(slot.holds)]
    BY DEF ReadCached
  <2>2. src'.mem = Unit(slot.holds) /\ src'.http = src.http
    BY <1>2, <2>1 DEF Sources
  <2>3. slot.holds = hls.seq + hls.idx
    BY <2>1 DEF StreamInv, NothingIsMisnamed, Holds
  <2>4. hls.seq + hls.count <= srv.last + 1 /\ hls.idx < hls.count
    BY DEF OrderParts, EdgeInv, ReadCached
  <2>5. hls.seq \in Nat /\ hls.idx \in Nat /\ hls.count \in Nat /\ srv.last \in Nat
    BY <1>2 DEF Playlists, Windows
  <2>6. slot.holds \in 0 .. srv.last
    BY <2>3, <2>4, <2>5
  <2> QED BY <1>5, <2>2, <2>6 DEF Unit, NoneOpen
<1>8. ReadFetched => \/ src'.mem = Unit(Wanted) /\ src'.http = NoUnit
                     \/ src'.http = Unit(Wanted) /\ src'.mem = NoUnit
  BY <1>2, <1>5 DEF ReadFetched, MemOpened, NoneOpen, Sources
<1>9. ReadFetched => Wanted = InitSeg \/ Wanted \in 0 .. srv.last
  <2>1. ReadFetched => Wanted = InitSeg \/ Wanted \in srv.first .. srv.last
    BY DEF ReadFetched, OnServer
  <2>2. srv.first \in Nat /\ srv.last \in Nat
    BY <1>2 DEF Windows
  <2> QED BY <2>1, <2>2
<1>10. ReadFetchFails => src'.mem = NoUnit /\ src'.http = NoUnit
  BY <1>2, <1>5 DEF ReadFetchFails, Missed, NoneOpen, Sources
<1>11. \A u \in {src'.mem, src'.http} : u = NoUnit \/ u.seg = InitSeg \/ u.seg \in 0 .. srv.last
  BY <1>7, <1>8, <1>9, <1>10 DEF Unit
<1>12. Opens
  BY <1>6, <1>11 DEF Opens
<1>13. RingInv'
  <2>1. seek' >= 0 => used'.seeks > 0
    <3>1. used \in Counts /\ (seek >= 0 => used.seeks > 0)
      BY DEF OrderParts, HistoryTypes, RingInv
    <3> QED BY <1>1, <1>4, <3>1 DEF Counted, Counts
  <2>2. th'.reader.at = "serve" => ~NoneOpen'
    <3>1. ReadFetchFails => th'.reader.at # "serve"
      BY <1>2 DEF ReadFetchFails, Refreshes, Threads, Locals
    <3>2. InitSeg # NoSeg /\ \A s \in 0 .. srv.last : s # NoSeg
      BY DEF InitSeg, NoSeg
    <3> QED BY <1>7, <1>8, <1>9, <3>1, <3>2 DEF Unit, NoUnit, NoneOpen
  <2>3. ReadFetched \/ ReadFetchFails => ~External
    BY DEF ReadFetched, ReadFetchFails, InRead
  <2>4. ReadCached => ~External
    BY DEF ReadCached, StreamInv, StageInv, ProbeStages
  <2>5. th'.reader.at \in {"serve", "ended", "refresh", "wait"}
    BY <1>2 DEF ReadCached, ReadFetched, ReadFetchFails, Refreshes, Serving, Begins, Threads, Locals
  <2>6. th.reader.at \in {"ensure", "fetch"}
    BY DEF ReadCached, ReadFetched, ReadFetchFails
  <2> QED BY <1>1, <2>1, <2>2, <2>3, <2>4, <2>5, <2>6 DEF RingInv, OrderParts, External
<1> QED BY <1>1, <1>2, <1>3, <1>4, <1>12, <1>13, ThreadMoves DEF StreamInv, Resting, Threads, Windows, External

\* A failed fetch of a segment, and what the handing over closes.
LEMMA ClosingKeepsOrder ==
  ASSUME StreamInv, StreamInv', OrderParts, NEW t \in Threads,
         NextFails(t) \/ (t = "reader" /\ (Detached \/ Probed))
  PROVE  OrderParts' /\ UNCHANGED <<seen, goal>>
<1> USE DEF owners, fetching, shown, histories, At, Goes
<1>1. UNCHANGED <<kind, seen, goal, sr, hls, srv, seek>>
  BY DEF NextFails, Detached, Probed
<1>2. th \in [Threads -> Locals] /\ srv \in Windows /\ src \in Sources
  BY DEF StreamInv, FieldsInv
<1>3. (\A u \in Threads \ {t} : th'[u] = th[u]) /\ Quiet(th[t].at) /\ Quiet(th'[t].at)
  <2> USE DEF Threads, Quiet, Begins, Locals
  <2>1. CASE NextFails(t)
    BY <1>2, <2>1 DEF NextFails, Refreshes
  <2>2. CASE t = "reader" /\ (Detached \/ Probed)
    BY <1>2, <2>2 DEF Detached, Probed
  <2> QED BY <2>1, <2>2
<1>4. Counted
  BY FaultsCount DEF OrderParts, NextFails, Detached, Probed, StreamInv, FieldsInv
<1>5. External' = External /\ (phase' = "probing" => phase = "probing")
  <2>1. CASE Probed
    BY <2>1 DEF Probed, External
  <2>2. CASE NextFails(t) \/ Detached
    BY <2>2 DEF NextFails, Detached, External
  <2> QED BY <2>1, <2>2
<1>6. Opens
  <2>1. src'.mem \in {src.mem, NoUnit} /\ src'.http = src.http
    BY <1>2 DEF NextFails, Detached, Probed, Missed, Sources
  <2>2. CASE Probed
    BY <2>2, OpensSame DEF Probed
  <2>3. CASE Detached
    <3>1. th.reader.at = "detaching" /\ phase' = phase /\ kind' = kind
      BY <2>3 DEF Detached
    <3>2. ~External
      BY <3>1 DEF StreamInv, StageInv, ProbeStages
    <3>3. ~kind.fmp4
      BY <3>1 DEF StreamInv, StageInv
    <3>4. seen = NoneSeen
      BY <3>2, <3>3 DEF OrderParts, ReadInv, External, StreamInv, FieldsInv
    <3> QED BY <2>1, <3>4 DEF Opens
  <2>4. CASE NextFails(t)
    <3>1. External
      <4>1. th[t].at = "fetch" /\ ~InRead(t)
        BY <2>4 DEF NextFails
      <4>2. t = "reader" => External
        BY <4>1 DEF InRead
      <4>3. t = "fetcher" => External
        BY <4>1 DEF StreamInv, StageInv
      <4> QED BY <4>2, <4>3 DEF Threads
    <3> QED BY <2>1, <3>1 DEF Opens
  <2> QED BY <2>2, <2>3, <2>4
<1>7. RingInv'
  <2>1. seek' >= 0 => used'.seeks > 0
    <3>1. used \in Counts /\ (seek >= 0 => used.seeks > 0)
      BY DEF OrderParts, HistoryTypes, RingInv
    <3> QED BY <1>1, <1>4, <3>1 DEF Counted, Counts
  <2>2. CASE NextFails(t)
    <3>1. th[t].at = "fetch" /\ th'[t].at \in {"refresh", "wait"} /\ ~InRead(t) /\ phase' = phase
      BY <1>2, <2>2 DEF NextFails, Refreshes, Locals
    <3>2. th'.reader.at # "serve"
      <4>1. t = "fetcher" => External /\ th'.reader = th.reader
        BY <1>3, <3>1 DEF StreamInv, StageInv, Threads
      <4> QED BY <3>1, <4>1 DEF StreamInv, StageInv, ProbeStages, Threads
    <3>3. t = "fetcher" => th'.reader = th.reader
      BY <1>3 DEF Threads
    <3>4. t = "reader" => External
      BY <3>1 DEF InRead
    <3> QED BY <1>1, <2>1, <3>1, <3>2, <3>3, <3>4 DEF RingInv, OrderParts, External, ReaderFetches, Threads
  <2>3. CASE t = "reader" /\ Detached
    BY <1>1, <1>2, <2>1, <2>3 DEF Detached, RingInv, OrderParts, External, ReaderFetches, StreamInv, StageInv, ProbeStages, Locals, Threads
  <2>4. CASE t = "reader" /\ Probed
    BY <1>1, <1>2, <2>1, <2>4 DEF Probed, RingInv, OrderParts, External, ReaderFetches, StreamInv, StageInv, ProbeStages, Locals, Threads
  <2> QED BY <2>2, <2>3, <2>4
<1> QED BY <1>1, <1>2, <1>3, <1>4, <1>5, <1>6, <1>7, ThreadMoves DEF StreamInv, Resting, Windows


\* What the two action properties say of a step.
PlaysOn ==
  seen' \notin {seen, NoneSeen} =>
    /\ seen # NoneSeen =>
         \/ seen'.item.gen > seen.item.gen
         \/ seen'.item.seg = seen.item.seg + 1
         \/ (~External \/ used.seeks > 0) /\ seen'.item.seg > seen.item.seg
    /\ goal # NoItem =>
         \/ seen'.item.seg = goal.seg
         \/ seen'.item.seg > goal.seg /\ seen'.item.gen > goal.gen

\* In hls_read nothing is on its way.
LEMMA NothingOnTheWay ==
  ASSUME StageInv', RingInv', ~External', seen'.item.gen <= hls'.reset, goal' = NoItem,
         HistoryTypes', EdgeInv', ReadInv'
  PROVE  OrderParts'
<1>1. sr'.items = <<>> /\ th'.fetcher.at = "off" /\ th'.reader.at # "item"
  BY DEF RingInv, StageInv, RingStages, At
<1>2. GenInv'
  BY <1>1 DEF GenInv, At
<1>3. WayInv'
  BY <1>1 DEF WayInv, At
<1> QED BY <1>2, <1>3 DEF OrderParts, GoalInv

\* Before it plays nothing has been decoded, and nothing sought.
LEMMA NothingSeen ==
  ASSUME OrderParts, ~External
  PROVE  goal = NoItem /\ (phase = "probing" => seen = NoneSeen)
BY DEF OrderParts, GoalInv, ReadInv

LEMMA ServesInOrder ==
  ASSUME StreamInv, StreamInv', OrderParts, ReadServes
  PROVE  OrderParts' /\ PlaysOn
<1> USE DEF owners, fetching, shown, histories, At, Goes
<1>1. /\ UNCHANGED <<kind, phase, sr, hls, srv, seek, used>>
      /\ th.reader.at = "serve"
  BY DEF ReadServes
<1>2. /\ th \in [Threads -> Locals] /\ srv \in Windows /\ src \in Sources /\ hls \in Playlists
      /\ seen.item \in Items
  BY DEF StreamInv, FieldsInv, OrderParts, HistoryTypes
<1>3. th'.reader.at = "got" /\ th'["fetcher"] = th["fetcher"]
  BY <1>2 DEF ReadServes, Threads, Locals
<1>4. ~External /\ ~External'
  BY <1>1 DEF StreamInv, StageInv, ProbeStages, External
<1>5. goal = NoItem /\ (phase = "probing" => seen = NoneSeen)
  BY <1>4, NothingSeen
<1>6. NextSeg' = NextSeg /\ NextSeg = hls.seq + hls.idx
  BY <1>1, <1>3, <1>4 DEF NextSeg, Holds, StreamInv, StageInv
<1>7. RingInv'
  BY <1>1, <1>3, <1>4 DEF RingInv, OrderParts, External
<1>8. PICK from \in {"mem", "http"} :
        /\ from = "http" => src.mem = NoUnit
        /\ src[from] # NoUnit /\ ~src[from].read
        /\ src' = [src EXCEPT ![from].read = TRUE]
        /\ Demuxes(src[from].seg)
  BY DEF ReadServes
<1>9. ~Consumed
  BY <1>2, <1>8 DEF StreamInv, OwnerInv, Consumed, NoUnit
<1>10. /\ src'[from].seg = src[from].seg /\ src'[from].read
       /\ \A u \in {src'.mem, src'.http} : u \in {src.mem, src.http} \/ u.seg = src[from].seg
  BY <1>2, <1>8 DEF Sources, Units
<1>11. src[from].seg = InitSeg \/ src[from].seg \in 0 .. srv.last
  BY <1>8 DEF OrderParts, EdgeInv
<1>12. EdgeInv'
  <2>1. \A u \in {src'.mem, src'.http} : u = NoUnit \/ u.seg = InitSeg \/ u.seg \in 0 .. srv.last
    BY <1>10, <1>11 DEF OrderParts, EdgeInv
  <2>2. (\A u \in {src.mem, src.http} : u = NoUnit \/ u.seg = InitSeg \/ u.seg \in 0 .. srv.last)'
    BY <1>1, <2>1
  <2> QED BY <1>1, <1>6, <2>2 DEF OrderParts, EdgeInv
<1>13. CASE UNCHANGED <<seen, goal>>
  <2>1. HistoryTypes'
    BY <1>1, <1>13 DEF OrderParts, HistoryTypes
  <2>2. ReadInv'
    BY <1>1, <1>4, <1>6, <1>9, <1>13 DEF OrderParts, ReadInv
  <2> QED BY <1>1, <1>4, <1>5, <1>7, <1>12, <1>13, <2>1, <2>2, NothingOnTheWay DEF StreamInv, OrderParts, GenInv, PlaysOn
<1>14. CASE ~UNCHANGED <<seen, goal>>
  <2> DEFINE item == Item(src[from].seg, hls.reset)
  <2>1. src[from].seg >= 0 /\ phase = "playing" /\ Sees(item)
    BY <1>8, <1>14 DEF Demuxes
  <2>2. src[from].seg = NextSeg
    BY <1>4, <1>6, <2>1 DEF StreamInv, NothingIsMisnamed, Holds
  <2>3. /\ seen' = [item |-> item, again |-> item = seen.item /\ ~seen.again] /\ goal' = NoItem
        /\ item \in Items /\ item.seg = NextSeg /\ item.gen = hls.reset
    BY <1>2, <2>1, <2>2, WayTypes DEF Sees, Future, Item, StreamInv
  <2> HIDE DEF item
  <2>4. seen'.item = item
    BY <2>3
  <2>5. HistoryTypes'
    BY <1>1, <2>3, Parts DEF OrderParts, HistoryTypes
  <2>6. Consumed'
    BY <1>10, <2>1, <2>2 DEF Consumed, InitSeg
  <2>7. ReadInv'
    BY <1>1, <1>6, <2>1, <2>3, <2>4, <2>6 DEF ReadInv
  <2>8. OrderParts'
    <3>1. hls.reset \in Int
      BY <1>2 DEF Playlists
    <3> QED BY <1>1, <1>4, <1>7, <1>12, <2>3, <2>4, <2>5, <2>7, <3>1, NothingOnTheWay DEF StreamInv
  <2>9. PlaysOn
    <3>1. seen # NoneSeen => seen.item.gen < hls.reset \/ seen.item.seg < NextSeg
      BY <1>4, <1>9 DEF OrderParts, ReadInv
    <3>2. seen.item.seg \in Int /\ seen.item.gen \in Int /\ hls.reset \in Int /\ NextSeg \in Int
      BY <1>2, WayTypes, SMTT(40) DEF Items, Playlists, StreamInv
    <3> QED BY <1>4, <1>5, <2>3, <2>4, <3>1, <3>2 DEF PlaysOn
  <2> QED BY <2>8, <2>9
<1> QED BY <1>13, <1>14

\* A segment is over: the next one is to be read.
LEMMA DrainsInOrder ==
  ASSUME StreamInv, StreamInv', OrderParts, ReadDrainsMem \/ ReadDrainsHttp
  PROVE  OrderParts' /\ UNCHANGED <<seen, goal>>
<1> USE DEF owners, fetching, shown, histories, At, Goes
<1>1. UNCHANGED <<kind, phase, sr, srv, seek, seen, goal>> /\ th.reader.at = "serve"
  BY DEF ReadDrainsMem, ReadDrainsHttp
<1>2. /\ th \in [Threads -> Locals] /\ srv \in Windows /\ src \in Sources /\ hls \in Playlists
      /\ seen.item \in Items
  BY DEF StreamInv, FieldsInv, OrderParts, HistoryTypes
<1>3. th'.reader.at \in {"ensure", "unprefetch"} /\ (th'.reader.at = "unprefetch" => ~kind.fmp4)
  BY <1>2 DEF ReadDrainsMem, ReadDrainsHttp, Threads, Locals
<1>4. ~External /\ ~External'
  BY <1>1 DEF StreamInv, StageInv, ProbeStages, External
<1>5. goal = NoItem /\ (phase = "probing" => seen = NoneSeen)
  BY <1>4, NothingSeen
<1>6. NextSeg' = hls'.seq + hls'.idx /\ NextSeg = hls.seq + hls.idx
  BY <1>1, <1>3, <1>4 DEF NextSeg, Holds, StreamInv, StageInv
<1>7. Counted
  <2>1. used \in Counts
    BY DEF OrderParts, HistoryTypes
  <2>2. CASE used' = [used EXCEPT !.shifts = used.shifts + 1]
    BY <2>1, <2>2 DEF Counted, Counts
  <2>3. CASE FailsOn(src.http.read \/ Stopped)
    BY <2>1, <2>3 DEF FailsOn, Fault, Counted, Counts
  <2>4. CASE UNCHANGED used
    BY <2>1, <2>4 DEF Counted, Counts
  <2> QED BY <2>2, <2>3, <2>4 DEF ReadDrainsMem, ReadDrainsHttp
<1>8. RingInv'
  <2>1. seek' >= 0 => used'.seeks > 0
    <3>1. used \in Counts /\ (seek >= 0 => used.seeks > 0)
      BY DEF OrderParts, HistoryTypes, RingInv
    <3> QED BY <1>1, <1>7, <3>1 DEF Counted, Counts
  <2> QED BY <1>1, <1>3, <1>4, <2>1 DEF RingInv, OrderParts, External
<1>9. src'.mem = NoUnit /\ src'.http = NoUnit
  <2>1. CASE ReadDrainsMem
    <3>1. src.mem # NoUnit
      BY <2>1 DEF ReadDrainsMem, NoUnit
    <3>2. src.http = NoUnit /\ src' = [src EXCEPT !.mem = NoUnit, !.init = src.init /\ src.mem.seg # InitSeg]
      BY <2>1, <3>1 DEF StreamInv, OwnerInv, ReadDrainsMem
    <3> QED BY <1>2, <3>2 DEF Sources
  <2>2. CASE ReadDrainsHttp
    <3>1. src.mem = NoUnit /\ src' = [src EXCEPT !.http = NoUnit, !.init = src.init /\ src.http.seg # InitSeg]
      BY <2>2 DEF ReadDrainsHttp
    <3> QED BY <1>2, <3>1 DEF Sources
  <2> QED BY <2>1, <2>2
<1>10. PICK u \in {src.mem, src.http} :
         /\ u = NoUnit => FALSE
         /\ hls' = IF u.seg = InitSeg THEN hls ELSE Advanced
         /\ \A v \in {src.mem, src.http} : v # u => v = NoUnit
  <2>1. CASE ReadDrainsMem
    <3>1. src.mem # NoUnit /\ src.http = NoUnit
      BY <2>1 DEF ReadDrainsMem, StreamInv, OwnerInv, NoUnit
    <3> QED BY <2>1, <3>1 DEF ReadDrainsMem
  <2>2. CASE ReadDrainsHttp
    <3>1. src.mem = NoUnit /\ src.http # NoUnit
      BY <1>1, <2>2 DEF ReadDrainsHttp, OrderParts, RingInv, NoneOpen
    <3> QED BY <2>2, <3>1 DEF ReadDrainsHttp
  <2> QED BY <2>1, <2>2
<1>11. u.seg # InitSeg => u.seg = NextSeg /\ u.seg \in 0 .. srv.last
  BY <1>4, <1>6, <1>10 DEF OrderParts, EdgeInv, StreamInv, NothingIsMisnamed, Holds
<1>12. /\ hls'.seq = hls.seq /\ hls'.count = hls.count /\ hls'.reset = hls.reset
       /\ NextSeg' = IF u.seg = InitSeg THEN NextSeg ELSE NextSeg + 1
  <2>1. CASE u.seg = InitSeg
    BY <1>6, <1>10, <2>1
  <2>2. CASE u.seg # InitSeg
    <3>1. hls'.seq = hls.seq /\ hls'.count = hls.count /\ hls'.reset = hls.reset /\ hls'.idx = hls.idx + 1
      BY <1>2, <1>10, <2>2 DEF Advanced, Playlists
    <3>2. hls.seq \in Int /\ hls.idx \in Int
      BY <1>2 DEF Playlists
    <3> QED BY <1>6, <2>2, <3>1, <3>2
  <2> QED BY <2>1, <2>2
<1>13. NextSeg \in Int /\ srv.last \in Nat /\ seen.item.seg \in Int
  BY <1>2, WayTypes DEF StreamInv, Windows, Items
<1>14. EdgeInv'
  <2>1. NextSeg' <= srv.last + 1
    BY <1>11, <1>12, <1>13 DEF OrderParts, EdgeInv
  <2> QED BY <1>1, <1>9, <1>12, <2>1 DEF EdgeInv, OrderParts
<1>15. ReadInv'
  <2>1. CASE u.seg = InitSeg
    <3>1. ~Consumed
      BY <1>10, <2>1 DEF Consumed, NoUnit
    <3> QED BY <1>1, <1>4, <1>12, <2>1, <3>1 DEF ReadInv, OrderParts
  <2>2. CASE u.seg # InitSeg
    <3>1. seen # NoneSeen => seen.item.gen < hls.reset \/ seen.item.seg < NextSeg + 1
      BY <1>4, <1>13 DEF ReadInv, OrderParts
    <3> QED BY <1>1, <1>12, <2>2, <3>1 DEF ReadInv, OrderParts
  <2> QED BY <2>1, <2>2
<1>16. HistoryTypes'
  BY <1>1, <1>7 DEF OrderParts, HistoryTypes, Counted
<1> QED BY <1>1, <1>4, <1>5, <1>8, <1>12, <1>14, <1>15, <1>16, NothingOnTheWay DEF StreamInv, OrderParts, GenInv

\* Another variant is taken before anything is decoded.
LEMMA VariantKeepsOrder ==
  ASSUME StreamInv, StreamInv', OrderParts, LoadVariant
  PROVE  OrderParts' /\ UNCHANGED <<seen, goal>>
<1> USE DEF owners, fetching, shown, histories, At, Goes
<1>1. UNCHANGED <<kind, phase, sr, srv, seek, seen, goal>> /\ th.reader.at = "variant"
  BY DEF LoadVariant
<1>2. /\ th \in [Threads -> Locals] /\ srv \in Windows /\ src \in Sources /\ hls \in Playlists
  BY DEF StreamInv, FieldsInv
<1>3. th'.reader.at = "ensure"
  BY <1>2 DEF LoadVariant, Threads, Locals
<1>4. ~External /\ ~External'
  BY <1>1 DEF StreamInv, StageInv, ProbeStages, External
<1>5. goal = NoItem /\ seen = NoneSeen
  <2>1. phase = "probing"
    BY <1>1, <1>4 DEF OrderParts, RingInv, External, StreamInv, FieldsInv
  <2> QED BY <1>4, <2>1, NothingSeen
<1>6. NextSeg' = hls'.seq + hls'.idx /\ NextSeg = hls.seq + hls.idx
  BY <1>1, <1>3, <1>4 DEF NextSeg, Holds, StreamInv, StageInv
<1>7. Counted
  BY FaultsCount DEF OrderParts, LoadVariant
<1>8. RingInv'
  <2>1. seek' >= 0 => used'.seeks > 0
    <3>1. used \in Counts /\ (seek >= 0 => used.seeks > 0)
      BY DEF OrderParts, HistoryTypes, RingInv
    <3> QED BY <1>1, <1>7, <3>1 DEF Counted, Counts
  <2> QED BY <1>1, <1>3, <1>4, <2>1 DEF RingInv, OrderParts, External
<1>9. src'.mem = NoUnit /\ src'.http = NoUnit
  BY <1>2 DEF LoadVariant, Sources
<1>10. /\ hls'.reset = hls.reset /\ hls'.seq + hls'.count <= srv.last + 1
       /\ hls'.seq + hls'.idx <= srv.last + 1
  <2>1. CASE hls' = hls
    BY <1>6, <2>1 DEF OrderParts, EdgeInv
  <2>2. CASE hls' = Aligned(Holds(hls.idx), Listed(0))
    <3>1. srv.first \in Nat /\ srv.last \in Nat /\ srv.first <= srv.last /\ Holds(hls.idx) \in Int
      BY <1>2 DEF Windows, StreamInv, FieldsInv, Holds, Playlists
    <3> HIDE DEF Holds
    <3> QED BY <2>2, <3>1 DEF Aligned, Listed, Most, Least
  <2>3. CASE hls' = Emptied(TRUE, FALSE)
    <3>1. srv.last \in Nat
      BY <1>2 DEF Windows
    <3> QED BY <2>3, <3>1 DEF Emptied
  <2> QED BY <2>1, <2>2, <2>3 DEF LoadVariant
<1>11. EdgeInv'
  BY <1>1, <1>6, <1>9, <1>10 DEF EdgeInv
<1>12. ReadInv'
  BY <1>1, <1>5 DEF ReadInv
<1>13. HistoryTypes'
  BY <1>1, <1>7 DEF OrderParts, HistoryTypes, Counted
<1> QED BY <1>1, <1>4, <1>5, <1>8, <1>10, <1>11, <1>12, <1>13, NothingOnTheWay DEF StreamInv, OrderParts, GenInv


\* The same, or of a later generation and not before it.
Later(x, y) == x = y \/ (x.gen < y.gen /\ x.seg <= y.seg)

LEMMA LaterLeads ==
  ASSUME used \in Counts, used' \in Counts, used'.seeks >= used.seeks
  PROVE  \A x, y, z \in Items : Leads(x, y) /\ Later(y, z) => Leads(x, z)'
BY LeadsOn DEF Later

\* What comes behind the ring gives way to something later.
LEMMA WayMoves ==
  ASSUME FieldsInv, FieldsInv', OrderParts, External' = External, UNCHANGED <<seen, goal, sr>>,
         used' \in Counts, used'.seeks >= used.seeks, hls'.reset >= hls.reset, Cut => Cut',
         AfterRing = Future, Later(Future, AfterRing'),
         th'.reader.at = "item" <=> th.reader.at = "item",
         th.reader.at = "item" => th'.reader.item = th.reader.item,
         th'.fetcher.at = "item" =>
           th'.fetcher.item.gen <= hls'.reset /\ Leads(th.fetcher.item, Future)'
  PROVE  HistoryTypes' /\ GenInv' /\ (~Cut => WayInv)' /\ GoalInv'
<1>1. HistoryTypes'
  BY DEF OrderParts, HistoryTypes
<1>2. /\ AfterRing \in Items /\ AfterReader \in Items /\ AfterSeen \in Items
      /\ AfterRing' \in Items /\ AfterReader' \in Items /\ AfterSeen' \in Items
      /\ seen.item \in Items /\ goal \in Items /\ th.reader.item \in Items
      /\ hls.reset \in Int /\ hls'.reset \in Int
  <2>1. hls.reset \in Int /\ hls'.reset \in Int
    BY DEF FieldsInv, Playlists
  <2>2. seen.item \in Items /\ goal \in Items
    BY DEF OrderParts, HistoryTypes
  <2>3. (AfterRing \in Items /\ AfterReader \in Items /\ AfterSeen \in Items)'
    BY WayTypes, PTL
  <2> QED BY <2>1, <2>2, <2>3, WayTypes DEF Threads
<1>3. Later(AfterReader, AfterReader')
  BY DEF AfterReader, Later
<1>4. Later(AfterSeen, AfterSeen')
  BY <1>3 DEF AfterSeen, Later, At
<1>5. GenInv'
  <2>1. seen.item.gen <= hls'.reset
    BY <1>2 DEF OrderParts, GenInv, Items
  <2>2. th.reader.at = "item" => th.reader.item.gen <= hls'.reset
    BY <1>2 DEF OrderParts, GenInv, Items, At
  <2>3. ASSUME NEW i \in DOMAIN sr.items PROVE sr.items[i].gen <= hls'.reset
    <3>1. sr.items[i] \in Items /\ sr.items[i].gen <= hls.reset
      BY WayTypes DEF OrderParts, GenInv
    <3> QED BY <1>2, <3>1 DEF Items
  <2> QED BY <2>1, <2>2, <2>3 DEF GenInv, At
<1>6. GoalInv'
  <2> SUFFICES ASSUME goal # NoItem
               PROVE  External /\ goal.gen <= hls'.reset /\ (~Cut' => Lands(AfterSeen)')
    BY DEF GoalInv
  <2>1. External /\ goal.gen <= hls.reset /\ (~Cut => Lands(AfterSeen))
    BY DEF OrderParts, GoalInv
  <2>2. goal.gen <= hls'.reset
    BY <1>2, <2>1 DEF Items
  <2>3. ASSUME ~Cut' PROVE Lands(AfterSeen)'
    <3>1. Lands(AfterSeen)
      BY <2>1, <2>3
    <3>2. CASE AfterSeen' = AfterSeen
      BY <3>1, <3>2 DEF Lands
    <3>3. CASE AfterSeen' # AfterSeen
      <4>1. AfterSeen.gen < AfterSeen'.gen /\ AfterSeen.seg <= AfterSeen'.seg
        BY <1>4, <3>3 DEF Later
      <4>2. goal.gen <= AfterSeen.gen
        <5>1. th.reader.at # "item" /\ sr.items = <<>> /\ AfterSeen = AfterRing
          BY <3>3 DEF AfterSeen, AfterReader, At
        <5> QED BY <2>1, <5>1 DEF Future, Item
      <4> QED BY <1>2, <3>1, <4>1, <4>2 DEF Lands, Items
    <3> QED BY <3>2, <3>3
  <2> QED BY <2>1, <2>2, <2>3
<1>7. ASSUME ~Cut' PROVE WayInv'
  <2>1. WayInv /\ used \in Counts
    BY <1>7 DEF OrderParts, HistoryTypes
  <2>2. \A x, y, z \in Items : Leads(x, y) /\ Later(y, z) => Leads(x, z)'
    BY <2>1, LaterLeads
  <2>3. \A x, y \in Items : Leads(x, y) => Leads(x, y)'
    BY <2>1, LeadsOn
  <2>4. (seen # NoneSeen /\ External => Leads(seen.item, AfterSeen))'
    BY <1>2, <1>4, <2>1, <2>2 DEF WayInv
  <2>5. (At("reader", "item") => Leads(th.reader.item, AfterReader))'
    BY <1>2, <1>3, <2>1, <2>2 DEF WayInv, At
  <2>6. (\A i \in 1 .. Len(sr.items) - 1 : Leads(sr.items[i], sr.items[i + 1]))'
    <3> SUFFICES ASSUME NEW i \in 1 .. Len(sr.items) - 1
                 PROVE  Leads(sr.items[i], sr.items[i + 1])'
      OBVIOUS
    <3>1. i \in DOMAIN sr.items /\ i + 1 \in DOMAIN sr.items
      BY WayTypes
    <3>2. sr.items[i] \in Items /\ sr.items[i + 1] \in Items
      BY <3>1, WayTypes
    <3>3. Leads(sr.items[i], sr.items[i + 1])
      BY <2>1 DEF WayInv
    <3> QED BY <2>3, <3>2, <3>3
  <2>7. (sr.items # <<>> => Leads(sr.items[Len(sr.items)], AfterRing))'
    <3> SUFFICES ASSUME sr.items # <<>> PROVE Leads(sr.items[Len(sr.items)], AfterRing)'
      OBVIOUS
    <3>1. sr.items[Len(sr.items)] \in Items
      BY WayTypes
    <3>2. Leads(sr.items[Len(sr.items)], AfterRing)
      BY <2>1 DEF WayInv
    <3> QED BY <1>2, <2>2, <3>1, <3>2
  <2>8. (At("fetcher", "item") => Leads(th.fetcher.item, Future))'
    BY DEF At
  <2> QED BY <2>4, <2>5, <2>6, <2>7, <2>8 DEF WayInv
<1> QED BY <1>1, <1>5, <1>6, <1>7

\* While the reader fetches, or the fetch thread does, nobody else does.
LEMMA OneFetches ==
  ASSUME StreamInv, SeekInv, OrderParts, NEW t \in Threads,
         th[t].at \in ReaderFetches \cup {"item"}, t = "fetcher" \/ th.reader.at # "item"
  PROVE  /\ t = "fetcher" => External /\ th.reader.at \notin ReaderFetches \cup {"move", "start"} /\ sr.up
         /\ t = "reader" => th.fetcher.at = "off" /\ sr.items = <<>>
<1> USE DEF At, ReaderFetches
<1>1. CASE t = "fetcher"
  <2>1. External /\ sr.up
    BY <1>1 DEF StreamInv, StageInv, SeekInv
  <2> QED BY <1>1, <2>1 DEF OrderParts, RingInv
<1>2. CASE t = "reader"
  <2>1. ~sr.up
    BY <1>2 DEF OrderParts, RingInv
  <2> QED BY <1>2, <2>1 DEF OrderParts, RingInv, SeekInv
<1> QED BY <1>1, <1>2 DEF Threads

\* The next segment is fetched.
LEMMA FetchedInOrder ==
  ASSUME StreamInv, StreamInv', SeekInv, OrderParts, NEW t \in Threads, NextFetched(t)
  PROVE  OrderParts' /\ UNCHANGED <<seen, goal>>
<1> USE DEF owners, fetching, shown, histories, At
<1>0. PICK s, gen, y : /\ s = Holds(hls.idx) /\ y = Item(s, gen)
                       /\ gen = IF s \in Disc THEN hls.reset + 1 ELSE hls.reset
  OBVIOUS
<1>1. /\ UNCHANGED <<kind, phase, sr, srv, seek, seen, goal, used>> /\ th[t].at = "fetch" /\ ~InRead(t)
      /\ th' = [th EXCEPT ![t].at = "item", ![t].item = y]
      /\ hls' = [Advanced EXCEPT !.reset = gen] /\ src' = [src EXCEPT !.streak = 0]
      /\ OnServer(s)
  BY <1>0 DEF NextFetched
<1>2. /\ th \in [Threads -> Locals] /\ srv \in Windows /\ src \in Sources /\ hls \in Playlists
      /\ seen.item \in Items
  BY DEF StreamInv, FieldsInv, OrderParts, HistoryTypes
<1>3. External /\ External'
  <2>1. t = "reader" => External
    BY <1>1 DEF InRead
  <2>2. t = "fetcher" => External
    BY <1>1 DEF StreamInv, StageInv
  <2> QED BY <1>1, <2>1, <2>2 DEF Threads, External
<1>4. /\ t = "fetcher" => th.reader.at \notin ReaderFetches \cup {"move", "start"} /\ sr.up
      /\ t = "reader" => th.fetcher.at = "off" /\ sr.items = <<>>
  BY <1>1, OneFetches DEF ReaderFetches
<1>5. /\ th'[t].at = "item" /\ th'[t].item = y
      /\ \A u \in Threads \ {t} : th'[u] = th[u]
  <2> QED BY <1>1, <1>2 DEF Threads, Locals
<1>6. NextSeg = s
  BY <1>0, <1>1, <1>4 DEF NextSeg, ReaderFetches, Threads
<1>7. hls'.seq = hls.seq /\ hls'.count = hls.count /\ hls'.reset = gen /\ hls'.idx = hls.idx + 1
  <2> DEFINE a == Advanced
  <2>1. a \in Playlists /\ a.seq = hls.seq /\ a.count = hls.count /\ a.idx = hls.idx + 1
    BY <1>2 DEF Advanced, Playlists
  <2>2. hls' = [a EXCEPT !.reset = gen]
    BY <1>1
  <2> HIDE DEF a
  <2> QED BY <2>1, <2>2 DEF Playlists
<1>8. s \in Int /\ hls.reset \in Int /\ gen \in Int /\ gen >= hls.reset /\ srv.last \in Int /\ srv.first \in Int
  BY <1>0, <1>2 DEF Playlists, Holds, Windows
<1>9. NextSeg' = s + 1
  <2>1. NextSeg' = hls'.seq + hls'.idx
    BY <1>4, <1>5 DEF NextSeg, Holds, Threads, ReaderFetches
  <2> QED BY <1>0, <1>2, <1>7, <2>1 DEF Holds, Playlists
<1>10. y \in Items /\ y.seg = s /\ y.gen = gen
  BY <1>0, <1>8, Parts DEF Item
<1>11. Future' = Item(s + 1, gen) /\ Future = Item(s, hls.reset)
  BY <1>6, <1>7, <1>9 DEF Future
<1>12. Later(Future, y) /\ Leads(y, Future')
  <2>1. Leads(y, Future')
    BY <1>8, <1>10, <1>11 DEF Leads, Item
  <2>2. CASE gen = hls.reset
    BY <1>0, <1>11, <2>1, <2>2 DEF Later
  <2>3. CASE gen > hls.reset
    BY <1>8, <1>10, <1>11, <2>1, <2>3 DEF Later, Item
  <2> QED BY <1>8, <2>2, <2>3
<1>13. Counted
  BY <1>1, FaultsCount DEF OrderParts
<1>14. RingInv'
  <2>1. External' => th'.reader.at # "serve"
    BY DEF StreamInv, StageInv, ProbeStages
  <2>2. t = "reader" => th'.reader.at = "item"
    BY <1>5
  <2>3. t = "fetcher" => th'.reader = th.reader
    BY <1>5 DEF Threads
  <2>4. t = "reader" => ~sr.up /\ th.reader.at = "fetch"
    BY <1>1, <1>3 DEF OrderParts, RingInv, ReaderFetches
  <2> QED BY <1>1, <1>3, <2>1, <2>2, <2>3, <2>4 DEF RingInv, OrderParts, ReaderFetches, Threads
<1>15. EdgeInv'
  <2>1. s = InitSeg \/ s <= srv.last
    BY <1>1, <1>8 DEF OnServer
  <2>2. s >= 0 /\ srv.last \in Nat
    BY <1>0, <1>2 DEF Holds, Playlists, Windows
  <2>3. s + 1 <= srv.last + 1
    BY <1>8, <2>1, <2>2 DEF InitSeg
  <2>4. src'.mem = src.mem /\ src'.http = src.http
    BY <1>1, <1>2 DEF Sources
  <2> QED BY <1>1, <1>7, <1>9, <2>3, <2>4 DEF EdgeInv, OrderParts
<1>16. ReadInv'
  BY <1>1, <1>3 DEF ReadInv, OrderParts
<1>17. Leads(y, Future)'
  BY <1>1, <1>12 DEF Leads
<1>18. HistoryTypes' /\ GenInv' /\ (~Cut => WayInv)' /\ GoalInv'
  <2>1. CASE t = "fetcher"
    <3>1. AfterRing = Future /\ AfterRing' = y
      BY <1>1, <1>5, <2>1 DEF AfterRing
    <3>2. th'.reader = th.reader /\ th'.fetcher.item = y
      BY <1>5, <2>1 DEF Threads
    <3>3. hls'.reset >= hls.reset /\ y.gen <= hls'.reset /\ External' = External
      BY <1>3, <1>7, <1>8, <1>10
    <3>4. Leads(th.fetcher.item, Future)'
      BY <1>17, <3>2 DEF Leads
    <3> QED BY <1>1, <1>12, <1>13, <3>1, <3>2, <3>3, <3>4, WayMoves DEF StreamInv, Counted, Cut
  <2>2. CASE t = "reader"
    <3>1. /\ th.fetcher.at = "off" /\ th'.fetcher = th.fetcher /\ sr.items = <<>> /\ sr'.items = <<>>
          /\ th'.reader.at = "item" /\ th'.reader.item = y /\ th.reader.at = "fetch"
      BY <1>1, <1>4, <1>5, <2>2 DEF Threads
    <3>2. AfterSeen = Future /\ AfterSeen' = y /\ AfterReader' = Future'
      BY <3>1 DEF AfterSeen, AfterReader, AfterRing
    <3>3. HistoryTypes'
      BY <1>1 DEF OrderParts, HistoryTypes
    <3>4. GenInv'
      <4>1. seen.item.gen <= hls'.reset
        BY <1>2, <1>7, <1>8 DEF OrderParts, GenInv, Items
      <4> QED BY <1>1, <1>7, <1>8, <1>10, <3>1, <4>1 DEF GenInv
    <3>5. WayInv'
      <4>1. seen # NoneSeen => Leads(seen.item, Future)
        BY <1>3, <3>1, <3>2 DEF OrderParts, WayInv, Cut
      <4>2. seen # NoneSeen => Leads(seen.item, y)'
        <5>1. \A a, b, c \in Items : Leads(a, b) /\ Later(b, c) => Leads(a, c)'
          BY <1>13, LaterLeads DEF OrderParts, HistoryTypes, Counted
        <5>2. Future \in Items
          BY WayTypes DEF StreamInv
        <5>3. seen # NoneSeen => \A c \in Items : Later(Future, c) => Leads(seen.item, c)'
          BY <1>1, <1>2, <4>1, <5>1, <5>2
        <5> QED BY <1>10, <1>12, <5>3
      <4> QED BY <1>1, <1>17, <3>1, <3>2, <4>2 DEF WayInv
    <3>6. GoalInv'
      <4>1. goal # NoItem => goal.gen <= hls.reset /\ Lands(Future) /\ goal \in Items
        BY <3>1, <3>2 DEF OrderParts, GoalInv, Cut, HistoryTypes
      <4>2. goal # NoItem => goal.gen <= hls'.reset /\ Lands(y)
        BY <1>7, <1>8, <1>10, <1>11, <4>1 DEF Lands, Item, Items
      <4> QED BY <1>1, <1>3, <3>2, <4>2 DEF GoalInv, Lands
    <3> QED BY <3>3, <3>4, <3>5, <3>6
  <2> QED BY <2>1, <2>2 DEF Threads
<1> QED BY <1>1, <1>14, <1>15, <1>16, <1>18 DEF OrderParts

\* The window has been fetched and the list is gone; its number is kept.
LEMMA RefreshingInOrder ==
  ASSUME StreamInv, StreamInv', SeekInv, OrderParts, NEW t \in Threads, RefreshFetched(t)
  PROVE  OrderParts' /\ UNCHANGED <<seen, goal>>
<1> USE DEF owners, fetching, shown, histories, At
<1>1. /\ UNCHANGED <<kind, phase, sr, srv, seek, seen, goal, used>> /\ th[t].at = "refresh"
      /\ th' = [th EXCEPT ![t].at = "parse", ![t].next = hls.seq + hls.idx]
      /\ hls' = Emptied(FALSE, TRUE) /\ src' = [src EXCEPT !.mem = NoUnit]
  BY DEF RefreshFetched
<1>2. /\ th \in [Threads -> Locals] /\ srv \in Windows /\ src \in Sources /\ hls \in Playlists
  BY DEF StreamInv, FieldsInv
<1>3. /\ t = "fetcher" => External /\ th.reader.at \notin ReaderFetches \cup {"move", "start"} /\ sr.up
      /\ t = "reader" => th.fetcher.at = "off" /\ sr.items = <<>>
  BY <1>1, OneFetches DEF ReaderFetches
<1>4. /\ th'[t].at = "parse" /\ th'[t].next = hls.seq + hls.idx
      /\ \A u \in Threads \ {t} : th'[u] = th[u]
  BY <1>1, <1>2 DEF Threads, Locals
<1>5. NextSeg = hls.seq + hls.idx /\ NextSeg' = NextSeg
  BY <1>1, <1>3, <1>4 DEF NextSeg, ReaderFetches, Threads, Holds
<1>6. hls'.reset = hls.reset /\ hls'.seq + hls'.count = 0
  BY <1>1 DEF Emptied
<1>7. Counted
  BY <1>1, FaultsCount DEF OrderParts
<1>8. External' = External
  BY <1>1 DEF External
<1>9. HistoryTypes' /\ GenInv' /\ (~Cut => WayInv)' /\ GoalInv'
  <2>1. \A u \in Threads : /\ th'[u].at = "item" <=> th[u].at = "item"
                           /\ th[u].at = "item" => th'[u].item = th[u].item
    BY <1>1, <1>4
  <2>2. Cut => Cut'
    BY <1>1, <1>4 DEF Cut, Threads
  <2> QED BY <1>1, <1>5, <1>6, <1>7, <1>8, <2>1, <2>2, WayKept DEF StreamInv, Counted
<1>10. RingInv'
  <2>1. t = "reader" => th'.reader.at = "parse"
    BY <1>4
  <2>2. t = "fetcher" => th'.reader = th.reader /\ External /\ th.reader.at # "serve"
    BY <1>3, <1>4 DEF Threads, StreamInv, StageInv, ProbeStages
  <2> QED BY <1>1, <1>8, <2>1, <2>2 DEF RingInv, OrderParts, ReaderFetches, Threads
<1>11. EdgeInv'
  <2>1. src'.mem = NoUnit /\ src'.http = src.http /\ srv.last \in Nat
    BY <1>1, <1>2 DEF Sources, Windows
  <2>2. hls'.seq + hls'.count <= srv.last + 1
    BY <1>6, <2>1
  <2> QED BY <1>1, <1>5, <2>1, <2>2 DEF EdgeInv, OrderParts
<1>12. ReadInv'
  <2>1. ~External => ~Consumed
    <3>1. ~External => th.reader.at = "refresh"
      BY <1>1, <1>3 DEF Threads
    <3> QED BY <3>1 DEF StreamInv, OwnerInv, Consumed, NoneOpen, NoUnit
  <2> QED BY <1>1, <1>5, <1>6, <1>8, <2>1 DEF ReadInv, OrderParts
<1> QED BY <1>1, <1>9, <1>10, <1>11, <1>12 DEF OrderParts

\* A list of the whole window is parsed: the next segment keeps its number, or
\* has left the window, and then the generation is another.
LEMMA ParsedInOrder ==
  ASSUME StreamInv, StreamInv', SeekInv, OrderParts, NEW t \in Threads, RefreshParsed(t),
         "edge" \notin Faults
  PROVE  OrderParts' /\ UNCHANGED <<seen, goal>>
<1> USE DEF owners, fetching, shown, histories, At
<1> DEFINE next == th[t].next
           list == Reindexed(next, Listed(0))
<1>1. /\ UNCHANGED <<kind, phase, sr, srv, src, seek, seen, goal, used>> /\ th[t].at = "parse"
      /\ hls' = list /\ AfterRefresh(t, list.idx < list.count, list.live)
  BY DEF RefreshParsed, Fault
<1>2. /\ th \in [Threads -> Locals] /\ srv \in Windows /\ srv.first <= srv.last /\ src \in Sources
      /\ hls \in Playlists /\ next \in Nat
  BY DEF StreamInv, FieldsInv, Locals
<1>3. /\ t = "fetcher" => External /\ th.reader.at \notin ReaderFetches \cup {"move", "start"} /\ sr.up
      /\ t = "reader" => th.fetcher.at = "off" /\ sr.items = <<>>
  BY <1>1, OneFetches DEF ReaderFetches
<1>4. /\ th'[t].at \in {"fetch", "ended", "wait"} /\ (th'[t].at = "ended" => InRead(t))
      /\ \A u \in Threads \ {t} : th'[u] = th[u]
  <2>1. list.live \in BOOLEAN /\ (list.idx < list.count) \in BOOLEAN
    BY <1>2, Lists DEF Reindexed, Listed, Windows
  <2> HIDE DEF list
  <2> QED BY <1>1, <1>2, <2>1, Returned
<1>5. NextSeg = next
  BY <1>1, <1>3 DEF NextSeg, ReaderFetches, Threads
<1>6. NextSeg' = hls'.seq + hls'.idx
  BY <1>3, <1>4 DEF NextSeg, Holds, Threads, ReaderFetches
<1>7. /\ srv.first \in Nat /\ srv.last \in Nat /\ next <= srv.last + 1 /\ hls.reset \in Nat
  BY <1>2, <1>5 DEF Windows, OrderParts, EdgeInv, Playlists
<1>8. /\ hls'.seq + hls'.count = srv.last + 1
      /\ \/ hls'.reset = hls.reset /\ NextSeg' = NextSeg
         \/ hls'.reset = hls.reset + 1 /\ NextSeg' = srv.first /\ NextSeg < srv.first
  <2>1. /\ hls'.seq = srv.first /\ hls'.count = srv.last - srv.first + 1
        /\ hls'.idx = IF next - srv.first < 0 THEN 0 ELSE Least(next - srv.first, srv.last - srv.first + 1)
        /\ hls'.reset = IF next - srv.first < 0 THEN hls.reset + 1 ELSE hls.reset
    <3>1. Listed(0).seq = srv.first /\ Listed(0).count = srv.last - srv.first + 1
      BY <1>7 DEF Listed
    <3> QED BY <1>1, <3>1 DEF Reindexed
  <2>2. CASE next - srv.first < 0
    BY <1>2, <1>5, <1>6, <1>7, <2>1, <2>2
  <2>3. CASE ~(next - srv.first < 0)
    <3>1. hls'.idx = next - srv.first
      BY <1>2, <1>7, <2>1, <2>3 DEF Least
    <3> QED BY <1>2, <1>5, <1>6, <1>7, <2>1, <2>3, <3>1
  <2> QED BY <2>2, <2>3
<1> HIDE DEF list, next
<1>9. Counted
  BY <1>1, FaultsCount DEF OrderParts
<1>10. External' = External
  BY <1>1 DEF External
<1>11. HistoryTypes' /\ GenInv' /\ (~Cut => WayInv)' /\ GoalInv'
  <2>1. th.fetcher.at # "item" /\ th'.fetcher.at # "item"
    BY <1>1, <1>3, <1>4 DEF Threads
  <2>2. AfterRing = Future /\ AfterRing' = Future'
    BY <2>1 DEF AfterRing
  <2>3. Later(Future, Future')
    <3>1. CASE hls'.reset = hls.reset /\ NextSeg' = NextSeg
      BY <3>1 DEF Later, Future
    <3>2. CASE hls'.reset = hls.reset + 1 /\ NextSeg' = srv.first /\ NextSeg < srv.first
      <4>1. NextSeg \in Int
        BY WayTypes DEF StreamInv
      <4> QED BY <1>7, <3>2, <4>1 DEF Later, Future, Item
    <3> QED BY <1>8, <3>1, <3>2
  <2>4. Cut => Cut'
    BY <1>1, <1>4 DEF Cut, Threads
  <2>5. /\ th'.reader.at = "item" <=> th.reader.at = "item"
        /\ th.reader.at = "item" => th'.reader.item = th.reader.item
    BY <1>1, <1>4 DEF Threads
  <2>6. hls'.reset >= hls.reset
    BY <1>7, <1>8
  <2> QED BY <1>1, <1>9, <1>10, <2>1, <2>2, <2>3, <2>4, <2>5, <2>6, WayMoves DEF StreamInv, Counted
<1>12. RingInv'
  <2>1. t = "reader" => th'.reader.at \in {"fetch", "ended", "wait"} /\ th.reader.at = "parse"
    BY <1>1, <1>4
  <2>2. t = "fetcher" => th'.reader = th.reader
    BY <1>4 DEF Threads
  <2>3. NoneOpen' = NoneOpen
    BY <1>1 DEF NoneOpen
  <2> QED BY <1>1, <1>10, <2>1, <2>2, <2>3 DEF RingInv, OrderParts, ReaderFetches, Threads
<1>13. EdgeInv'
  <2>1. NextSeg' <= srv.last + 1
    BY <1>2, <1>5, <1>7, <1>8
  <2>2. hls'.seq + hls'.count <= srv.last + 1
    BY <1>7, <1>8
  <2> QED BY <1>1, <2>1, <2>2 DEF EdgeInv, OrderParts
<1>14. ReadInv'
  <2>1. Consumed' = Consumed
    BY <1>1 DEF Consumed
  <2>2. seen.item \in Items /\ seen.item.gen <= hls.reset
    BY DEF OrderParts, HistoryTypes, GenInv
  <2>3. hls'.reset = hls.reset + 1 => seen.item.gen < hls'.reset
    BY <1>7, <2>2 DEF Items
  <2> QED BY <1>1, <1>8, <1>10, <2>1, <2>3 DEF ReadInv, OrderParts
<1> QED BY <1>1, <1>11, <1>12, <1>13, <1>14 DEF OrderParts

\* While the ring is stopped for a seek nothing of what is on its way counts.
LEMMA CutInOrder ==
  ASSUME StreamInv, StreamInv', SeekInv, OrderParts, ~Stopped,
         FetcherStops \/ SeekHalts \/ SeekJoins
  PROVE  OrderParts' /\ UNCHANGED <<seen, goal>>
<1> USE DEF owners, fetching, shown, histories, At, Goes
<1>1. UNCHANGED <<kind, phase, srv, hls, src, seek, seen, goal, used>>
  BY DEF FetcherStops, SeekHalts, SeekJoins
<1>2. /\ th \in [Threads -> Locals] /\ srv \in Windows /\ sr \in Rings
  BY DEF StreamInv, FieldsInv
<1>3. Counted
  BY <1>1, FaultsCount DEF OrderParts
<1>4. External' = External
  BY <1>1 DEF External
<1>5. /\ th'.reader.at \in {"join", "move"} /\ th.reader.at \in {"halt", "join"}
      /\ th'.fetcher = th.fetcher \/ (th.fetcher.at \in {"item", "none"} /\ th'.fetcher.at = "off")
  <2>1. CASE FetcherStops
    <3>1. th'.reader = th.reader /\ th'.fetcher.at = "off" /\ th.fetcher.at \in {"item", "none"} /\ sr.stop
      BY <1>2, <2>1 DEF FetcherStops, Begins, Threads
    <3>2. th.reader.at \in {"join", "move", "start"} /\ sr.up
      BY <3>1 DEF OrderParts, RingInv, SeekInv
    <3>3. th.reader.at = "join"
      BY <3>2 DEF OrderParts, RingInv
    <3> QED BY <3>1, <3>3
  <2>2. CASE SeekHalts
    BY <1>2, <2>2 DEF SeekHalts, Threads, Locals
  <2>3. CASE SeekJoins
    BY <1>2, <2>3 DEF SeekJoins, Threads, Locals
  <2> QED BY <2>1, <2>2, <2>3
<1>6. NextSeg' = NextSeg
  BY <1>1, <1>5 DEF NextSeg, Holds
<1>7. HistoryTypes'
  BY <1>1 DEF OrderParts, HistoryTypes
<1>8. Cut'
  BY <1>5 DEF Cut
<1>9. sr'.items \in {sr.items, <<>>} /\ (sr'.up \in {sr.up, FALSE}) /\ (sr'.up = FALSE => sr'.items = <<>>)
  <2>1. CASE FetcherStops
    BY <2>1 DEF FetcherStops, OrderParts, RingInv
  <2>2. CASE SeekHalts
    <3>1. sr' = [sr EXCEPT !.stop = sr.stop \/ sr.up]
      BY <2>2 DEF SeekHalts, Halted
    <3>2. sr'.items = sr.items /\ sr'.up = sr.up
      BY <1>2, <3>1 DEF Rings
    <3> QED BY <3>2 DEF OrderParts, RingInv
  <2>3. CASE SeekJoins
    BY <1>2, <2>3 DEF SeekJoins, Rings
  <2> QED BY <2>1, <2>2, <2>3
<1>10. GenInv'
  BY <1>1, <1>5, <1>9 DEF GenInv, OrderParts
<1>11. GoalInv'
  BY <1>1, <1>4, <1>8 DEF GoalInv, OrderParts
<1>12. EdgeInv' /\ ReadInv'
  <2>1. srv'.last >= srv.last
    BY <1>1, <1>2 DEF Windows
  <2>2. Opens
    BY <1>1, OpensSame
  <2> QED BY <1>1, <1>4, <1>6, <2>1, <2>2, StreamKept DEF StreamInv, Opens
<1>13. RingInv'
  <2>1. External
    BY <1>5 DEF StreamInv, StageInv, RingStages
  <2>2. th'.reader.at = "move" => ~sr'.up
    <3>1. CASE FetcherStops
      BY <1>2, <1>5, <3>1 DEF FetcherStops, Threads, OrderParts, RingInv
    <3>2. CASE SeekHalts
      <4>1. sr'.up = sr.up
        BY <1>2, <3>2 DEF SeekHalts, Halted, Rings
      <4> QED BY <1>2, <3>2, <4>1 DEF SeekHalts, Threads, Locals
    <3>3. CASE SeekJoins
      BY <1>2, <3>3 DEF SeekJoins, Rings
    <3> QED BY <3>1, <3>2, <3>3
  <2> QED BY <1>1, <1>4, <1>5, <1>9, <2>1, <2>2 DEF RingInv, OrderParts, ReaderFetches
<1> QED BY <1>1, <1>7, <1>8, <1>10, <1>11, <1>12, <1>13 DEF OrderParts

\* The ring and its thread begin with nothing on its way.
LEMMA StartsInOrder ==
  ASSUME StreamInv, StreamInv', SeekInv, OrderParts, ~Stopped, StartsReadAhead
  PROVE  OrderParts' /\ UNCHANGED <<seen, goal>>
<1> USE DEF owners, fetching, shown, histories, At
<1>1. /\ UNCHANGED <<kind, srv, hls, src, seek, seen, goal, used>> /\ th.reader.at = "start"
      /\ phase' = "playing"
  BY DEF StartsReadAhead
<1>2. /\ th \in [Threads -> Locals] /\ srv \in Windows
  BY DEF StreamInv, FieldsInv
<1>3. /\ th'.reader.at = "loop" /\ th'.fetcher.at \in {"next", "off"}
      /\ sr'.items = <<>> /\ ~sr'.stop
  BY <1>2 DEF StartsReadAhead, Begins, Threads
<1>4. ~kind.fmp4 /\ External'
  BY <1>1 DEF StreamInv, StageInv, External
<1>5. sr.items = <<>> /\ th.fetcher.at = "off"
  BY <1>1 DEF OrderParts, RingInv, SeekInv
<1>6. NextSeg' = NextSeg /\ NextSeg = Holds(hls.idx)
  BY <1>1, <1>3, <1>5 DEF NextSeg, Holds
<1>7. Future' = Future /\ AfterSeen = Future /\ AfterSeen' = Future
  BY <1>1, <1>3, <1>5, <1>6 DEF Future, AfterSeen, AfterReader, AfterRing
<1>8. HistoryTypes'
  BY <1>1 DEF OrderParts, HistoryTypes
<1>9. GenInv'
  BY <1>1, <1>3 DEF GenInv, OrderParts
<1>10. WayInv'
  <2>1. seen # NoneSeen => External
    BY <1>4, NothingSeen DEF External, StreamInv, FieldsInv
  <2>2. seen # NoneSeen => Leads(seen.item, Future)
    BY <1>1, <1>7, <2>1 DEF OrderParts, WayInv, Cut
  <2>3. seen # NoneSeen => Leads(seen.item, Future)'
    BY <1>1, <1>7, <2>2 DEF Leads
  <2> QED BY <1>1, <1>3, <1>7, <2>3 DEF WayInv
<1>11. GoalInv'
  BY <1>1, <1>4, <1>7 DEF GoalInv, OrderParts, Lands, Cut
<1>12. EdgeInv'
  BY <1>1, <1>6 DEF EdgeInv, OrderParts
<1>13. ReadInv'
  BY <1>1, <1>4 DEF ReadInv
<1>14. RingInv'
  BY <1>1, <1>3, <1>4 DEF RingInv, OrderParts, ReaderFetches
<1> QED BY <1>1, <1>8, <1>9, <1>10, <1>11, <1>12, <1>13, <1>14 DEF OrderParts

\* A segment goes into the ring behind the others.
LEMMA PushesInOrder ==
  ASSUME StreamInv, StreamInv', SeekInv, OrderParts, FetcherPushes
  PROVE  OrderParts' /\ UNCHANGED <<seen, goal>>
<1> USE DEF owners, fetching, shown, histories, At
<1>1. /\ UNCHANGED <<kind, phase, srv, hls, src, seek, seen, goal, used>>
      /\ th.fetcher.at = "item" /\ sr' = [sr EXCEPT !.items = Append(sr.items, th.fetcher.item)]
  BY DEF FetcherPushes
<1>2. /\ th \in [Threads -> Locals] /\ sr \in Rings /\ sr.items \in Seq(Items)
      /\ seen.item \in Items /\ srv \in Windows
  BY DEF StreamInv, FieldsInv, Rings, OrderParts, HistoryTypes
<1>3. th'.fetcher.at = "next" /\ th'.reader = th.reader
  BY <1>2 DEF FetcherPushes, Begins, Threads
<1>4. sr'.up = sr.up /\ sr'.stop = sr.stop /\ sr'.items = Append(sr.items, th.fetcher.item)
  BY <1>1, <1>2 DEF Rings
<1>5. External' = External /\ External /\ sr.up
  BY <1>1 DEF External, StreamInv, StageInv, SeekInv
<1>6. NextSeg' = NextSeg
  BY <1>1, <1>3 DEF NextSeg, Holds
<1>7. Future' = Future
  BY <1>1, <1>6 DEF Future
<1> DEFINE x == th.fetcher.item
           n == Len(sr.items)
<1>8. x \in Items /\ n \in Nat
  BY <1>2, WayTypes DEF StreamInv, Threads
<1>9. /\ Len(sr'.items) = n + 1 /\ sr'.items # <<>> /\ sr'.items[n + 1] = x
      /\ \A i \in 1 .. n : sr'.items[i] = sr.items[i]
      /\ Head(sr'.items) = IF sr.items = <<>> THEN x ELSE Head(sr.items)
      /\ DOMAIN sr'.items = 1 .. n + 1 /\ DOMAIN sr.items = 1 .. n
  <2> HIDE DEF x
  <2> QED BY <1>2, <1>4, <1>8 DEF x
<1>10. AfterReader' = AfterReader /\ AfterSeen' = AfterSeen /\ AfterRing' = Future /\ AfterRing = x
  <2>1. AfterRing' = Future /\ AfterRing = x
    BY <1>1, <1>3, <1>7 DEF AfterRing
  <2>2. AfterReader' = AfterReader
    BY <1>9, <2>1 DEF AfterReader
  <2> QED BY <1>3, <2>1, <2>2 DEF AfterSeen
<1>11. HistoryTypes'
  BY <1>1 DEF OrderParts, HistoryTypes
<1>12. GenInv'
  <2>1. ASSUME NEW i \in DOMAIN sr'.items PROVE sr'.items[i].gen <= hls.reset
    <3>1. CASE i = n + 1
      BY <1>1, <1>9, <3>1 DEF OrderParts, GenInv
    <3>2. CASE i \in 1 .. n
      BY <1>9, <3>2 DEF OrderParts, GenInv
    <3> QED BY <1>8, <1>9, <3>1, <3>2
  <2> QED BY <1>1, <1>3, <2>1 DEF OrderParts, GenInv
<1>13. ASSUME ~Cut' PROVE WayInv'
  <2>1. WayInv
    BY <1>3, <1>13 DEF OrderParts, Cut
  <2>2. \A a, b : Leads(a, b) => Leads(a, b)'
    BY <1>1 DEF Leads
  <2>3. (seen # NoneSeen /\ External => Leads(seen.item, AfterSeen))'
    BY <1>1, <1>5, <1>10, <2>1, <2>2 DEF WayInv
  <2>4. (At("reader", "item") => Leads(th.reader.item, AfterReader))'
    BY <1>3, <1>10, <2>1, <2>2 DEF WayInv
  <2>5. (\A i \in 1 .. Len(sr.items) - 1 : Leads(sr.items[i], sr.items[i + 1]))'
    <3> SUFFICES ASSUME NEW i \in 1 .. n PROVE Leads(sr.items[i], sr.items[i + 1])'
      BY <1>8, <1>9
    <3>1. CASE i = n
      <4>1. sr.items # <<>>
        BY <1>2, <3>1
      <4>2. Leads(sr.items[n], x)
        BY <1>10, <2>1, <4>1 DEF WayInv
      <4> QED BY <1>9, <2>2, <3>1, <4>2
    <3>2. CASE i \in 1 .. n - 1
      <4>1. Leads(sr.items[i], sr.items[i + 1])
        BY <2>1, <3>2 DEF WayInv
      <4>2. sr'.items[i] = sr.items[i] /\ sr'.items[i + 1] = sr.items[i + 1]
        BY <1>8, <1>9, <3>2
      <4> QED BY <2>2, <4>1, <4>2
    <3> QED BY <1>8, <3>1, <3>2
  <2>6. (sr.items # <<>> => Leads(sr.items[Len(sr.items)], AfterRing))'
    <3>1. Leads(x, Future)
      BY <1>1, <2>1 DEF WayInv
    <3> QED BY <1>9, <1>10, <2>2, <3>1
  <2> QED BY <1>3, <2>3, <2>4, <2>5, <2>6 DEF WayInv
<1>14. GoalInv'
  BY <1>1, <1>3, <1>5, <1>10 DEF GoalInv, OrderParts, Lands, Cut
<1>15. EdgeInv' /\ ReadInv'
  <2>1. srv'.last >= srv.last
    BY <1>1, <1>2 DEF Windows
  <2>2. Opens
    BY <1>1, OpensSame
  <2> QED BY <1>1, <1>5, <1>6, <2>1, <2>2, StreamKept DEF StreamInv, Opens
<1>16. RingInv'
  BY <1>1, <1>3, <1>4, <1>5 DEF RingInv, OrderParts, NoneOpen
<1> QED BY <1>1, <1>11, <1>12, <1>13, <1>14, <1>15, <1>16 DEF OrderParts

\* The reader takes the first of the ring into its hand.
LEMMA PopsInOrder ==
  ASSUME StreamInv, StreamInv', SeekInv, OrderParts, Pops
  PROVE  OrderParts' /\ UNCHANGED <<seen, goal>>
<1> USE DEF owners, fetching, shown, histories, At
<1>1. /\ UNCHANGED <<kind, phase, srv, hls, src, seek, seen, goal, used>>
      /\ th.reader.at = "pop" /\ sr.items # <<>> /\ sr' = [sr EXCEPT !.items = Tail(sr.items)]
  BY DEF Pops
<1>2. /\ th \in [Threads -> Locals] /\ sr \in Rings /\ sr.items \in Seq(Items)
      /\ seen.item \in Items /\ srv \in Windows
  BY DEF StreamInv, FieldsInv, Rings, OrderParts, HistoryTypes
<1>3. th'.reader.at = "item" /\ th'.reader.item = Head(sr.items) /\ th'.fetcher = th.fetcher
  <2> DEFINE x == Head(sr.items)
  <2>1. th' = [th EXCEPT !.reader.at = "item", !.reader.item = x]
    BY DEF Pops
  <2> HIDE DEF x
  <2>2. th'.reader.at = "item" /\ th'.reader.item = x /\ th'.fetcher = th.fetcher
    BY <1>2, <2>1 DEF Threads, Locals
  <2> QED BY <2>2 DEF x
<1>4. sr'.up = sr.up /\ sr'.stop = sr.stop /\ sr'.items = Tail(sr.items)
  BY <1>1, <1>2 DEF Rings
<1>5. External' = External /\ External
  BY <1>1 DEF External, StreamInv, StageInv, RingStages
<1>6. NextSeg' = NextSeg
  BY <1>1, <1>3 DEF NextSeg, Holds
<1>7. Future' = Future /\ AfterRing' = AfterRing
  BY <1>1, <1>3, <1>6 DEF Future, AfterRing
<1> DEFINE x == Head(sr.items)
           n == Len(sr.items)
<1>8. /\ n \in Nat \ {0} /\ x = sr.items[1] /\ x \in Items /\ Len(sr'.items) = n - 1
      /\ \A i \in 1 .. n - 1 : sr'.items[i] = sr.items[i + 1]
      /\ (sr'.items = <<>>) <=> (n = 1)
      /\ n > 1 => Head(sr'.items) = sr.items[2]
      /\ DOMAIN sr'.items = 1 .. n - 1 /\ DOMAIN sr.items = 1 .. n
  <2>1. sr.items \in Seq(Items) /\ sr.items # <<>>
    BY <1>1, <1>2
  <2>2. n \in Nat \ {0} /\ x = sr.items[1] /\ x \in Items /\ DOMAIN sr.items = 1 .. n
    BY <2>1
  <2>3. /\ Tail(sr.items) \in Seq(Items) /\ Len(Tail(sr.items)) = n - 1
        /\ \A i \in 1 .. n - 1 : Tail(sr.items)[i] = sr.items[i + 1]
    BY <2>1, <2>2
  <2> DEFINE tail == Tail(sr.items)
  <2> HIDE DEF tail
  <2>4. tail \in Seq(Items) /\ Len(tail) = n - 1 /\ \A i \in 1 .. n - 1 : tail[i] = sr.items[i + 1]
    BY <2>3 DEF tail
  <2>5. (tail = <<>>) <=> (n = 1)
    <3>1. (tail = <<>>) <=> (Len(tail) = 0)
      BY <2>4, EmptySeq
    <3>2. n - 1 = 0 <=> n = 1
      BY <2>2
    <3> HIDE DEF n
    <3> QED BY <2>4, <3>1, <3>2
  <2>6. n > 1 => Head(tail) = sr.items[2]
    BY <2>2, <2>4
  <2>7. DOMAIN tail = 1 .. n - 1
    BY <2>4
  <2> QED BY <1>4, <2>2, <2>4, <2>5, <2>6, <2>7 DEF tail
<1>9. AfterSeen = x /\ AfterSeen' = x
  BY <1>1, <1>3 DEF AfterSeen, AfterReader
<1>10. /\ n = 1 => AfterReader' = AfterRing
       /\ n > 1 => AfterReader' = sr.items[2]
  BY <1>7, <1>8 DEF AfterReader
<1>11. HistoryTypes'
  BY <1>1 DEF OrderParts, HistoryTypes
<1>12. GenInv'
  <2>1. ASSUME NEW i \in DOMAIN sr'.items PROVE sr'.items[i].gen <= hls.reset
    <3>1. i + 1 \in DOMAIN sr.items /\ sr'.items[i] = sr.items[i + 1]
      BY <1>8
    <3> QED BY <3>1 DEF OrderParts, GenInv
  <2>2. x.gen <= hls.reset
    BY <1>8 DEF OrderParts, GenInv
  <2> QED BY <1>1, <1>3, <2>1, <2>2 DEF OrderParts, GenInv
<1>13. WayInv'
  <2>1. WayInv
    BY <1>1 DEF OrderParts, Cut
  <2>2. \A a, b : Leads(a, b) => Leads(a, b)'
    BY <1>1 DEF Leads
  <2>3. (seen # NoneSeen /\ External => Leads(seen.item, AfterSeen))'
    BY <1>1, <1>5, <1>9, <2>1, <2>2 DEF WayInv
  <2>4. (At("reader", "item") => Leads(th.reader.item, AfterReader))'
    <3>1. CASE n = 1
      <4>1. Leads(x, AfterRing)
        BY <1>1, <1>8, <2>1, <3>1 DEF WayInv
      <4> QED BY <1>3, <1>10, <2>2, <3>1, <4>1
    <3>2. CASE n > 1
      <4>1. Leads(sr.items[1], sr.items[1 + 1])
        <5>1. 1 \in 1 .. Len(sr.items) - 1
          BY <1>8, <3>2
        <5> QED BY <2>1, <5>1 DEF WayInv
      <4> QED BY <1>3, <1>8, <1>10, <2>2, <3>2, <4>1
    <3> QED BY <1>8, <3>1, <3>2
  <2>5. (\A i \in 1 .. Len(sr.items) - 1 : Leads(sr.items[i], sr.items[i + 1]))'
    <3> SUFFICES ASSUME NEW i \in 1 .. n - 2 PROVE Leads(sr.items[i], sr.items[i + 1])'
      BY <1>8
    <3>1. i + 1 \in 1 .. Len(sr.items) - 1
      BY <1>8
    <3>2. Leads(sr.items[i + 1], sr.items[i + 1 + 1])
      BY <2>1, <3>1 DEF WayInv
    <3>3. sr'.items[i] = sr.items[i + 1] /\ sr'.items[i + 1] = sr.items[i + 1 + 1]
      BY <1>8
    <3> QED BY <2>2, <3>2, <3>3
  <2>6. (sr.items # <<>> => Leads(sr.items[Len(sr.items)], AfterRing))'
    <3> SUFFICES ASSUME sr'.items # <<>> PROVE Leads(sr.items[Len(sr.items)], AfterRing)'
      OBVIOUS
    <3>1. sr'.items[n - 1] = sr.items[n]
      BY <1>8
    <3>2. Leads(sr.items[n], AfterRing)
      BY <1>1, <2>1 DEF WayInv
    <3> QED BY <1>7, <1>8, <2>2, <3>1, <3>2
  <2>7. (At("fetcher", "item") => Leads(th.fetcher.item, Future))'
    BY <1>3, <1>7, <2>1, <2>2 DEF WayInv
  <2> QED BY <2>3, <2>4, <2>5, <2>6, <2>7 DEF WayInv
<1>14. GoalInv'
  BY <1>1, <1>5, <1>9 DEF GoalInv, OrderParts, Lands, Cut
<1>15. EdgeInv' /\ ReadInv'
  <2>1. srv'.last >= srv.last
    BY <1>1, <1>2 DEF Windows
  <2>2. Opens
    BY <1>1, OpensSame
  <2> QED BY <1>1, <1>5, <1>6, <2>1, <2>2, StreamKept DEF StreamInv, Opens
<1>16. RingInv'
  BY <1>1, <1>3, <1>4, <1>5 DEF RingInv, OrderParts, ReaderFetches
<1> QED BY <1>1, <1>11, <1>12, <1>13, <1>14, <1>15, <1>16 DEF OrderParts

\* The segment in hand is decoded, or dropped because a seek came.
LEMMA DecodesInOrder ==
  ASSUME StreamInv, StreamInv', SeekInv, OrderParts, Decodes
  PROVE  OrderParts' /\ PlaysOn
<1> USE DEF owners, fetching, shown, histories, At
<1>0. PICK x : x = th.reader.item
  OBVIOUS
<1>1. /\ UNCHANGED <<kind, phase, srv, hls, src, sr, seek, used>>
      /\ th.reader.at = "item" /\ External /\ goal' = NoItem
      /\ \/ seek < 0 /\ seen' = [item |-> x, again |-> x = seen.item /\ ~seen.again]
         \/ seek >= 0 /\ seen' = seen
  BY <1>0 DEF Decodes, Sees, StreamInv, FieldsInv
<1>2. /\ th \in [Threads -> Locals] /\ seen.item \in Items /\ goal \in Items /\ srv \in Windows
      /\ used \in Counts
  BY DEF StreamInv, FieldsInv, OrderParts, HistoryTypes
<1>3. th'.reader.at = "loop" /\ th'.fetcher = th.fetcher
  BY <1>2 DEF Decodes, Begins, Threads
<1>4. External' /\ x \in Items
  BY <1>0, <1>1, <1>2, WayTypes DEF External, StreamInv, Threads
<1>5. NextSeg' = NextSeg
  BY <1>1, <1>3 DEF NextSeg, Holds
<1>6. /\ AfterSeen = x /\ AfterReader' = AfterReader /\ AfterSeen' = AfterReader
      /\ AfterRing' = AfterRing /\ Future' = Future
  <2>1. Future' = Future
    BY <1>1, <1>5 DEF Future
  <2>2. AfterRing' = AfterRing
    BY <1>3, <2>1 DEF AfterRing
  <2>3. AfterReader' = AfterReader
    BY <1>1, <2>2 DEF AfterReader
  <2> QED BY <1>0, <1>1, <1>3, <2>1, <2>2, <2>3 DEF AfterSeen
<1>7. WayInv
  BY <1>1 DEF OrderParts, Cut
<1>8. /\ seen # NoneSeen => Leads(seen.item, x)
      /\ Leads(x, AfterReader)
  BY <1>0, <1>1, <1>6, <1>7 DEF WayInv
<1>9. HistoryTypes'
  <2>1. NoItem \in Items
    BY Parts
  <2>2. seen' \in [item : Items, again : BOOLEAN]
    <3>1. CASE seen' = seen
      BY <3>1 DEF OrderParts, HistoryTypes
    <3>2. CASE seen' = [item |-> x, again |-> x = seen.item /\ ~seen.again]
      <4> QED BY <1>4, <3>2
    <3> QED BY <1>1, <3>1, <3>2
  <2> QED BY <1>1, <2>1, <2>2 DEF OrderParts, HistoryTypes
<1>10. seen' = seen \/ seen'.item = x
  BY <1>1
<1>11. GenInv'
  <2>1. x.gen <= hls.reset
    BY <1>0, <1>1 DEF OrderParts, GenInv
  <2>2. seen'.item.gen <= hls.reset
    BY <1>10, <2>1 DEF OrderParts, GenInv
  <2> QED BY <1>1, <1>3, <2>2 DEF OrderParts, GenInv
<1>12. WayInv'
  <2>1. \A a, b : Leads(a, b) => Leads(a, b)'
    BY <1>1 DEF Leads
  <2>2. (seen # NoneSeen /\ External => Leads(seen.item, AfterSeen))'
    <3>1. CASE seek < 0
      <4>1. seen'.item = x
        BY <1>1, <3>1 DEF StreamInv, FieldsInv
      <4>2. Leads(seen'.item, AfterSeen')
        BY <1>6, <1>8, <4>1
      <4> QED BY <1>1, <4>2 DEF Leads
    <3>2. CASE seek >= 0
      <4>1. used.seeks > 0 /\ seen' = seen
        BY <1>1, <3>2 DEF OrderParts, RingInv, StreamInv, FieldsInv
      <4>2. AfterReader \in Items
        BY WayTypes DEF StreamInv
      <4>3. seen # NoneSeen => Leads(seen.item, AfterReader)
        <5>1. \A a, b, c \in Items : Leads(a, b) /\ Leads(b, c) /\ used.seeks > 0 => Leads(a, c)'
          BY <1>1, <1>2, LeadsOn, FaultsCount DEF OrderParts, Counted
        <5>2. \A a, b, c \in Items : Leads(a, b) /\ Leads(b, c) => Leads(a, c)
          BY <1>1, <4>1, <5>1 DEF Leads
        <5> QED BY <1>2, <1>4, <1>8, <4>2, <5>2
      <4> QED BY <1>1, <1>6, <4>1, <4>3 DEF Leads
    <3> QED BY <1>1, <3>1, <3>2
  <2>3. (\A i \in 1 .. Len(sr.items) - 1 : Leads(sr.items[i], sr.items[i + 1]))'
    BY <1>1, <1>7, <2>1 DEF WayInv
  <2>4. (sr.items # <<>> => Leads(sr.items[Len(sr.items)], AfterRing))'
    BY <1>1, <1>6, <1>7, <2>1 DEF WayInv
  <2>5. (At("fetcher", "item") => Leads(th.fetcher.item, Future))'
    BY <1>3, <1>6, <1>7, <2>1 DEF WayInv
  <2> QED BY <1>3, <2>2, <2>3, <2>4, <2>5 DEF WayInv
<1>13. GoalInv'
  BY <1>1 DEF GoalInv
<1>14. EdgeInv'
  BY <1>1, <1>5 DEF EdgeInv, OrderParts
<1>15. ReadInv'
  <2>1. phase = "playing"
    BY <1>1 DEF External
  <2> QED BY <1>1, <1>4, <2>1 DEF ReadInv
<1>16. RingInv'
  BY <1>1, <1>3, <1>4 DEF RingInv, OrderParts, ReaderFetches
<1>17. PlaysOn
  <2> SUFFICES ASSUME seen' # seen PROVE PlaysOn
    BY DEF PlaysOn
  <2>1. seen'.item = x
    BY <1>10
  <2>2. goal # NoItem => Lands(x)
    BY <1>1, <1>6 DEF OrderParts, GoalInv, Cut
  <2>3. x.gen \in Int /\ x.seg \in Int /\ seen.item.gen \in Int /\ seen.item.seg \in Int
    <3> QED BY <1>2, <1>4 DEF Items
  <2>4. goal.seg \in Int /\ goal.gen \in Int
    BY <1>2 DEF Items
  <2> QED BY <1>8, <2>1, <2>2, <2>3, <2>4 DEF PlaysOn, Leads, Lands
<1> QED BY <1>9, <1>11, <1>12, <1>13, <1>14, <1>15, <1>16, <1>17 DEF OrderParts

\* A seek moves to its target, with nothing on its way and a new generation.
LEMMA MovesInOrder ==
  ASSUME StreamInv, StreamInv', SeekInv, OrderParts, SeekMoves
  PROVE  OrderParts' /\ UNCHANGED seen
<1> USE DEF owners, fetching, shown, histories, At, Goes
<1> DEFINE target == Least(th.reader.next, hls.count)
<1>1. /\ UNCHANGED <<kind, phase, srv, sr, seek, seen, used>> /\ th.reader.at = "move"
      /\ hls' = [hls EXCEPT !.idx = target, !.reset = hls.reset + 1]
      /\ src' = [src EXCEPT !.mem = NoUnit, !.http = NoUnit]
      /\ goal' = IF target < hls.count THEN Item(Holds(target), hls.reset + 1) ELSE NoItem
  BY DEF SeekMoves
<1>2. /\ th \in [Threads -> Locals] /\ srv \in Windows /\ src \in Sources /\ hls \in Playlists
      /\ seen.item \in Items /\ th.reader.next \in Nat
  BY DEF StreamInv, FieldsInv, OrderParts, HistoryTypes, Locals, Threads
<1>3. th'.reader.at = "start" /\ th'.fetcher = th.fetcher
  BY <1>2 DEF SeekMoves, Threads, Locals
<1>4. External /\ External'
  BY <1>1 DEF External, StreamInv, StageInv, RingStages
<1>5. ~sr.up /\ sr.items = <<>> /\ th.fetcher.at = "off"
  BY <1>1 DEF OrderParts, RingInv, SeekInv
<1>6. target \in Nat /\ target <= hls.count /\ hls.seq \in Nat /\ hls.count \in Nat /\ hls.reset \in Nat
  BY <1>2 DEF Least, Playlists
<1> HIDE DEF target
<1>7. /\ hls'.seq = hls.seq /\ hls'.count = hls.count /\ hls'.idx = target
      /\ hls'.reset = hls.reset + 1 /\ src'.mem = NoUnit /\ src'.http = NoUnit
  BY <1>1, <1>2 DEF Playlists, Sources
<1>8. NextSeg' = hls.seq + target
  BY <1>3, <1>5, <1>7 DEF NextSeg, Holds
<1>9. AfterSeen' = Future' /\ Future' = Item(hls.seq + target, hls.reset + 1)
  BY <1>1, <1>3, <1>5, <1>7, <1>8 DEF AfterSeen, AfterReader, AfterRing, Future
<1>10. goal' \in {NoItem, Future'}
  BY <1>1, <1>9 DEF Holds
<1>11. seen.item.gen <= hls.reset /\ seen.item.gen \in Int
  BY <1>2 DEF OrderParts, GenInv, Items
<1>12. HistoryTypes'
  <2>1. Future' \in Items
    <3>1. hls.seq + target \in Int /\ hls.reset + 1 \in Int
      BY <1>6
    <3> QED BY <1>9, <3>1, Parts
  <2> QED BY <1>1, <1>10, <2>1, Parts DEF OrderParts, HistoryTypes
<1>13. GenInv'
  <2>1. seen.item.gen <= hls.reset + 1
    BY <1>6, <1>11
  <2> QED BY <1>1, <1>3, <1>5, <1>7, <2>1 DEF GenInv
<1>14. WayInv'
  <2>1. Leads(seen.item, AfterSeen)'
    BY <1>1, <1>6, <1>9, <1>11 DEF Leads, Item
  <2> QED BY <1>1, <1>3, <1>5, <2>1 DEF WayInv
<1>15. GoalInv'
  BY <1>4, <1>6, <1>7, <1>9, <1>10 DEF GoalInv, Lands, Item
<1>16. EdgeInv'
  <2>1. hls.seq + hls.count <= srv.last + 1 /\ srv.last \in Nat
    BY <1>2 DEF OrderParts, EdgeInv, Windows
  <2>2. NextSeg' <= srv.last + 1
    BY <1>6, <1>8, <2>1
  <2> QED BY <1>1, <1>7, <2>1, <2>2 DEF EdgeInv
<1>17. ReadInv'
  BY <1>1, <1>4 DEF ReadInv, External
<1>18. RingInv'
  BY <1>1, <1>3, <1>4, <1>5 DEF RingInv, OrderParts, ReaderFetches
<1> QED BY <1>1, <1>12, <1>13, <1>14, <1>15, <1>16, <1>17, <1>18 DEF OrderParts

LEMMA ThreadsInOrder ==
  ASSUME StreamInv, StreamInv', SeekInv, OrderParts, Faults \subseteq {"fetch"}, NEW t \in Threads, Steps(t)
  PROVE  OrderParts' /\ UNCHANGED <<seen, goal>>
<1>1. ~RefreshUnparsed(t)
  BY DEF RefreshUnparsed, Fault
<1>2. "edge" \notin Faults
  OBVIOUS
<1> QED BY <1>1, <1>2, LoopsKeepOrder, ClosingKeepsOrder, FetchedInOrder, RefreshingInOrder, ParsedInOrder
        DEF Steps, Refresh, NextSegment, Waits

LEMMA SeekingInOrder ==
  ASSUME StreamInv, StreamInv', SeekInv, OrderParts, ~Stopped, Seeking
  PROVE  OrderParts' /\ UNCHANGED seen
BY ReaderKeepsOrder, CutInOrder, MovesInOrder DEF Seeking

LEMMA ReadingInOrder ==
  ASSUME StreamInv, StreamInv', SeekInv, OrderParts, ~Stopped, Reading \/ Probing
  PROVE  OrderParts' /\ PlaysOn
<1>1. CASE ReadServes
  BY <1>1, ServesInOrder
<1>2. CASE ReadOpen \/ ReadMisses \/ ReadPastEnd \/ Unprefetch \/ ProbeReads \/ ProbeFails
  BY <1>2, ReaderKeepsOrder DEF PlaysOn
<1>3. CASE ReadCached \/ ReadFetched \/ ReadFetchFails \/ ReadDrainsMem \/ ReadDrainsHttp \/ LoadVariant
  BY <1>3, OpeningKeepsOrder, DrainsInOrder, VariantKeepsOrder DEF PlaysOn
<1>4. CASE Detached \/ Probed \/ StartsReadAhead
  BY <1>4, ClosingKeepsOrder, StartsInOrder DEF PlaysOn, Threads
<1> QED BY <1>1, <1>2, <1>3, <1>4 DEF Reading, Probing

LEMMA DecodingInOrder ==
  ASSUME StreamInv, StreamInv', SeekInv, OrderParts, ~Stopped, Decoding \/ FetcherRuns
  PROVE  OrderParts' /\ PlaysOn
<1>1. CASE Decodes
  BY <1>1, DecodesInOrder
<1>2. CASE LoopStops \/ LoopReopens \/ LoopReads \/ Decoded \/ ReadsEnd \/ LoopPops \/ PopsNothing \/ NothingToDecode
  BY <1>2, ReaderKeepsOrder DEF PlaysOn
<1>3. CASE Pops \/ FetcherPushes \/ FetcherStops
  BY <1>3, PopsInOrder, PushesInOrder, CutInOrder DEF PlaysOn
<1>4. CASE FetcherGoesOn
  BY <1>4, LoopsKeepOrder DEF PlaysOn, Threads
<1> QED BY <1>1, <1>2, <1>3, <1>4 DEF Decoding, FetcherRuns

\* Once the stream is being stopped it stays so, and nothing more is decoded.
LEMMA StopsForGood ==
  ASSUME Next
  PROVE  /\ Stopped => Stopped' /\ UNCHANGED seen
         /\ Stopping => Stopped' /\ PlaysOn
<1> USE DEF Stopped, owners, fetching, shown, histories
<1>1. Publish \/ Prefetch \/ AsksSeek => UNCHANGED <<stopper, seen>>
  BY DEF Publish, Prefetch, PrefStops, PrefPicks, PrefFetched, PrefFails, AsksSeek
<1>2. Reading => UNCHANGED stopper /\ (Stopped => UNCHANGED seen)
  BY DEF Reading, ReadOpen, ReadCached, ReadMisses, ReadPastEnd, ReadFetched, ReadFetchFails,
         ReadServes, Demuxes, ReadDrainsMem, ReadDrainsHttp, Unprefetch, LoadVariant
<1>3. Probing \/ Seeking => UNCHANGED <<stopper, seen>>
  BY DEF Probing, ProbeReads, ProbeFails, Probed, Detached, StartsReadAhead,
         Seeking, SeekTaken, SeekHalts, SeekJoins, SeekMoves, SeekLost
<1>4. FetcherRuns \/ Decoding => UNCHANGED stopper /\ (Stopped => UNCHANGED seen)
  BY DEF FetcherRuns, FetcherPushes, FetcherGoesOn, FetcherStops, Decoding, LoopStops, LoopReopens,
         LoopReads, Decoded, ReadsEnd, LoopPops, Pops, PopsNothing, Decodes, NothingToDecode
<1>5. \A t \in Threads : Steps(t) => UNCHANGED <<stopper, seen>>
  BY DEF Steps, Refresh, RefreshFails, RefreshFetched, RefreshParsed, RefreshUnparsed, NextSegment,
         NextStopped, NextPastEnd, NextFetches, NextFetched, NextFails, Waits, WaitOver, GivesUp
<1>6. Stopping => Stopped' /\ PlaysOn /\ (Stopped => UNCHANGED seen)
  BY DEF Stopping, StopFlags, StopSignals, StopJoins, StopRing, StopClosed, PlaysOn
<1> QED BY <1>1, <1>2, <1>3, <1>4, <1>5, <1>6 DEF Next

LEMMA OrderStep ==
  ASSUME StreamInv, StreamInv', SeekInv, OrderInv, Faults \subseteq {"fetch"}, [Next]_vars
  PROVE  OrderInv' /\ (Next => PlaysOn)
<1>1. CASE UNCHANGED vars
  <2> USE <1>1 DEF vars, owners, shown, histories
  <2>1. NextSeg' = NextSeg
    BY DEF NextSeg, At, Holds
  <2>2. Future' = Future
    BY <2>1 DEF Future
  <2>3. AfterRing' = AfterRing
    BY <2>2 DEF AfterRing, At
  <2>4. AfterReader' = AfterReader
    BY <2>3 DEF AfterReader
  <2>5. AfterSeen' = AfterSeen
    BY <2>4 DEF AfterSeen, At
  <2>6. HistoryTypes' = HistoryTypes /\ RingInv' = RingInv /\ GenInv' = GenInv
    BY DEF HistoryTypes, Counts, RingInv, GenInv, External, At, NoneOpen
  <2>7. EdgeInv' = EdgeInv /\ ReadInv' = ReadInv
    BY <2>1 DEF EdgeInv, ReadInv, Consumed, External
  <2>8. WayInv' = WayInv /\ GoalInv' = GoalInv
    BY <2>2, <2>3, <2>4, <2>5 DEF WayInv, GoalInv, Leads, Lands, External, At, Cut
  <2>9. Stopped' = Stopped /\ Cut' = Cut
    BY DEF Stopped, Cut
  <2> QED BY <2>6, <2>7, <2>8, <2>9 DEF OrderInv, OrderParts, PlaysOn
<1>2. CASE Next /\ Stopped
  BY <1>2, StopsForGood DEF OrderInv, PlaysOn
<1>3. CASE Next /\ Stopping
  BY <1>3, StopsForGood DEF OrderInv
<1>4. CASE Next /\ ~Stopped /\ ~Stopping
  <2>1. OrderParts
    BY <1>4 DEF OrderInv
  <2>2. CASE Publish \/ Prefetch \/ AsksSeek
    BY <2>1, <2>2, OthersKeepOrder DEF OrderInv, PlaysOn, Prefetch
  <2>3. CASE Reading \/ Probing
    BY <1>4, <2>1, <2>3, ReadingInOrder DEF OrderInv
  <2>4. CASE Decoding \/ FetcherRuns
    BY <1>4, <2>1, <2>4, DecodingInOrder DEF OrderInv
  <2>5. CASE Seeking
    BY <1>4, <2>1, <2>5, SeekingInOrder DEF OrderInv, PlaysOn
  <2>6. CASE \E t \in Threads : Steps(t)
    BY <2>1, <2>6, ThreadsInOrder DEF OrderInv, PlaysOn
  <2> QED BY <1>4, <2>2, <2>3, <2>4, <2>5, <2>6 DEF Next
<1> QED BY <1>1, <1>2, <1>3, <1>4

LEMMA OrderBegins == Init => OrderInv
<1> SUFFICES ASSUME Init PROVE OrderParts
  BY DEF OrderInv
<1> USE DEF At, Begins
<1>1. FieldsInv
  BY InitHolds DEF StreamInv
<1>2. /\ th.reader.at = "ensure" /\ th.fetcher.at = "off" /\ phase = "probing" /\ ~External
      /\ sr.items = <<>> /\ ~sr.up /\ ~sr.stop /\ seek = -1
      /\ src.mem = NoUnit /\ src.http = NoUnit /\ seen = NoneSeen /\ goal = NoItem
  BY DEF Init, External
<1>3. HistoryTypes
  BY <1>2, Parts DEF Init, HistoryTypes, NoneSeen, Counts
<1>4. RingInv
  BY <1>2 DEF RingInv
<1>5. EdgeInv
  <2>1. srv.last \in Nat /\ hls.seq = 0 /\ hls.count = srv.last + 1
    BY <1>1 DEF Init, FieldsInv, Windows
  <2>2. NextSeg = hls.idx /\ hls.idx \in Nat /\ hls.idx <= srv.last
    <3>1. NextSeg = hls.seq + hls.idx /\ hls.idx \in Nat
      BY <1>1, <1>2 DEF NextSeg, Holds, FieldsInv, Playlists
    <3>2. hls.idx <= srv.last
      BY <2>1 DEF Init, Least
    <3> QED BY <2>1, <3>1, <3>2
  <2> QED BY <1>2, <2>1, <2>2 DEF EdgeInv
<1>6. GenInv
  <2>1. hls.reset \in Nat /\ NoneSeen.item.gen = 0
    BY <1>1 DEF FieldsInv, Playlists, NoneSeen, NoItem, Item
  <2> QED BY <1>2, <2>1 DEF GenInv
<1>7. WayInv /\ ReadInv /\ GoalInv
  BY <1>2 DEF WayInv, ReadInv, GoalInv
<1> QED BY <1>3, <1>4, <1>5, <1>6, <1>7 DEF OrderParts

\* The decoder gets one segment after the other, leaving none out and never
\* going back without a new generation, and after a seek the segment it moved
\* to: for every window, ring, discontinuity, number of seeks and of failed
\* fetches.  The lists that come are the whole window; for one that lags or
\* cannot be parsed the code does go back (hls.c:1302).
THEOREM StreamInOrder ==
  ASSUME Faults \subseteq {"fetch"}
  PROVE  Spec => PlaysInOrder
<1>0. "body" \notin Faults
  OBVIOUS
<1>1. Init => CalmInv
  BY DEF Init, CalmInv, SeekInv, AbortIsLifted, At, Begins
<1>2. StreamInv /\ CalmInv /\ OrderInv /\ [Next]_vars => StreamInv' /\ CalmInv' /\ OrderInv'
  BY <1>0, StreamStep, CalmStep, OrderStep DEF CalmInv
<1>3. StreamInv /\ CalmInv /\ OrderInv /\ [Next]_vars => [PlaysOn]_vars
  BY StreamStep, OrderStep DEF CalmInv
<1>4. [PlaysOn]_vars =>
        [seen' \notin {seen, NoneSeen} /\ seen # NoneSeen =>
           \/ seen'.item.gen > seen.item.gen
           \/ seen'.item.seg = seen.item.seg + 1
           \/ (~External \/ used.seeks > 0) /\ seen'.item.seg > seen.item.seg]_vars
  BY DEF PlaysOn
<1>5. [PlaysOn]_vars =>
        [seen' \notin {seen, NoneSeen} /\ goal # NoItem =>
           \/ seen'.item.seg = goal.seg
           \/ seen'.item.seg > goal.seg /\ seen'.item.gen > goal.gen]_vars
  BY DEF PlaysOn
<1>6. Spec => InOrder
  BY InitHolds, OrderBegins, <1>1, <1>2, <1>3, <1>4, PTL DEF Spec, InOrder
<1>7. Spec => SeekLandsThere
  BY InitHolds, OrderBegins, <1>1, <1>2, <1>3, <1>5, PTL DEF Spec, SeekLandsThere
<1> QED BY <1>6, <1>7 DEF PlaysInOrder

=============================================================================
