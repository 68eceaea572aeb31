--------------------------- MODULE HttpRingProofs ---------------------------
(***************************************************************************)
(* For every capacity, chunk size, keep-behind and file length, and a      *)
(* server that answers Range requests with the range asked for, the        *)
(* demuxer is handed the bytes of the file at the offset it asked for.     *)
(***************************************************************************)
EXTENDS HttpRing, TLAPS

\* The inductive invariant.  The reply is the one asked for: the code takes it on
\* trust, and HttpRing shows what becomes of ServedRight when it is not.
IInv ==
  /\ BadReplies = FALSE
  /\ RingTypeOK
  /\ RingInv
  /\ ServedRight
  /\ KeptIsClean

\* Walking from a slot leads to a slot.
LEMMA SlotInRing ==
  ASSUME NEW h \in Slots, NEW d \in 0 .. RingCap
  PROVE  Slot(h + d) \in Slots
BY RingAssumption DEF Slot, Slots

\* Walking d slots and then i more is walking d + i.
LEMMA SlotSum ==
  ASSUME NEW h \in Slots, NEW d \in Nat, NEW i \in Nat, d + i <= RingCap
  PROVE  Slot(Slot(h + d) + i) = Slot(h + (d + i))
BY RingAssumption DEF Slot, Slots

\* ring_evict_locked drops bytes that are there, and none ahead of the play
\* position it is given.
LEMMA DropFacts ==
  ASSUME NEW need \in 0 .. RingCap, NEW sp \in Nat,
         RingTypeOK, WindowInv, cacheStart <= sp, sp <= rawPos
  PROVE  /\ Drop(need, sp) \in 0 .. fill
         /\ cacheStart + Drop(need, sp) <= sp
         /\ fill - Drop(need, sp) + need > RingCap => cacheStart + Drop(need, sp) = sp
BY RingAssumption DEF Drop, TooOld, Least, RingTypeOK, CacheTypeOK, WindowInv

\* Evicting d bytes of the window leaves the others in place.
LEMMA EvictKeeps ==
  ASSUME RingTypeOK, RingHolds, NEW d \in 0 .. fill, Dropped(d), ring' = ring
  PROVE  RingHolds'
<1> SUFFICES ASSUME NEW i \in 0 .. RingCap - 1, i < fill'
             PROVE  ring[Slot(Slot(head + d) + i)] = cacheStart + d + i
  BY DEF RingHolds, Dropped
<1>1. fill \in 0 .. RingCap /\ d + i < fill /\ d + i \in 0 .. RingCap - 1
  BY RingAssumption DEF Dropped, RingTypeOK, CacheTypeOK
<1>2. Slot(Slot(head + d) + i) = Slot(head + (d + i))
  <2>1. head \in Slots /\ d \in Nat /\ i \in Nat /\ d + i <= RingCap
    BY <1>1, RingAssumption DEF RingTypeOK, CacheTypeOK
  <2> QED BY <2>1, SlotSum
<1>3. ring[Slot(head + (d + i))] = cacheStart + (d + i)
  BY <1>1 DEF RingHolds
<1> QED BY <1>1, <1>2, <1>3 DEF RingTypeOK, CacheTypeOK

-----------------------------------------------------------------------------
(* The reader at the top of its loop.                                        *)

\* Evicting what ring_evict_locked(need) drops when the play position is sp.
LEMMA EvictTo ==
  ASSUME RingTypeOK, RingInv, NEW need \in 0 .. RingCap,
         NEW sp \in Nat, cacheStart <= sp, sp <= rawPos,
         Dropped(Drop(need, sp)), ring' = ring, servePos' = sp, rawPos' = rawPos
  PROVE  /\ CacheTypeOK' /\ RingHolds'
         /\ rawPos' = cacheStart' + fill' /\ cacheStart' <= sp /\ fill' <= fill
         /\ fill' + need > RingCap => rawPos + need > sp + RingCap
         /\ fill + Chunk <= RingCap => fill' + Chunk <= RingCap
<1> DEFINE d == Drop(need, sp)
<1>1. /\ d \in 0 .. fill /\ cacheStart + d <= sp
      /\ fill - d + need > RingCap => cacheStart + d = sp
  BY DropFacts DEF RingInv
<1>2. RingHolds'
  BY <1>1, EvictKeeps DEF RingInv
<1> HIDE DEF d
<1>3. Slot(head + d) \in Slots
  <2>1. head \in Slots /\ d \in 0 .. RingCap
    BY <1>1, RingAssumption DEF RingTypeOK, CacheTypeOK
  <2> QED BY <2>1, SlotInRing
<1> QED BY <1>1, <1>2, <1>3, RingAssumption
    DEF d, Dropped, RingInv, RingTypeOK, CacheTypeOK, WindowInv

\* The same at the present play position.
LEMMA EvictFacts ==
  ASSUME RingTypeOK, RingInv, NEW need \in 0 .. RingCap,
         Dropped(Drop(need, servePos)), UNCHANGED <<ring, servePos, rawPos>>
  PROVE  /\ CacheTypeOK' /\ RingHolds'
         /\ rawPos' = cacheStart' + fill' /\ cacheStart' <= servePos' /\ fill' <= fill
         /\ fill' + need > RingCap => rawPos + need > servePos + RingCap
<1>1. servePos \in Nat /\ cacheStart <= servePos /\ servePos <= rawPos
  BY DEF RingTypeOK, CacheTypeOK, RingInv, WindowInv
<1> QED BY <1>1, EvictTo

-----------------------------------------------------------------------------
(* The reader at the top of its loop.                                        *)

\* A reader that leaves has only evicted.
LEMMA ReaderStopKeeps ==
  ASSUME IInv, ReaderStop
  PROVE  IInv'
<1> USE RingAssumption, FileAssumption DEF ReaderStop, IInv, RingInv, RingTypeOK, AtTop,
   flagVars, userVars
<1>0. /\ CacheTypeOK' /\ RingHolds'
      /\ rawPos' = cacheStart' + fill' /\ cacheStart' <= servePos' /\ fill' <= fill
      /\ fill' + Chunk > RingCap => rawPos + Chunk > servePos + RingCap
  BY EvictFacts
<1>1. CacheTypeOK' /\ RingHolds'
  BY <1>0
<1>2. NetTypeOK' /\ ThreadTypeOK'
  BY <1>0 DEF NetTypeOK, ThreadTypeOK, Offsets, NoSeek, Closed, Cut
<1>3. WindowInv' /\ ChunkHolds'
  BY <1>0 DEF RingTypeOK, CacheTypeOK, NetTypeOK, ThreadTypeOK, WindowInv, ChunkHolds, ConnInv,
     DownInv, Offsets, NoSeek, Closed, Cut
<1>4. ConnInv' /\ DownInv'
  BY <1>0 DEF RingTypeOK, CacheTypeOK, NetTypeOK, ThreadTypeOK, WindowInv, ConnInv, DownInv,
     WaitInv, Offsets, NoSeek, Closed, Cut
<1>5. WaitInv'
  BY <1>0 DEF RingTypeOK, CacheTypeOK, NetTypeOK, ThreadTypeOK, WindowInv, DownInv, WaitInv,
     Offsets, NoSeek
<1>6. ServedRight' /\ KeptIsClean'
  BY <1>0 DEF ServedRight, KeptIsClean, ConnInv
<1> QED BY <1>1, <1>2, <1>3, <1>4, <1>5, <1>6

\* A reader that starts to wait can evict nothing more.
LEMMA ReaderBlockKeeps ==
  ASSUME IInv, ReaderBlock
  PROVE  IInv'
<1> USE RingAssumption, FileAssumption DEF ReaderBlock, IInv, RingInv, RingTypeOK, AtTop,
   Dropped, flagVars, userVars
<1>0. /\ CacheTypeOK' /\ RingHolds'
      /\ rawPos' = cacheStart' + fill' /\ cacheStart' <= servePos' /\ fill' <= fill
      /\ fill' + Chunk > RingCap => rawPos + Chunk > servePos + RingCap
  BY EvictFacts
<1>a. eof \/ fill' + Chunk > RingCap
  BY DEF Dropped
<1>b. /\ rawPos' = rawPos /\ servePos' = servePos /\ got' = got /\ reader' = "waiting"
      /\ seek' = seek /\ abort' = abort /\ eof' = eof /\ consumer' = consumer /\ want' = want /\ seek = NoSeek
  OBVIOUS
<1>1. CacheTypeOK' /\ RingHolds'
  BY <1>0
<1>2. NetTypeOK' /\ ThreadTypeOK'
  BY <1>0, <1>a, ZenonT(40) DEF NetTypeOK, ThreadTypeOK, Offsets, NoSeek, Closed, Cut
<1>3. WindowInv' /\ ChunkHolds'
  BY <1>0, <1>a DEF RingTypeOK, CacheTypeOK, NetTypeOK, ThreadTypeOK, WindowInv, ChunkHolds,
     ConnInv, DownInv, Offsets, NoSeek, Closed, Cut
<1>4. ConnInv' /\ DownInv'
  BY <1>0, <1>a DEF RingTypeOK, CacheTypeOK, NetTypeOK, ThreadTypeOK, WindowInv, ConnInv,
     DownInv, WaitInv, Offsets, NoSeek, Closed, Cut
<1>5. WaitInv'
  <2> HIDE DEF ReaderBlock, Dropped, AtTop, flagVars, userVars
  <2>1. (reader' = "waiting" /\ ~woken' /\ ~eof') => rawPos' + Chunk > servePos' + RingCap
    BY <1>0, <1>a, <1>b
  <2>2. (consumer' = "awaiting" /\ ~abort') => want'.pos <= rawPos'
    BY <1>b DEF WaitInv
  <2>3. seek' = NoSeek
    BY <1>b
  <2> QED BY <2>1, <2>2, <2>3 DEF WaitInv
<1>6. ServedRight' /\ KeptIsClean'
  BY <1>0, <1>a DEF ServedRight, KeptIsClean, ConnInv
<1> QED BY <1>1, <1>2, <1>3, <1>4, <1>5, <1>6

\* A reader goes to the network only with room for a whole chunk.
LEMMA ReaderGoKeeps ==
  ASSUME IInv, ReaderGo
  PROVE  IInv'
<1> USE RingAssumption, FileAssumption DEF ReaderGo, IInv, RingInv, RingTypeOK, AtTop, Dropped,
   flagVars, userVars
<1>0. /\ CacheTypeOK' /\ RingHolds'
      /\ rawPos' = cacheStart' + fill' /\ cacheStart' <= servePos' /\ fill' <= fill
      /\ fill' + Chunk > RingCap => rawPos + Chunk > servePos + RingCap
  BY EvictFacts
<1>a. fill' + Chunk <= RingCap
  BY DEF Dropped
<1>b. /\ rawPos' = rawPos /\ servePos' = servePos /\ got' = got /\ reader' = "read"
      /\ seek' = seek /\ abort' = abort /\ eof' = eof /\ consumer' = consumer /\ want' = want /\ seek = NoSeek
  OBVIOUS
<1>1. CacheTypeOK' /\ RingHolds'
  BY <1>0
<1>2. NetTypeOK' /\ ThreadTypeOK'
  BY <1>0, <1>a DEF NetTypeOK, ThreadTypeOK, Offsets, NoSeek, Closed, Cut
<1>3. WindowInv' /\ ChunkHolds'
  <2>1. WindowInv'
    <3> HIDE DEF ReaderGo, Dropped, AtTop, flagVars, userVars
    <3>1. fill' + Chunk <= RingCap
      BY <1>a
    <3>2. rawPos' + got' <= FileLen
      BY <1>b DEF WindowInv
    <3>3. servePos' <= rawPos'
      BY <1>b DEF WindowInv
    <3> QED BY <1>0, <3>1, <3>2, <3>3 DEF WindowInv
  <2>2. ChunkHolds'
    BY <1>0, <1>a DEF RingTypeOK, CacheTypeOK, NetTypeOK, ThreadTypeOK, WindowInv, ChunkHolds,
       ConnInv, DownInv, Offsets, NoSeek, Closed, Cut
  <2> QED BY <2>1, <2>2
<1>4. ConnInv' /\ DownInv'
  <2>1. ConnInv'
    BY <1>0, <1>a DEF RingTypeOK, CacheTypeOK, NetTypeOK, ThreadTypeOK, WindowInv, ConnInv,
       DownInv, WaitInv, Offsets, NoSeek, Closed, Cut
  <2>2. DownInv'
    BY <1>0, <1>a DEF RingTypeOK, CacheTypeOK, NetTypeOK, ThreadTypeOK, WindowInv, ConnInv,
       DownInv, WaitInv, Offsets, NoSeek, Closed, Cut
  <2> QED BY <2>1, <2>2
<1>5. WaitInv'
  BY <1>0, <1>a DEF RingTypeOK, CacheTypeOK, NetTypeOK, ThreadTypeOK, WindowInv, DownInv,
     WaitInv, Offsets, NoSeek
<1>6. ServedRight' /\ KeptIsClean'
  BY <1>0, <1>a DEF ServedRight, KeptIsClean, ConnInv
<1> QED BY <1>1, <1>2, <1>3, <1>4, <1>5, <1>6

\* A repositioned cache is empty, and what was being read is forgotten.
LEMMA ReaderSeekKeeps ==
  ASSUME IInv, ReaderSeek
  PROVE  IInv'
<1> USE RingAssumption, FileAssumption DEF ReaderSeek, IInv, RingInv, RingTypeOK, AtTop, Slots,
   Offsets, NoSeek, userVars
<1>1. CacheTypeOK' /\ RingHolds'
  <2>1. CacheTypeOK'
    BY DEF CacheTypeOK, NetTypeOK, RingHolds
  <2>2. RingHolds'
    BY DEF CacheTypeOK, RingHolds
  <2> QED BY <2>1, <2>2
<1>2. NetTypeOK' /\ ThreadTypeOK'
  BY DEF NetTypeOK, ThreadTypeOK, Offsets, NoSeek, Closed, Cut
<1>3. WindowInv' /\ ChunkHolds'
  BY DEF RingTypeOK, CacheTypeOK, NetTypeOK, ThreadTypeOK, WindowInv, ChunkHolds, ConnInv,
     DownInv, Offsets, NoSeek, Closed, Cut
<1>4. ConnInv' /\ DownInv'
  BY DEF RingTypeOK, CacheTypeOK, NetTypeOK, ThreadTypeOK, WindowInv, ConnInv, DownInv, WaitInv,
     Offsets, NoSeek, Closed, Cut
<1>5. WaitInv'
  BY DEF RingTypeOK, CacheTypeOK, NetTypeOK, ThreadTypeOK, WindowInv, DownInv, WaitInv, Offsets,
     NoSeek
<1>6. ServedRight' /\ KeptIsClean'
  BY DEF ServedRight, KeptIsClean, ConnInv
<1> QED BY <1>1, <1>2, <1>3, <1>4, <1>5, <1>6

-----------------------------------------------------------------------------
(* Downloading, and the calls that open, cut and close the source.           *)

\* After a seek's request the connection stands at the new position or is gone.
LEMMA ReaderRequestKeeps ==
  ASSUME IInv, ReaderRequest
  PROVE  IInv'
<1> USE RingAssumption, FileAssumption
         DEF ReaderRequest, IInv, RingInv, RingTypeOK, cacheVars, userVars
<1>0. /\ Answers(rawPos) = {rawPos} /\ rawPos \in Offsets
      /\ rawPos \in Nat /\ got \in Nat
  BY DEF Answers, WindowInv, CacheTypeOK, ThreadTypeOK, Offsets
<1>1. CacheTypeOK' /\ RingHolds'
  BY DEF CacheTypeOK, RingHolds
<1>a. \/ conn' = rawPos /\ ~cleanEof'
      \/ conn' = Closed
  BY <1>0
<1>b. cleanEof' \in BOOLEAN
  BY DEF NetTypeOK
<1>2. NetTypeOK' /\ ThreadTypeOK'
  <2>1. conn' \in Offsets \cup {Closed, Cut}
    BY <1>0, <1>a
  <2>2. NetTypeOK'
    BY <2>1, <1>b DEF NetTypeOK
  <2>3. ThreadTypeOK'
    BY DEF ThreadTypeOK
  <2> QED BY <2>2, <2>3
<1>3. WindowInv' /\ ChunkHolds'
  BY DEF WindowInv, ChunkHolds, DownInv, CacheTypeOK, NetTypeOK, ThreadTypeOK
<1>4. ConnInv' /\ DownInv'
  <2>1. ConnInv'
    BY <1>0, <1>a DEF ConnInv, Closed
  <2>2. DownInv'
    BY <1>a DEF DownInv, NetTypeOK, ThreadTypeOK
  <2> QED BY <2>1, <2>2
<1>5. WaitInv'
  BY DEF WaitInv, WindowInv, DownInv, CacheTypeOK, NetTypeOK, ThreadTypeOK
<1>6. ServedRight' /\ KeptIsClean'
  BY DEF ServedRight, KeptIsClean
<1> QED BY <1>1, <1>2, <1>3, <1>4, <1>5, <1>6

\* A reconnect resumes at the first byte not received yet.
LEMMA ReconnectKeeps ==
  ASSUME IInv, Reconnect
  PROVE  IInv'
<1> USE RingAssumption, FileAssumption
         DEF Reconnect, IInv, RingInv, RingTypeOK, InFile, cacheVars, userVars
<1>0. /\ Answers(rawPos + got) = {rawPos + got} /\ rawPos + got \in Offsets
      /\ rawPos \in Nat /\ got \in Nat
  BY DEF Answers, WindowInv, CacheTypeOK, ThreadTypeOK, Offsets
<1>1. CacheTypeOK' /\ RingHolds'
  BY DEF CacheTypeOK, RingHolds
<1>a. \/ conn' = rawPos + got /\ ~cleanEof' /\ reader' = "read"
      \/ conn' = Closed
  BY <1>0
<1>b. cleanEof' \in BOOLEAN
  BY DEF NetTypeOK
<1>2. NetTypeOK' /\ ThreadTypeOK'
  <2>1. conn' \in Offsets \cup {Closed, Cut}
    BY <1>0, <1>a
  <2>2. NetTypeOK'
    BY <2>1, <1>b DEF NetTypeOK
  <2>3. ThreadTypeOK'
    <3>1. tries' \in 0 .. MaxReconnects
      BY DEF ThreadTypeOK
    <3>2. reader' \in {"read", "store"}
      OBVIOUS
    <3> QED BY <3>1, <3>2 DEF ThreadTypeOK
  <2> QED BY <2>2, <2>3
<1>3. WindowInv' /\ ChunkHolds'
  BY DEF WindowInv, ChunkHolds, DownInv, CacheTypeOK, NetTypeOK, ThreadTypeOK
<1>4. ConnInv' /\ DownInv'
  <2>1. ConnInv'
    BY <1>0, <1>a DEF ConnInv, Closed
  <2>2. DownInv'
    BY <1>a DEF DownInv, NetTypeOK, ThreadTypeOK
  <2> QED BY <2>1, <2>2
<1>5. WaitInv'
  BY DEF WaitInv, WindowInv, DownInv, CacheTypeOK, NetTypeOK, ThreadTypeOK
<1>6. ServedRight' /\ KeptIsClean'
  BY DEF ServedRight, KeptIsClean
<1> QED BY <1>1, <1>2, <1>3, <1>4, <1>5, <1>6

\* Received bytes continue the chunk.
LEMMA ReceiveKeeps ==
  ASSUME IInv, NEW n \in 1 .. Chunk, Receive(n)
  PROVE  IInv'
<1> USE RingAssumption, FileAssumption
         DEF Receive, IInv, RingInv, RingTypeOK, InFile, cacheVars, flagVars, userVars
<1>1. CacheTypeOK' /\ RingHolds'
  BY DEF CacheTypeOK, RingHolds
<1>2. NetTypeOK' /\ ThreadTypeOK'
  BY DEF NetTypeOK, ThreadTypeOK, Offsets, NoSeek, Closed, Cut
<1>3. WindowInv' /\ ChunkHolds'
  <2>1. WindowInv'
    BY DEF WindowInv, ChunkHolds, DownInv, CacheTypeOK, NetTypeOK, ThreadTypeOK, ConnInv,
       Offsets, Closed, Cut
  <2>2. ChunkHolds'
    BY DEF WindowInv, ChunkHolds, DownInv, CacheTypeOK, NetTypeOK, ThreadTypeOK, ConnInv,
       Offsets, Closed, Cut
  <2> QED BY <2>1, <2>2
<1>4. ConnInv' /\ DownInv'
  BY DEF ConnInv, DownInv, WindowInv, CacheTypeOK, NetTypeOK, ThreadTypeOK, Offsets, Closed, Cut
<1>5. WaitInv'
  BY DEF WaitInv, WindowInv, DownInv, CacheTypeOK, NetTypeOK, ThreadTypeOK
<1>6. ServedRight' /\ KeptIsClean'
  BY DEF ServedRight, KeptIsClean
<1> QED BY <1>1, <1>2, <1>3, <1>4, <1>5, <1>6

\* The end of a read changes nothing but the reader's place.
LEMMA ReadEndsKeeps ==
  ASSUME IInv, ReadEnds
  PROVE  IInv'
<1> USE RingAssumption, FileAssumption
         DEF ReadEnds, IInv, RingInv, RingTypeOK, cacheVars, flagVars, userVars
<1>1. CacheTypeOK' /\ RingHolds'
  BY DEF CacheTypeOK, RingHolds
<1>2. NetTypeOK' /\ ThreadTypeOK'
  BY DEF NetTypeOK, ThreadTypeOK, Offsets, NoSeek, Closed, Cut
<1>3. WindowInv' /\ ChunkHolds'
  BY DEF WindowInv, ChunkHolds, DownInv, CacheTypeOK, NetTypeOK, ThreadTypeOK
<1>4. ConnInv' /\ DownInv'
  BY DEF ConnInv, DownInv, WindowInv, CacheTypeOK, NetTypeOK, ThreadTypeOK, Offsets, Closed, Cut
<1>5. WaitInv'
  BY DEF WaitInv, WindowInv, DownInv, CacheTypeOK, NetTypeOK, ThreadTypeOK
<1>6. ServedRight' /\ KeptIsClean'
  BY DEF ServedRight, KeptIsClean
<1> QED BY <1>1, <1>2, <1>3, <1>4, <1>5, <1>6

\* A chunk read for an old position is dropped; the seek replaces the connection.
LEMMA DiscardStaleKeeps ==
  ASSUME IInv, DiscardStale
  PROVE  IInv'
<1> USE RingAssumption, FileAssumption
         DEF DiscardStale, IInv, RingInv, RingTypeOK, BackToTop, Blank, cacheVars, flagVars,
            userVars
<1>1. CacheTypeOK' /\ RingHolds'
  BY DEF CacheTypeOK, RingHolds
<1>2. NetTypeOK' /\ ThreadTypeOK'
  BY DEF NetTypeOK, ThreadTypeOK, Offsets, NoSeek, Closed, Cut
<1>3. WindowInv' /\ ChunkHolds'
  BY DEF WindowInv, ChunkHolds, DownInv, CacheTypeOK, NetTypeOK, ThreadTypeOK
<1>4. ConnInv' /\ DownInv'
  BY DEF ConnInv, DownInv, WindowInv, CacheTypeOK, NetTypeOK, ThreadTypeOK, Offsets, Closed, Cut
<1>5. WaitInv'
  BY DEF WaitInv, WindowInv, DownInv, CacheTypeOK, NetTypeOK, ThreadTypeOK
<1>6. ServedRight' /\ KeptIsClean'
  BY DEF ServedRight, KeptIsClean
<1> QED BY <1>1, <1>2, <1>3, <1>4, <1>5, <1>6

\* The end of the file is clean only where the response ends.
LEMMA StoreNothingKeeps ==
  ASSUME IInv, StoreNothing
  PROVE  IInv'
<1> USE RingAssumption, FileAssumption
         DEF StoreNothing, IInv, RingInv, RingTypeOK, BackToTop, Blank, AtEnd, cacheVars, userVars
<1>1. CacheTypeOK' /\ RingHolds'
  BY DEF CacheTypeOK, RingHolds
<1>2. NetTypeOK' /\ ThreadTypeOK'
  BY DEF NetTypeOK, ThreadTypeOK, Offsets, NoSeek, Closed, Cut
<1>3. WindowInv' /\ ChunkHolds'
  BY DEF WindowInv, ChunkHolds, DownInv, CacheTypeOK, NetTypeOK, ThreadTypeOK
<1>4. ConnInv' /\ DownInv'
  BY DEF ConnInv, DownInv, WindowInv, CacheTypeOK, NetTypeOK, ThreadTypeOK, Offsets, Closed, Cut
<1>5. WaitInv'
  BY DEF WaitInv, WindowInv, DownInv, CacheTypeOK, NetTypeOK, ThreadTypeOK
<1>6. ServedRight' /\ KeptIsClean'
  BY DEF ServedRight, KeptIsClean
<1> QED BY <1>1, <1>2, <1>3, <1>4, <1>5, <1>6

\* Giving up a wait returns no byte.
LEMMA TimedOutKeeps ==
  ASSUME IInv, TimedOut
  PROVE  IInv'
<1> USE RingAssumption, FileAssumption
         DEF TimedOut, IInv, RingInv, RingTypeOK, Return, NoRead, Nothing, cacheVars, flagVars,
            readerVars
<1>1. CacheTypeOK' /\ RingHolds'
  BY DEF CacheTypeOK, RingHolds
<1>2. NetTypeOK' /\ ThreadTypeOK'
  BY DEF NetTypeOK, ThreadTypeOK, Offsets, NoSeek, Closed, Cut
<1>3. WindowInv' /\ ChunkHolds'
  BY DEF WindowInv, ChunkHolds, DownInv, CacheTypeOK, NetTypeOK, ThreadTypeOK
<1>4. ConnInv' /\ DownInv'
  BY DEF ConnInv, DownInv, WindowInv, CacheTypeOK, NetTypeOK, ThreadTypeOK, Offsets, Closed, Cut
<1>5. WaitInv'
  BY DEF WaitInv, WindowInv, DownInv, CacheTypeOK, NetTypeOK, ThreadTypeOK
<1>6. ServedRight' /\ KeptIsClean'
  BY DEF ServedRight, KeptIsClean
<1> QED BY <1>1, <1>2, <1>3, <1>4, <1>5, <1>6

\* An abort cuts the connection and wakes a waiting reader.
LEMMA AbortKeeps ==
  ASSUME IInv, Abort
  PROVE  IInv'
<1> USE RingAssumption, FileAssumption
         DEF Abort, IInv, RingInv, RingTypeOK, SignalSpace, cacheVars, userVars
<1>1. CacheTypeOK' /\ RingHolds'
  BY DEF CacheTypeOK, RingHolds
<1>2. NetTypeOK' /\ ThreadTypeOK'
  BY DEF NetTypeOK, ThreadTypeOK, Offsets, NoSeek, Closed, Cut
<1>3. WindowInv' /\ ChunkHolds'
  BY DEF WindowInv, ChunkHolds, DownInv, CacheTypeOK, NetTypeOK, ThreadTypeOK
<1>4. ConnInv' /\ DownInv'
  BY DEF ConnInv, DownInv, WindowInv, CacheTypeOK, NetTypeOK, ThreadTypeOK, Offsets, Closed, Cut
<1>5. WaitInv'
  BY DEF WaitInv, WindowInv, DownInv, CacheTypeOK, NetTypeOK, ThreadTypeOK
<1>6. ServedRight' /\ KeptIsClean'
  BY DEF ServedRight, KeptIsClean
<1> QED BY <1>1, <1>2, <1>3, <1>4, <1>5, <1>6

\* A new source starts at byte 0 with an empty cache.
LEMMA OpenKeeps ==
  ASSUME IInv, Open
  PROVE  IInv'
<1> USE RingAssumption, FileAssumption
         DEF Open, IInv, RingInv, RingTypeOK, cacheVars, flagVars, userVars
<1>1. CacheTypeOK' /\ RingHolds'
  BY DEF CacheTypeOK, RingHolds
<1>2. NetTypeOK' /\ ThreadTypeOK'
  <2>1. NetTypeOK'
    <3>1. conn' \in Offsets \cup {Closed, Cut} /\ kept' \in Offsets \cup {Closed, Cut}
      BY DEF NetTypeOK, Offsets
    <3>2. total' \in {0, FileLen} /\ up' \in BOOLEAN
      BY DEF NetTypeOK
    <3> QED BY <3>1, <3>2 DEF NetTypeOK
  <2>2. ThreadTypeOK'
    BY DEF NetTypeOK, ThreadTypeOK, Offsets, NoSeek, Closed, Cut
  <2> QED BY <2>1, <2>2
<1>3. WindowInv' /\ ChunkHolds'
  BY DEF WindowInv, ChunkHolds, DownInv, CacheTypeOK, NetTypeOK, ThreadTypeOK
<1>4. ConnInv' /\ DownInv'
  BY DEF ConnInv, DownInv, WindowInv, CacheTypeOK, NetTypeOK, ThreadTypeOK, Offsets, Closed, Cut
<1>5. WaitInv'
  BY DEF WaitInv, WindowInv, DownInv, CacheTypeOK, NetTypeOK, ThreadTypeOK
<1>6. ServedRight' /\ KeptIsClean'
  BY DEF ServedRight, KeptIsClean
<1> QED BY <1>1, <1>2, <1>3, <1>4, <1>5, <1>6

\* A close only asks the reader to leave.
LEMMA CloseKeeps ==
  ASSUME IInv, Close
  PROVE  IInv'
<1> USE RingAssumption, FileAssumption
         DEF Close, IInv, RingInv, RingTypeOK, SignalSpace, cacheVars, userVars
<1>1. CacheTypeOK' /\ RingHolds'
  BY DEF CacheTypeOK, RingHolds
<1>2. NetTypeOK' /\ ThreadTypeOK'
  BY DEF NetTypeOK, ThreadTypeOK, Offsets, NoSeek, Closed, Cut
<1>3. WindowInv' /\ ChunkHolds'
  BY DEF WindowInv, ChunkHolds, DownInv, CacheTypeOK, NetTypeOK, ThreadTypeOK
<1>4. ConnInv' /\ DownInv'
  BY DEF ConnInv, DownInv, WindowInv, CacheTypeOK, NetTypeOK, ThreadTypeOK, Offsets, Closed, Cut
<1>5. WaitInv'
  BY DEF WaitInv, WindowInv, DownInv, CacheTypeOK, NetTypeOK, ThreadTypeOK
<1>6. ServedRight' /\ KeptIsClean'
  BY DEF ServedRight, KeptIsClean
<1> QED BY <1>1, <1>2, <1>3, <1>4, <1>5, <1>6

\* A connection is kept with its response consumed, or not kept.
LEMMA CloseDoneKeeps ==
  ASSUME IInv, CloseDone
  PROVE  IInv'
<1> USE RingAssumption, FileAssumption
         DEF CloseDone, IInv, RingInv, RingTypeOK, Keeps, Slots, readerVars, userVars
<1>1. CacheTypeOK' /\ RingHolds'
  BY DEF CacheTypeOK, RingHolds
<1>2. NetTypeOK' /\ ThreadTypeOK'
  BY DEF NetTypeOK, ThreadTypeOK, Offsets, NoSeek, Closed, Cut
<1>3. WindowInv' /\ ChunkHolds'
  BY DEF WindowInv, ChunkHolds, DownInv, CacheTypeOK, NetTypeOK, ThreadTypeOK
<1>4. ConnInv' /\ DownInv'
  BY DEF ConnInv, DownInv, WindowInv, CacheTypeOK, NetTypeOK, ThreadTypeOK, Offsets, Closed, Cut
<1>5. WaitInv'
  BY DEF WaitInv, WindowInv, DownInv, CacheTypeOK, NetTypeOK, ThreadTypeOK
<1>6. ServedRight' /\ KeptIsClean'
  BY DEF ServedRight, KeptIsClean, ConnInv, NetTypeOK, Offsets, Closed, Cut
<1> QED BY <1>1, <1>2, <1>3, <1>4, <1>5, <1>6

\* A byte outside the window is asked for by a seek.
LEMMA ReadOutsideKeeps ==
  ASSUME IInv, NEW pos \in Offsets, NEW len \in 1 .. MaxLen, ReadOutside(pos, len)
  PROVE  IInv'
<1> USE RingAssumption, FileAssumption
         DEF ReadOutside, IInv, RingInv, RingTypeOK, Reading, Outside, AtEnd, WaitFor, Nothing,
            SignalSpace, cacheVars
<1>1. CacheTypeOK' /\ RingHolds'
  BY DEF CacheTypeOK, RingHolds
<1>2. NetTypeOK' /\ ThreadTypeOK'
  BY DEF NetTypeOK, ThreadTypeOK, Offsets, NoSeek, Closed, Cut
<1>3. WindowInv' /\ ChunkHolds'
  BY DEF WindowInv, ChunkHolds, DownInv, Offsets, NoSeek, CacheTypeOK, NetTypeOK, ThreadTypeOK
<1>4. ConnInv' /\ DownInv'
  BY DEF ConnInv, DownInv, WindowInv, CacheTypeOK, NetTypeOK, ThreadTypeOK, Offsets, NoSeek,
     Closed, Cut
<1>5. WaitInv'
  BY DEF WaitInv, WindowInv, DownInv, CacheTypeOK, NetTypeOK, ThreadTypeOK
<1>6. ServedRight' /\ KeptIsClean'
  BY DEF ServedRight, KeptIsClean
<1> QED BY <1>1, <1>2, <1>3, <1>4, <1>5, <1>6

-----------------------------------------------------------------------------
(* The two actions that move bytes.                                          *)

\* A slot i past the head is i - f past the tail if it is among the g new ones,
\* and g or more past it if it is among the f old ones.
LEMMA PastFacts ==
  ASSUME NEW h \in Slots, NEW f \in Nat, NEW g \in Nat, g > 0, f + g <= RingCap,
         NEW i \in Nat, i < f + g
  PROVE  /\ Slot(h + i) \in Slots
         /\ i >= f => Past(Slot(h + i), Slot(h + f)) = i - f
         /\ i < f => ~(Past(Slot(h + i), Slot(h + f)) < g)
BY RingAssumption DEF Slot, Slots, Past

\* ring_append puts every byte of the chunk behind the ones already there.
LEMMA StoreHolds ==
  ASSUME IInv, Store
  PROVE  /\ CacheTypeOK' /\ RingHolds'
         /\ rawPos' = cacheStart' + fill' /\ cacheStart' <= servePos'
<1> DEFINE d == Drop(got, servePos)
           f == fill - d
           h == Slot(head + d)
<1>1. /\ fill \in 0 .. RingCap /\ got \in 0 .. RingCap /\ got > 0 /\ fill + got <= RingCap
      /\ got <= Chunk /\ head \in Slots
      /\ cacheStart \in Nat /\ servePos \in Nat /\ rawPos \in Nat /\ rawPos = cacheStart + fill
      /\ cacheStart <= servePos /\ servePos <= rawPos
      /\ ring \in [Slots -> Int] /\ tmp \in [0 .. Chunk - 1 -> Int]
  BY RingAssumption DEF IInv, RingInv, RingTypeOK, CacheTypeOK, ThreadTypeOK, WindowInv, Store
<1>2. d \in 0 .. fill /\ cacheStart + d <= servePos
  BY <1>1, DropFacts DEF IInv, RingInv
<1> HIDE DEF d
<1>3. f \in Nat /\ f + got <= RingCap /\ d + f = fill /\ d \in Nat
  BY <1>1, <1>2, RingAssumption
<1>4. h \in Slots
  <2>1. d \in 0 .. RingCap
    BY <1>1, <1>2, RingAssumption
  <2> QED BY <1>1, <2>1, SlotInRing
<1>5. /\ head' = h /\ cacheStart' = cacheStart + d /\ fill' = f + got
      /\ rawPos' = rawPos + got /\ servePos' = servePos
      /\ ring' = [s \in Slots |-> IF Past(s, Slot(h + f)) < got
                                  THEN tmp[Past(s, Slot(h + f))] ELSE ring[s]]
  BY <1>3 DEF Store, Appended, d
<1>6. ASSUME NEW i \in 0 .. RingCap - 1, i < f + got
      PROVE  ring'[Slot(h + i)] = cacheStart + d + i
  <2>1. /\ Slot(h + i) \in Slots
        /\ i >= f => Past(Slot(h + i), Slot(h + f)) = i - f
        /\ i < f => ~(Past(Slot(h + i), Slot(h + f)) < got)
    <3>1. i \in Nat /\ got \in Nat
      BY <1>1, RingAssumption
    <3> QED BY <1>1, <1>3, <1>4, <1>6, <3>1, PastFacts
  <2>2. CASE i < f
    <3>1. ring'[Slot(h + i)] = ring[Slot(h + i)]
      BY <1>5, <2>1, <2>2
    <3>2. Slot(h + i) = Slot(head + (d + i))
      BY <1>1, <1>3, <2>2, SlotSum, RingAssumption
    <3>3. ring[Slot(head + (d + i))] = cacheStart + (d + i)
      BY <1>1, <1>3, <2>2, RingAssumption DEF IInv, RingInv, RingHolds
    <3> QED BY <1>1, <1>3, <3>1, <3>2, <3>3
  <2>3. CASE i >= f
    <3>1. ring'[Slot(h + i)] = tmp[i - f]
      BY <1>1, <1>3, <1>5, <1>6, <2>1, <2>3
    <3>2. tmp[i - f] = rawPos + (i - f)
      BY <1>1, <1>3, <1>6, <2>3, RingAssumption DEF IInv, RingInv, ChunkHolds
    <3> QED BY <1>1, <1>3, <2>3, <3>1, <3>2
  <2> QED BY <1>3, <2>2, <2>3
<1>7. ring' \in [Slots -> Int]
  <2> SUFFICES ASSUME NEW s \in Slots, Past(s, Slot(h + f)) < got
               PROVE  tmp[Past(s, Slot(h + f))] \in Int
    BY <1>1, <1>5
  <2>1. Past(s, Slot(h + f)) \in 0 .. Chunk - 1
    BY <1>1, <1>3, <1>4, RingAssumption DEF Past, Slot, Slots
  <2> QED BY <1>1, <2>1
<1> HIDE DEF f, h
<1>8. RingHolds'
  BY <1>5, <1>6 DEF RingHolds
<1> QED BY <1>1, <1>2, <1>3, <1>4, <1>5, <1>7, <1>8, RingAssumption DEF CacheTypeOK

\* The chunk extends the window to the byte after it.
LEMMA StoreKeeps ==
  ASSUME IInv, Store
  PROVE  IInv'
<1> USE RingAssumption, FileAssumption
         DEF Store, IInv, RingInv, RingTypeOK, BackToTop, Blank, AtEnd, userVars
<1>0. /\ CacheTypeOK' /\ RingHolds'
      /\ rawPos' = cacheStart' + fill' /\ cacheStart' <= servePos'
  BY StoreHolds
<1>1. rawPos + got \in Nat /\ rawPos + got <= FileLen /\ servePos <= rawPos + got
  BY DEF WindowInv, CacheTypeOK, ThreadTypeOK
<1>2. NetTypeOK' /\ ThreadTypeOK'
  <2>1. NetTypeOK'
    BY DEF NetTypeOK
  <2>2. ThreadTypeOK'
    BY DEF ThreadTypeOK
  <2> QED BY <2>1, <2>2
<1>3. WindowInv' /\ ChunkHolds'
  <2>1. WindowInv'
    BY <1>0, <1>1 DEF WindowInv
  <2>2. ChunkHolds'
    BY DEF ChunkHolds
  <2> QED BY <2>1, <2>2
<1>4. ConnInv' /\ DownInv'
  <2>1. ConnInv'
    BY <1>1 DEF ConnInv, NetTypeOK, Offsets, Closed, Cut
  <2>2. DownInv'
    BY DEF DownInv, NetTypeOK, ThreadTypeOK
  <2> QED BY <2>1, <2>2
<1>5. WaitInv'
  BY DEF WaitInv, CacheTypeOK, ThreadTypeOK, Offsets
<1>6. ServedRight' /\ KeptIsClean'
  BY DEF ServedRight, KeptIsClean
<1> QED BY <1>0, <1>2, <1>3, <1>4, <1>5, <1>6

\* The copy in httpsrc_read: the bytes at pos, and the window still holds.
LEMMA ServeHolds ==
  ASSUME IInv, NEW pos \in Offsets, NEW len \in 1 .. MaxLen, Serve(pos, len),
         UNCHANGED rawPos
  PROVE  /\ CacheTypeOK' /\ RingHolds' /\ ServedRight'
         /\ rawPos' = cacheStart' + fill' /\ cacheStart' <= servePos' /\ servePos' <= rawPos'
         /\ fill + Chunk <= RingCap => fill' + Chunk <= RingCap
<1> DEFINE take == Least(rawPos - pos, len)
           off  == pos - cacheStart
<1>1. /\ fill \in 0 .. RingCap /\ head \in Slots /\ rawPos = cacheStart + fill
      /\ cacheStart \in Nat /\ rawPos \in Nat /\ servePos \in Nat
      /\ pos \in Nat /\ cacheStart <= pos /\ pos < rawPos
      /\ cacheStart <= servePos /\ len \in Nat /\ len > 0
  BY FileAssumption DEF IInv, RingInv, RingTypeOK, CacheTypeOK, WindowInv, Serve, Offsets
<1>2. take \in Nat /\ take > 0 /\ take <= len /\ pos + take <= rawPos /\ off \in Nat /\ off + take <= fill
  BY <1>1 DEF Least
<1>3. /\ served' = [pos |-> pos, bytes |-> [i \in 0 .. take - 1 |-> ring[Slot(Slot(head + off) + i)]]]
      /\ servePos' = pos + take /\ ring' = ring
      /\ Dropped(Drop(0, pos + take))
  BY DEF Serve, Return
<1> HIDE DEF take, off
<1>4. ServedRight'
  <2> SUFFICES ASSUME NEW i \in 0 .. take - 1
               PROVE  ring[Slot(Slot(head + off) + i)] = pos + i
    BY <1>3 DEF ServedRight
  <2>1. i \in Nat /\ off + i < fill /\ off + i \in 0 .. RingCap - 1 /\ off + i <= RingCap
    BY <1>1, <1>2, RingAssumption
  <2>2. Slot(Slot(head + off) + i) = Slot(head + (off + i))
    BY <1>1, <1>2, <2>1, SlotSum
  <2>3. ring[Slot(head + (off + i))] = cacheStart + (off + i)
    BY <2>1 DEF IInv, RingInv, RingHolds
  <2> QED BY <1>1, <2>1, <2>2, <2>3 DEF off
<1>5. /\ CacheTypeOK' /\ RingHolds' /\ rawPos' = cacheStart' + fill' /\ cacheStart' <= pos + take
      /\ fill + Chunk <= RingCap => fill' + Chunk <= RingCap
  <2>1. 0 \in 0 .. RingCap /\ pos + take \in Nat /\ cacheStart <= pos + take
    BY <1>1, <1>2, RingAssumption
  <2> QED BY <1>2, <1>3, <2>1, EvictTo DEF IInv
<1> QED BY <1>2, <1>3, <1>4, <1>5

\* What httpsrc_read does once nothing is left to wait for but the byte itself.
LEMMA ContinueKeeps ==
  ASSUME IInv, NEW pos \in Offsets, NEW len \in 1 .. MaxLen, Continue(pos, len),
         up, ~stop, seek = NoSeek \/ abort, pos <= rawPos \/ abort
  PROVE  IInv'
<1> USE RingAssumption, FileAssumption DEF IInv, RingInv, RingTypeOK
<1>1. CASE Serve(pos, len)
  <2>0. UNCHANGED <<rawPos, total, conn, kept, tmp, got, tries, up>>
    BY DEF Continue
  <2>1. /\ CacheTypeOK' /\ RingHolds' /\ ServedRight'
        /\ rawPos' = cacheStart' + fill' /\ cacheStart' <= servePos' /\ servePos' <= rawPos'
        /\ fill + Chunk <= RingCap => fill' + Chunk <= RingCap
    BY <1>1, <2>0, ServeHolds
  <2>2. /\ UNCHANGED <<flagVars, reader>> /\ consumer' = "idle" /\ want' = NoRead
        /\ woken' = (reader = "waiting")
    BY <1>1 DEF Serve, Return, SignalSpace
  <2> USE <2>0, <2>2 DEF flagVars
  <2>3. NetTypeOK' /\ ThreadTypeOK'
    BY DEF NetTypeOK, ThreadTypeOK, NoRead, Offsets
  <2>4. WindowInv'
    BY <2>1 DEF WindowInv
  <2>5. ChunkHolds' /\ ConnInv' /\ DownInv' /\ WaitInv' /\ KeptIsClean'
    BY DEF ChunkHolds, ConnInv, DownInv, WaitInv, KeptIsClean, ThreadTypeOK, NetTypeOK
  <2> QED BY <2>1, <2>3, <2>4, <2>5
<1>2. ASSUME UNCHANGED <<cacheVars, servePos, rawPos, flagVars, total, conn, kept, readerVars, up>>,
             \/ Return(Nothing)
             \/ ~abort /\ pos >= rawPos /\ WaitFor("awaiting", pos, len)
      PROVE  IInv'
  <2> USE <1>2 DEF Return, Nothing, WaitFor, NoRead, cacheVars, flagVars, readerVars
    <2>1. CacheTypeOK' /\ RingHolds'
      BY DEF CacheTypeOK, RingHolds
    <2>2. NetTypeOK' /\ ThreadTypeOK'
      BY DEF NetTypeOK, ThreadTypeOK, Offsets, NoSeek, Closed, Cut
    <2>3. WindowInv' /\ ChunkHolds'
      BY DEF WindowInv, ChunkHolds, DownInv, CacheTypeOK, NetTypeOK, ThreadTypeOK
    <2>4. ConnInv' /\ DownInv'
      BY DEF ConnInv, DownInv, WindowInv, CacheTypeOK, NetTypeOK, ThreadTypeOK, Offsets, Closed,
         Cut
    <2>5. WaitInv'
      BY DEF WaitInv, WindowInv, DownInv, CacheTypeOK, NetTypeOK, ThreadTypeOK
    <2>6. ServedRight' /\ KeptIsClean'
      BY DEF ServedRight, KeptIsClean
    <2> QED BY <2>1, <2>2, <2>3, <2>4, <2>5, <2>6
<1> QED BY <1>1, <1>2 DEF Continue, cacheVars, flagVars, readerVars

\* Every way into the rest of httpsrc_read has settled its seek.
LEMMA ReadKeeps ==
  ASSUME IInv, SeekSettled \/ AwaitOver \/ (\E pos \in Offsets, len \in 1 .. MaxLen : ReadInside(pos, len))
  PROVE  IInv'
<1> USE DEF IInv, RingInv, RingTypeOK, CacheTypeOK, NetTypeOK, ThreadTypeOK, DownInv, WaitInv
<1>1. ASSUME NEW pos \in Offsets, NEW len \in 1 .. MaxLen, ReadInside(pos, len)
      PROVE  IInv'
  <2>1. up /\ ~stop /\ Continue(pos, len) /\ pos <= rawPos /\ (seek = NoSeek \/ abort)
    BY <1>1 DEF ReadInside, Reading, Outside, Offsets
  <2> QED BY <2>1, ContinueKeeps
<1>2. want.pos \in Offsets /\ want.len \in 1 .. MaxLen
  OBVIOUS
<1>3. CASE SeekSettled
  <2>1. /\ up /\ ~stop /\ Continue(want.pos, want.len)
        /\ want.pos <= rawPos \/ abort
        /\ seek = NoSeek \/ abort
    BY <1>2, <1>3 DEF SeekSettled, Outside, Offsets
  <2> QED BY <1>2, <2>1, ContinueKeeps
<1>4. CASE AwaitOver
  <2>1. /\ up /\ ~stop /\ Continue(want.pos, want.len)
        /\ want.pos <= rawPos \/ abort
        /\ seek = NoSeek \/ abort
    BY <1>4 DEF AwaitOver
  <2> QED BY <1>2, <2>1, ContinueKeeps
<1> QED BY <1>1, <1>3, <1>4

-----------------------------------------------------------------------------
\* Every step of either thread preserves the invariant.
LEMMA RingStep ==
  ASSUME IInv, [Next]_vars
  PROVE  IInv'
<1>1. CASE ReaderStep
  BY <1>1, ReaderStopKeeps, ReaderSeekKeeps, ReaderBlockKeeps, ReaderGoKeeps, ReaderRequestKeeps,
     ReconnectKeeps, ReadEndsKeeps, ReceiveKeeps, DiscardStaleKeeps, StoreNothingKeeps, StoreKeeps
  DEF ReaderStep
<1>2. CASE ConsumerStep
  BY <1>2, ReadKeeps, TimedOutKeeps DEF ConsumerStep
<1>3. ASSUME NEW pos \in Offsets, NEW len \in 1 .. MaxLen, ReadInside(pos, len) \/ ReadOutside(pos, len)
      PROVE  IInv'
  BY <1>3, ReadKeeps, ReadOutsideKeeps
<1>4. CASE Abort \/ Open \/ Close \/ CloseDone
  BY <1>4, AbortKeeps, OpenKeeps, CloseKeeps, CloseDoneKeeps
<1>5. CASE UNCHANGED vars
  BY <1>5 DEF vars, cacheVars, flagVars, readerVars, userVars, IInv, RingTypeOK, CacheTypeOK,
     NetTypeOK, ThreadTypeOK, RingInv, WindowInv, RingHolds, ChunkHolds, ConnInv, DownInv, WaitInv,
     ServedRight, KeptIsClean
<1> QED BY <1>1, <1>2, <1>3, <1>4, <1>5 DEF Next

\* Nothing is open at the start.
LEMMA RingInit ==
  ASSUME BadReplies = FALSE, Init
  PROVE  IInv
<1> USE RingAssumption, FileAssumption DEF Init
<1>1. RingTypeOK
  <2>1. CacheTypeOK
    BY DEF CacheTypeOK, Slots
  <2>2. NetTypeOK
    BY DEF NetTypeOK, Offsets
  <2>3. ThreadTypeOK
    <3>1. Blank \in [0 .. Chunk - 1 -> Int]
      BY DEF Blank
    <3>2. NoRead \in [pos : Offsets, len : 1 .. MaxLen]
      BY DEF NoRead, Offsets
    <3>3. got \in 0 .. Chunk /\ tries \in 0 .. MaxReconnects
      OBVIOUS
    <3>4. tmp \in [0 .. Chunk - 1 -> Int] /\ want \in [pos : Offsets, len : 1 .. MaxLen]
      BY <3>1, <3>2
    <3>5. /\ reader \in {"top", "waiting", "request", "read", "store", "done"} /\ woken \in BOOLEAN
          /\ consumer \in {"idle", "seeking", "awaiting"}
      OBVIOUS
    <3> HIDE DEF Init
    <3> QED BY <3>3, <3>4, <3>5 DEF ThreadTypeOK
  <2> QED BY <2>1, <2>2, <2>3 DEF RingTypeOK
<1>2. RingInv
  BY DEF RingInv, WindowInv, RingHolds, ChunkHolds, ConnInv, DownInv, WaitInv, Closed
<1>3. ServedRight /\ KeptIsClean
  BY DEF ServedRight, KeptIsClean, Nothing
<1> QED BY <1>1, <1>2, <1>3 DEF IInv

\* With a server that answers the range it is asked for, the cache of httpsrc.c
\* is the window of the file its counters say it is, and no wait is for nothing.
THEOREM RingInvariant == BadReplies = FALSE /\ Spec => [](RingTypeOK /\ RingInv)
<1>1. BadReplies = FALSE /\ Init => IInv
  BY RingInit
<1>2. IInv /\ [Next]_vars => IInv'
  BY RingStep
<1>3. IInv => RingTypeOK /\ RingInv
  BY DEF IInv
<1> QED BY <1>1, <1>2, <1>3, PTL DEF Spec

\* The demuxer gets the bytes of the file at the offset it asked for, across
\* wraps, evictions, reconnects, seeks and aborts.
THEOREM ReadsAreRight == BadReplies = FALSE /\ Spec => []ServedRight
<1>1. BadReplies = FALSE /\ Init => IInv
  BY RingInit
<1>2. IInv /\ [Next]_vars => IInv'
  BY RingStep
<1>3. IInv => ServedRight
  BY DEF IInv
<1> QED BY <1>1, <1>2, <1>3, PTL DEF Spec

\* A connection is kept for the next request only once its response is consumed.
THEOREM KeepAliveIsClean == BadReplies = FALSE /\ Spec => []KeptIsClean
<1>1. BadReplies = FALSE /\ Init => IInv
  BY RingInit
<1>2. IInv /\ [Next]_vars => IInv'
  BY RingStep
<1>3. IInv => KeptIsClean
  BY DEF IInv
<1> QED BY <1>1, <1>2, <1>3, PTL DEF Spec

\* Reader and consumer wait for each other only after a jump over unplayed bytes
\* to the very end of a full ring.
THEOREM StallsAreRare == BadReplies = FALSE /\ Spec => []StallsOnlyAtEdge
<1>1. BadReplies = FALSE /\ Init => IInv
  BY RingInit
<1>2. IInv /\ [Next]_vars => IInv'
  BY RingStep
<1>3. IInv => StallsOnlyAtEdge
  <2> SUFFICES ASSUME IInv, MutualWait
               PROVE  /\ want.pos = rawPos
                      /\ servePos < rawPos
                      /\ rawPos + Chunk > servePos + RingCap
    BY DEF StallsOnlyAtEdge
  <2>1. rawPos + Chunk > servePos + RingCap /\ want.pos <= rawPos /\ want.pos >= rawPos
    BY DEF IInv, RingInv, WaitInv, MutualWait
  <2>2. rawPos \in Nat /\ servePos \in Nat /\ want.pos \in Nat
    BY FileAssumption DEF IInv, RingTypeOK, CacheTypeOK, ThreadTypeOK, Offsets
  <2> QED BY <2>1, <2>2, RingAssumption
<1> QED BY <1>1, <1>2, <1>3, PTL DEF Spec
=============================================================================
