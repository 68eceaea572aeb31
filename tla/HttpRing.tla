------------------------------ MODULE HttpRing ------------------------------
(***************************************************************************)
(* src/app/src/httpsrc.c: the rolling cache between the reader thread that *)
(* downloads a file (reader_main) and the decode thread that reads it      *)
(* (httpsrc_read).  A byte is named by its offset in the file, so the ring *)
(* maps its slots to the offsets their bytes came from; whether the bytes  *)
(* handed to the demuxer are the ones it asked for can then be said.       *)
(***************************************************************************)
EXTENDS Integers

CONSTANTS RingCap, Chunk, KeepBehind,   \* RING_CAP, RING_CHUNK, RING_KEEP_BEHIND
          FileLen,                      \* length of the file on the server
          MaxLen,                       \* longest single read
          MaxReconnects,                \* reconnects in a row without progress
          BadReplies                    \* may a reply to a Range request carry another body?

ASSUME RingAssumption ==
  /\ RingCap \in Nat /\ Chunk \in Nat /\ KeepBehind \in Nat
  /\ 0 < Chunk /\ Chunk <= RingCap
ASSUME FileAssumption ==
  /\ FileLen \in Nat /\ FileLen > 0
  /\ MaxLen \in Nat /\ MaxLen > 0 /\ MaxReconnects \in Nat
  /\ BadReplies \in BOOLEAN

VARIABLES
  ring, head, fill,                 \* g_ring, g_ringHead, g_ringFill
  cacheStart, servePos, rawPos,     \* offsets: oldest kept, next to serve, next to fetch
  eof, cleanEof, stop, abort,
  seek,                             \* g_seekTo while g_seekReq is set, else NoSeek
  total,                            \* g_total, 0 when the server did not say
  conn, kept,                       \* next byte of the connection, of the idle one kept
  reader, woken, tmp, got, tries,   \* reader_main: place, wakeup, its chunk, reconnects
  up,                               \* g_threadUp
  consumer, want, served            \* httpsrc_read: place, [pos, len], last bytes returned

cacheVars  == <<ring, head, fill, cacheStart>>
flagVars   == <<eof, cleanEof, seek, stop, abort>>
readerVars == <<reader, woken, tmp, got, tries>>
userVars   == <<consumer, want, served>>
vars == <<cacheVars, servePos, rawPos, flagVars, total, conn, kept, readerVars, up, userVars>>

Closed == -1      \* no socket
Cut    == -2      \* a socket that delivers nothing any more
NoSeek == -1

Offsets == 0 .. FileLen
Slots   == 0 .. RingCap - 1

\* (i) % RING_CAP, for sums that never reach twice the capacity.
Slot(i) == IF i < RingCap THEN i ELSE i - RingCap
Blank == [i \in 0 .. Chunk - 1 |-> 0]
NoRead == [pos |-> 0, len |-> 1]
Nothing == [pos |-> 0, bytes |-> [i \in {} |-> 0]]
Least(a, b) == IF a < b THEN a ELSE b

Init ==
  /\ ring = [s \in Slots |-> 0] /\ head = 0 /\ fill = 0
  /\ cacheStart = 0 /\ servePos = 0 /\ rawPos = 0
  /\ eof = FALSE /\ cleanEof = FALSE /\ seek = NoSeek
  /\ stop = FALSE /\ abort = FALSE
  /\ total = 0 /\ conn = Closed /\ kept = Closed
  /\ reader = "done" /\ woken = FALSE /\ tmp = Blank /\ got = 0 /\ tries = 0
  /\ up = FALSE
  /\ consumer = "idle" /\ want = NoRead /\ served = Nothing

-----------------------------------------------------------------------------
(* ring_evict_locked(need): how many of the oldest bytes go, given the byte   *)
(* the consumer has got to.                                                   *)

\* Bytes further behind the play position than the cache keeps.
TooOld(sp) ==
  LET keepFrom == IF sp > KeepBehind THEN sp - KeepBehind ELSE 0
  IN  IF keepFrom > cacheStart THEN Least(keepFrom - cacheStart, fill) ELSE 0

\* Then, if `need' bytes still do not fit, played bytes that could have stayed.
Drop(need, sp) ==
  LET old   == TooOld(sp)
      over  == fill - old + need - RingCap
      start == cacheStart + old
  IN  IF over > 0 /\ start < sp
        THEN old + Least(over, Least(sp - start, fill - old))
        ELSE old

Dropped(d) ==
  /\ head' = Slot(head + d)
  /\ fill' = fill - d
  /\ cacheStart' = cacheStart + d

-----------------------------------------------------------------------------
(* reader_main at the top of its loop, under g_mtx.                          *)

AtTop == reader = "top" \/ (reader = "waiting" /\ woken)

ReaderStop ==
  /\ AtTop /\ stop
  /\ Dropped(Drop(Chunk, servePos))
  /\ reader' = "done" /\ woken' = FALSE
  /\ UNCHANGED <<ring, servePos, rawPos, flagVars, total, conn, kept, tmp, got, tries,
                 up, userVars>>

\* Reposition the emptied cache; the request follows outside the lock.
ReaderSeek ==
  /\ AtTop /\ ~stop /\ seek # NoSeek
  /\ seek' = NoSeek /\ eof' = FALSE
  /\ head' = 0 /\ fill' = 0
  /\ cacheStart' = seek /\ servePos' = seek /\ rawPos' = seek
  /\ reader' = "request" /\ woken' = FALSE
  /\ UNCHANGED <<ring, cleanEof, stop, abort, total, conn, kept, tmp, got, tries,
                 up, userVars>>

\* Full after eviction, or at the end of the file: wait on g_condSpace.
ReaderBlock ==
  /\ AtTop /\ ~stop /\ seek = NoSeek
  /\ LET d == Drop(Chunk, servePos)
     IN  /\ fill - d + Chunk > RingCap \/ eof
         /\ Dropped(d)
  /\ reader' = "waiting" /\ woken' = FALSE
  /\ UNCHANGED <<ring, servePos, rawPos, flagVars, total, conn, kept, tmp, got, tries,
                 up, userVars>>

ReaderGo ==
  /\ AtTop /\ ~stop /\ seek = NoSeek /\ ~eof
  /\ LET d == Drop(Chunk, servePos)
     IN  fill - d + Chunk <= RingCap /\ Dropped(d)
  /\ reader' = "read" /\ woken' = FALSE
  /\ UNCHANGED <<ring, servePos, rawPos, flagVars, total, conn, kept, tmp, got, tries, up,
                 userVars>>

-----------------------------------------------------------------------------
(* The network, outside the lock.                                            *)

\* request_from(pos) with a null status: whatever the server answers is taken
\* for the body at pos, also an error page or a 200 whose discard was cut short.
Answers(pos) ==
  {pos} \cup (IF BadReplies THEN 0 .. pos - 1 ELSE {})

\* After a seek.
ReaderRequest ==
  /\ reader = "request"
  /\ \/ conn' \in Answers(rawPos) /\ cleanEof' = FALSE
     \/ conn' = Closed /\ cleanEof' \in {cleanEof, FALSE}
  /\ reader' = "top"
  /\ UNCHANGED <<cacheVars, servePos, rawPos, eof, seek, stop, abort, total, kept,
                 woken, tmp, got, tries, up, userVars>>

InFile(n) == total = 0 \/ rawPos + got + n <= total

\* Mutant: the chunk buffer is overrun.
ReceivePastChunk(n) ==
  /\ reader = "read" /\ ~(stop \/ abort)
  /\ conn >= 0 /\ conn + n <= FileLen
  /\ InFile(n)
  /\ tmp' = [i \in 0 .. Chunk - 1 |->
               IF got <= i /\ i < got + n THEN conn + (i - got) ELSE tmp[i]]
  /\ got' = got + n /\ conn' = conn + n /\ tries' = 0
  /\ UNCHANGED <<cacheVars, servePos, rawPos, flagVars, total, kept, reader, woken, up, userVars>>

\* raw_seq_read: bytes of the connection, never past the length the server gave.
Receive(n) ==
  /\ reader = "read" /\ ~(stop \/ abort)
  /\ conn >= 0 /\ conn + n <= FileLen
  /\ got + n <= Chunk /\ InFile(n)
  /\ tmp' = [i \in 0 .. Chunk - 1 |->
               IF got <= i /\ i < got + n THEN conn + (i - got) ELSE tmp[i]]
  /\ got' = got + n /\ conn' = conn + n /\ tries' = 0
  /\ UNCHANGED <<cacheVars, servePos, rawPos, flagVars, total, kept, reader, woken, up, userVars>>

\* A stalled, closed or refused read: "Resume at the exact byte range".
Reconnect ==
  /\ reader = "read" /\ ~(stop \/ abort)
  /\ got < Chunk /\ InFile(1) /\ tries < MaxReconnects
  /\ tries' = tries + 1
  /\ \/ conn' \in Answers(rawPos + got) /\ cleanEof' = FALSE /\ UNCHANGED reader
     \/ conn' = Closed /\ cleanEof' \in {cleanEof, FALSE} /\ reader' = "store"
  /\ UNCHANGED <<cacheVars, servePos, rawPos, eof, seek, stop, abort, total, kept,
                 woken, tmp, got, up, userVars>>

\* The chunk is full, the file has ended, the reconnects are used up or somebody
\* wants the reader out.
ReadEnds ==
  /\ reader = "read"
  /\ stop \/ abort \/ got = Chunk \/ ~InFile(1) \/ tries = MaxReconnects
  /\ reader' = "store"
  /\ UNCHANGED <<cacheVars, servePos, rawPos, flagVars, total, conn, kept, woken, tmp, got,
                 tries, up, userVars>>

-----------------------------------------------------------------------------
(* reader_main after the read, under g_mtx again.                            *)

BackToTop ==
  /\ reader' = "top"
  /\ tmp' = Blank /\ got' = 0 /\ tries' = 0

AtEnd(pos) == total # 0 /\ pos >= total

\* A seek arrived meanwhile: what was read belongs to the old position.
DiscardStale ==
  /\ reader = "store" /\ seek # NoSeek
  /\ BackToTop
  /\ UNCHANGED <<cacheVars, servePos, rawPos, flagVars, total, conn, kept, woken, up, userVars>>

StoreNothing ==
  /\ reader = "store" /\ seek = NoSeek /\ got = 0
  /\ eof' = TRUE /\ cleanEof' = AtEnd(rawPos)
  /\ BackToTop
  /\ UNCHANGED <<cacheVars, servePos, rawPos, seek, stop, abort, total, conn, kept,
                 woken, up, userVars>>

\* How far slot s is past the tail, going round.
Past(s, tail) == IF s >= tail THEN s - tail ELSE s + RingCap - tail

\* Mutant: the append does not wrap where eviction has moved the head.
AppendedAtFill(d) ==
  [s \in Slots |-> LET i == s - (fill - d)
                   IN  IF 0 <= i /\ i < got THEN tmp[i] ELSE ring[s]]

\* ring_append, wrapping at the end of the ring.
Appended(d) ==
  LET tail == Slot(Slot(head + d) + (fill - d))
  IN  [s \in Slots |-> IF Past(s, tail) < got THEN tmp[Past(s, tail)] ELSE ring[s]]

Store ==
  /\ reader = "store" /\ seek = NoSeek /\ got > 0
  /\ LET d    == Drop(got, servePos)
         fits == fill - d + got <= RingCap
     IN  /\ head' = Slot(head + d)
         /\ cacheStart' = cacheStart + d
         /\ fill' = IF fits THEN fill - d + got ELSE fill - d
         /\ ring' = IF fits THEN Appended(d) ELSE ring
  /\ rawPos' = rawPos + got
  /\ eof' = (eof \/ AtEnd(rawPos + got))
  /\ cleanEof' = (cleanEof \/ AtEnd(rawPos + got))
  /\ BackToTop
  /\ UNCHANGED <<servePos, seek, stop, abort, total, conn, kept, woken, up, userVars>>

-----------------------------------------------------------------------------
(* httpsrc_read: the decode thread, under g_mtx except while it waits.       *)

Outside(pos) == pos < cacheStart \/ pos > rawPos

SignalSpace == woken' = (reader = "waiting")

Return(result) ==
  /\ consumer' = "idle" /\ want' = NoRead
  /\ served' = result

WaitFor(what, pos, len) ==
  /\ consumer' = what /\ want' = [pos |-> pos, len |-> len]
  /\ served' = Nothing

\* Mutant: the copy starts at the head of the ring.
ServeFromHead(pos, len) ==
  /\ ~abort /\ cacheStart <= pos /\ pos < rawPos
  /\ LET take == Least(rawPos - pos, len)
     IN  /\ Return([pos |-> pos, bytes |-> [i \in 0 .. take - 1 |-> ring[Slot(head + i)]]])
         /\ servePos' = pos + take
         /\ Dropped(Drop(0, pos + take))
  /\ SignalSpace
  /\ UNCHANGED <<ring, flagVars, reader>>

\* Mutant: the reader is not told that room has been made.
ServeUnsignalled(pos, len) ==
  /\ ~abort /\ cacheStart <= pos /\ pos < rawPos
  /\ LET take == Least(rawPos - pos, len)
         off  == pos - cacheStart
     IN  /\ Return([pos |-> pos, bytes |-> [i \in 0 .. take - 1 |->
                                              ring[Slot(Slot(head + off) + i)]]])
         /\ servePos' = pos + take
         /\ Dropped(Drop(0, pos + take))
  /\ UNCHANGED <<ring, flagVars, reader, woken>>

\* The bytes at pos, as many as are there; then eviction and a wakeup.
Serve(pos, len) ==
  /\ ~abort /\ cacheStart <= pos /\ pos < rawPos
  /\ LET take == Least(rawPos - pos, len)
         off  == pos - cacheStart
     IN  /\ Return([pos |-> pos, bytes |-> [i \in 0 .. take - 1 |->
                                              ring[Slot(Slot(head + off) + i)]]])
         /\ servePos' = pos + take
         /\ Dropped(Drop(0, pos + take))
  /\ SignalSpace
  /\ UNCHANGED <<ring, flagVars, reader>>

\* The lock is held from the first look to the copy unless there is no byte yet.
Continue(pos, len) ==
  /\ \/ Serve(pos, len)
     \/ /\ abort \/ (pos >= rawPos /\ eof)
        /\ Return(Nothing)
        /\ UNCHANGED <<cacheVars, servePos, flagVars, reader, woken>>
     \/ /\ ~abort /\ pos >= rawPos /\ ~eof
        /\ WaitFor("awaiting", pos, len)
        /\ UNCHANGED <<cacheVars, servePos, flagVars, reader, woken>>
  /\ UNCHANGED <<rawPos, total, conn, kept, tmp, got, tries, up>>

Reading(pos) == up /\ ~stop /\ consumer = "idle" /\ ~AtEnd(pos)

ReadInside(pos, len) == Reading(pos) /\ ~Outside(pos) /\ Continue(pos, len)

\* Mutant: the reader is not woken for the seek.
ReadOutsideUnsignalled(pos, len) ==
  /\ Reading(pos) /\ Outside(pos)
  /\ seek' = pos
  /\ WaitFor("seeking", pos, len)
  /\ UNCHANGED <<cacheVars, servePos, rawPos, eof, cleanEof, stop, abort, total, conn, kept,
                 reader, woken, tmp, got, tries, up>>

\* Ask the reader to reconnect at pos; no timeout ends this wait.
ReadOutside(pos, len) ==
  /\ Reading(pos) /\ Outside(pos)
  /\ seek' = pos
  /\ WaitFor("seeking", pos, len)
  /\ SignalSpace
  /\ UNCHANGED <<cacheVars, servePos, rawPos, eof, cleanEof, stop, abort, total, conn, kept,
                 reader, tmp, got, tries, up>>

SeekSettled ==
  /\ consumer = "seeking"
  /\ abort \/ (seek = NoSeek /\ ~Outside(want.pos))
  /\ Continue(want.pos, want.len)

\* A signal or the 200 ms tick finds data, the end, or an abort.
AwaitOver ==
  /\ consumer = "awaiting"
  /\ abort \/ eof \/ want.pos < rawPos
  /\ Continue(want.pos, want.len)

\* 30 s without the byte: an end of file as far as the demuxer can tell.
TimedOut ==
  /\ consumer = "awaiting"
  /\ ~abort /\ ~eof /\ want.pos >= rawPos
  /\ Return(Nothing)
  /\ UNCHANGED <<cacheVars, servePos, rawPos, flagVars, total, conn, kept, readerVars, up>>

-----------------------------------------------------------------------------
(* httpsrc_abort, from any thread; httpsrc_open and httpsrc_close, from the   *)
(* thread that owns the source.                                               *)

Abort ==
  /\ up
  /\ abort' = TRUE
  /\ conn' = IF conn # Closed THEN Cut ELSE conn
  /\ SignalSpace
  /\ UNCHANGED <<cacheVars, servePos, rawPos, eof, cleanEof, seek, stop, total, kept,
                 reader, tmp, got, tries, up, userVars>>

\* A plain GET at byte 0, over the kept connection if there is one, else a fresh
\* one.  The reader starts only when everything before it worked.
Open ==
  /\ ~up
  /\ kept' = Closed
  /\ \/ /\ up' = TRUE /\ reader' = "top"
        /\ total' \in {0, FileLen}
        /\ conn' = 0
     \/ UNCHANGED <<up, reader, total, conn>>
  /\ UNCHANGED <<cacheVars, servePos, rawPos, flagVars, woken, tmp, got, tries, userVars>>

\* Mutant: the waiting reader is not signalled.
CloseUnsignalled ==
  /\ up /\ ~stop /\ consumer = "idle"
  /\ stop' = TRUE
  /\ conn' = IF conn # Closed /\ ~cleanEof THEN Cut ELSE conn
  /\ UNCHANGED <<cacheVars, servePos, rawPos, eof, cleanEof, seek, abort, total, kept,
                 readerVars, up, userVars>>

\* The socket is aborted under a reader that may be stuck in it.
Close ==
  /\ up /\ ~stop /\ consumer = "idle"
  /\ stop' = TRUE
  /\ conn' = IF conn # Closed /\ ~cleanEof THEN Cut ELSE conn
  /\ SignalSpace
  /\ UNCHANGED <<cacheVars, servePos, rawPos, eof, cleanEof, seek, abort, total, kept,
                 reader, tmp, got, tries, up, userVars>>

\* Mutant: the connection is kept whenever it is open.
KeepsAny == conn # Closed /\ ~abort

\* "If the response ended exactly at its length, stash the idle socket".
Keeps == cleanEof /\ conn # Closed /\ ~abort

CloseDone ==
  /\ up /\ stop /\ reader = "done"
  /\ kept' = IF Keeps THEN conn ELSE kept
  /\ conn' = Closed
  /\ ring' = [s \in Slots |-> 0]
  /\ head' = 0 /\ fill' = 0 /\ cacheStart' = 0 /\ servePos' = 0 /\ rawPos' = 0
  /\ eof' = FALSE /\ cleanEof' = FALSE /\ seek' = NoSeek /\ stop' = FALSE /\ abort' = FALSE
  /\ total' = 0 /\ up' = FALSE
  /\ UNCHANGED <<readerVars, userVars>>

-----------------------------------------------------------------------------
ReaderStep ==
  \/ ReaderStop \/ ReaderSeek \/ ReaderBlock \/ ReaderGo \/ ReaderRequest
  \/ Reconnect \/ ReadEnds \/ (\E n \in 1 .. Chunk : Receive(n))
  \/ DiscardStale \/ StoreNothing \/ Store

ConsumerStep == SeekSettled \/ AwaitOver \/ TimedOut

Next ==
  \/ ReaderStep \/ ConsumerStep
  \/ \E pos \in Offsets, len \in 1 .. MaxLen : ReadInside(pos, len) \/ ReadOutside(pos, len)
  \/ Abort \/ Open \/ Close \/ CloseDone

Spec == Init /\ [][Next]_vars

\* Both threads run; recv and the reconnect backoff have timeouts of their own.
FairSpec ==
  /\ Spec
  /\ WF_vars(ReaderStep) /\ WF_vars(ConsumerStep) /\ WF_vars(CloseDone)

-----------------------------------------------------------------------------
\* Every variable holds a value of its type.
CacheTypeOK ==
  /\ ring \in [Slots -> Int] /\ head \in Slots /\ fill \in 0 .. RingCap
  /\ cacheStart \in Nat /\ servePos \in Nat /\ rawPos \in Nat
NetTypeOK ==
  /\ eof \in BOOLEAN /\ cleanEof \in BOOLEAN /\ stop \in BOOLEAN /\ abort \in BOOLEAN
  /\ seek \in Offsets \cup {NoSeek} /\ total \in {0, FileLen} /\ up \in BOOLEAN
  /\ conn \in Offsets \cup {Closed, Cut} /\ kept \in Offsets \cup {Closed, Cut}
ThreadTypeOK ==
  /\ reader \in {"top", "waiting", "request", "read", "store", "done"} /\ woken \in BOOLEAN
  /\ tmp \in [0 .. Chunk - 1 -> Int] /\ got \in 0 .. Chunk /\ tries \in 0 .. MaxReconnects
  /\ consumer \in {"idle", "seeking", "awaiting"}
  /\ want \in [pos : Offsets, len : 1 .. MaxLen]
RingTypeOK == CacheTypeOK /\ NetTypeOK /\ ThreadTypeOK

\* The cache is the window [cacheStart, rawPos) of the file, the play position is
\* inside it, and a chunk being read will fit when it arrives (ring_append is
\* guarded by a test whose failure would leave g_rawPos ahead of the bytes).
WindowInv ==
  /\ rawPos = cacheStart + fill
  /\ cacheStart <= servePos /\ servePos <= rawPos
  /\ rawPos + got <= FileLen
  /\ (reader = "read" \/ (reader = "store" /\ seek = NoSeek)) => fill + Chunk <= RingCap

\* Every byte in the window sits in the slot its offset leads to, and every byte
\* of the chunk being read is the one that belongs there.
RingHolds ==
  \A i \in 0 .. RingCap - 1 : i < fill => ring[Slot(head + i)] = cacheStart + i
ChunkHolds ==
  \A i \in 0 .. Chunk - 1 : i < got => tmp[i] = rawPos + i

\* The connection stands where the next byte is wanted, unless a seek is about to
\* replace it; with a clean end of file it stands at the end.
ConnInv ==
  conn >= 0 =>
    /\ (reader \in {"top", "waiting"} /\ seek = NoSeek) => conn = rawPos
    /\ reader \in {"read", "store"} => conn = rawPos + got
    /\ cleanEof => conn = FileLen

\* Without a reader thread everything is as httpsrc_close left it.
DownInv ==
  /\ ~up => /\ reader = "done" /\ conn = Closed /\ seek = NoSeek /\ consumer = "idle"
             /\ rawPos = 0 /\ fill = 0 /\ ~eof /\ ~cleanEof /\ ~stop /\ ~abort
  /\ stop => consumer = "idle"
  /\ reader \notin {"read", "store"} => got = 0

\* A reader left waiting can make no room, and a byte waited for without an abort
\* is one the reader is on its way to.
WaitInv ==
  /\ (reader = "waiting" /\ ~woken /\ ~eof) => rawPos + Chunk > servePos + RingCap
  /\ (seek # NoSeek /\ ~abort) => consumer = "seeking"
  /\ (consumer = "awaiting" /\ ~abort) => want.pos <= rawPos

RingInv ==
  /\ WindowInv
  /\ RingHolds
  /\ ChunkHolds
  /\ ConnInv
  /\ DownInv
  /\ WaitInv

\* The demuxer gets the bytes of the file at the offset it asked for: "without it,
\* every seeked read returned byte-0 data and the decoder got garbage".
ServedRight ==
  \A i \in DOMAIN served.bytes : served.bytes[i] = served.pos + i

\* Reader and consumer wait for each other and only a timeout ends it.
MutualWait ==
  /\ reader = "waiting" /\ ~woken
  /\ consumer = "awaiting" /\ want.pos >= rawPos
  /\ ~eof /\ ~abort /\ ~stop

\* "A buffer underrun holds here and auto-resumes when the reader refills", with one
\* exception: the demuxer jumped ahead over unplayed
\* bytes to exactly the byte the full ring ends at, so that nothing can be evicted
\* and no seek is asked for.
StallsOnlyAtEdge ==
  MutualWait => /\ want.pos = rawPos
                /\ servePos < rawPos
                /\ rawPos + Chunk > servePos + RingCap

\* A connection is kept for the next request only with its response read to the
\* end -- or cut, and then the next request finds out and connects afresh: left
\* over bytes would be read as the next response's headers.
KeptIsClean == kept \in {Closed, Cut, FileLen}

\* A seek ends even though its wait has no timeout, and so does every read.
ReadReturns == (consumer # "idle") ~> (consumer = "idle")

\* httpsrc_close gets its reader back.
CloseEnds == stop ~> ~stop

\* No thread is left waiting for good, whichever of the two it is and whatever the
\* network, the window and the other one do: the promise of httpsrc_read and _close.
WaitsEnd == ReadReturns /\ CloseEnds
=============================================================================
