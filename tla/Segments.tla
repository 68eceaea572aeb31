------------------------------ MODULE Segments ------------------------------
(***************************************************************************)
(* An HLS stream that is up: the segment reader of src/app/src/hls.c and   *)
(* the segment ring of src/app/src/player_ff.c.                            *)
(*                                                                         *)
(* A segment is named by its media sequence number on the server, an index *)
(* is its place in the playlist parsed last.  The opener's demuxer first   *)
(* probes the stream through hls_read.  A fragmented-MP4 stream stays      *)
(* there; of a transport stream a fetch thread then takes segment after    *)
(* segment (hls_next_segment) and hands them to the decode thread through  *)
(* a ring.  A worker of hls.c downloads ahead for hls_read.                *)
(*                                                                         *)
(* `reader' is the thread in hls_read, apply_seek or the ring: the opener  *)
(* while it probes, then the decode thread.                                *)
(***************************************************************************)
EXTENDS Integers, FiniteSets, Sequences

CONSTANTS
  LiveKinds,   \* whether the stream is live, and
  Fmp4Kinds,   \* whether it is fragmented MP4: every mix is played
  Last,        \* the last segment there will ever be
  Window,      \* how many segments a live playlist lists
  Faults,      \* what may go wrong outside: a fetch, a playlist's body, its age
  Disc,        \* the segments flagged EXT-X-DISCONTINUITY
  SegRing,     \* SEG_RING, 3 in the code
  Budget,      \* SEG_BUDGET_BYTES
  Huge,        \* segments larger than the budget; the others count 1
  Depth,       \* g_prefDepth, 3 to 8
  PrefSlots,   \* HLS_PREFETCH_MAX, 10
  MaxShifts,   \* bound on the variants changed to
  MaxFaults,   \* bound on what goes wrong
  MaxSeeks     \* bound on what the viewer does

ASSUME StreamAssumption ==
  /\ LiveKinds \subseteq BOOLEAN /\ Fmp4Kinds \subseteq BOOLEAN
  /\ Last \in Nat /\ Window \in Nat \ {0} 
  /\ Faults \subseteq {"fetch", "body", "edge"}
  /\ Disc \subseteq 0 .. Last /\ Huge \subseteq 0 .. Last
ASSUME SizesAssumption ==
  /\ SegRing \in Nat \ {0} /\ Budget \in Nat \ {0}
  /\ PrefSlots \in Nat \ {0} /\ Depth \in 1 .. PrefSlots
  /\ MaxFaults \in Nat /\ MaxShifts \in Nat /\ MaxSeeks \in Nat

VARIABLES
  kind,      \* which stream this is
  srv,       \* the server's window: first, last, over (EXT-X-ENDLIST)
  hls,       \* g_pl and g_segIdx, g_resetGen: seq, count, live, url, idx, reset
  src,       \* init (g_initPending), mem (g_memBuf), http (g_open), streak
  switch,    \* g_variantSwitchPending
  pref,      \* the prefetch worker: stage, g_prefStop, its job, ready slots of g_pref
  aborted,   \* aseg's sticky abort
  th,        \* per thread: stage and locals of hls_read and hls_next_segment
  phase,     \* "probing" (the demuxer of play_open) or "playing"
  sr,        \* the ring: g_segReadAhead, g_segFetchStop, entries
  seek,      \* g_seekPending and g_seekTo, in segments from the window's start
  play,      \* g_decEof, g_liveRestartPending, g_hlsResetGen
  stopper,   \* the opener in player_teardown
  seen,      \* history: the segment decoded last, its generation; was it again?
  goal,      \* history: the segment the last seek carried out landed on
  used       \* what the bounds count: faults, shifts, seeks

fetching == <<src, switch, pref, aborted>>
owners == <<sr, seek, play, stopper>>
shown == <<seen, goal>>
histories == <<shown, used>>
vars == <<kind, srv, hls, src, switch, pref, aborted, th, phase, sr, seek, play,
          stopper, seen, goal, used>>

NoSeg == -2
InitSeg == -1      \* SEG_INIT
NoUnit == [seg |-> NoSeg, read |-> FALSE]
Unit(s) == [seg |-> s, read |-> FALSE]
Item(s, gen) == [seg |-> s, gen |-> gen]
NoItem == Item(NoSeg, 0)
NoneSeen == [item |-> NoItem, again |-> FALSE]
Least(x, y) == IF x < y THEN x ELSE y
Most(x, y) == IF x > y THEN x ELSE y
NoSlot == [index |-> 0, holds |-> NoSeg]
Begins(stage) == [at |-> stage, why |-> "end", next |-> 0, item |-> NoItem]
Stopped == stopper # "none"       \* g_decStop

\* Something goes wrong: because of what is said, or of itself.
Fault(f) ==
  /\ f \in Faults /\ used.faults < MaxFaults
  /\ used' = [used EXCEPT !.faults = @ + 1]
FailsOn(reason) == (reason /\ UNCHANGED used) \/ Fault("fetch")

Kinds == [live: LiveKinds, fmp4: Fmp4Kinds]

-----------------------------------------------------------------------------
(* Playlists.                                                               *)

\* hlspl_parse_media on the server's window, also as an edge of the network
\* shows it that is one segment behind.
Listed(behind) ==
  [seq |-> srv.first - behind, count |-> srv.last - srv.first + 1,
   live |-> ~srv.over \/ behind > 0]

\* Mutant: the jump is not announced.
ReindexedMutant(next, list) ==
  LET raw == next - list.seq IN
  [seq |-> list.seq, count |-> list.count, live |-> list.live, url |-> TRUE,
   idx |-> IF raw < 0 THEN 0 ELSE Least(raw, list.count), reset |-> hls.reset]

\* refresh_live_playlist: the segment to play next keeps its number; one that
\* fell off the window is given up and the player told so.
Reindexed(next, list) ==
  LET raw == next - list.seq IN
  [seq |-> list.seq, count |-> list.count, live |-> list.live, url |-> TRUE,
   idx |-> IF raw < 0 THEN 0 ELSE Least(raw, list.count),
   reset |-> IF raw < 0 THEN hls.reset + 1 ELSE hls.reset]

\* load_variant: variants are aligned in time.
Aligned(next, list) ==
  [seq |-> list.seq, count |-> list.count, live |-> list.live, url |-> TRUE,
   idx |-> Most(0, Least(next - list.seq, list.count - 1)), reset |-> hls.reset]

\* What free_segs leaves, and then a body that is no playlist: that has no
\* EXT-X-ENDLIST either.
Emptied(live, url) ==
  [seq |-> 0, count |-> 0, live |-> live, url |-> url, idx |-> 0, reset |-> hls.reset]

Holds(i) == hls.seq + i
OnServer(s) == s = InitSeg \/ s \in srv.first .. srv.last
AtEof == ~hls.live /\ hls.idx >= hls.count       \* hls_at_eof
External == phase = "playing" /\ ~kind.fmp4      \* g_externalSegFetch

-----------------------------------------------------------------------------
(* Where a thread is.  "wait" is the pause before another try.              *)

At(t, stage) == th[t].at = stage
Goes(t, stage) == th' = [th EXCEPT ![t].at = stage]
Refreshes(t, why) == th' = [th EXCEPT ![t].at = "refresh", ![t].why = why]
InRead(t) == t = "reader" /\ ~External

\* hls_open has parsed the playlist and, for a film, started the worker; a
\* reopen may have moved on to a later segment (hls_seek_clamped).
Init ==
  /\ kind \in Kinds
  /\ srv = [first |-> 0, last |-> IF kind.live THEN Least(Window - 1, Last) ELSE Last,
            over |-> ~kind.live]
  /\ \E i \in 0 .. 1 :
       hls = [seq |-> 0, count |-> srv.last + 1, live |-> kind.live, url |-> TRUE,
              idx |-> Least(i, srv.last), reset |-> i]
  /\ src = [init |-> kind.fmp4, mem |-> NoUnit, http |-> NoUnit, streak |-> 0]
  /\ switch = FALSE
  /\ pref = [at |-> IF kind.live THEN "off" ELSE "top", stop |-> FALSE,
             job |-> NoSlot, ready |-> {}]
  /\ aborted = FALSE
  /\ th = [reader |-> Begins("ensure"), fetcher |-> Begins("off")]
  /\ phase = "probing"
  /\ sr = [up |-> FALSE, stop |-> FALSE, items |-> <<>>]
  /\ seek = -1
  /\ play = [eof |-> FALSE, restart |-> FALSE, reset |-> 0]
  /\ stopper = "none"
  /\ seen = NoneSeen /\ goal = NoItem
  /\ used = [faults |-> 0, shifts |-> 0, seeks |-> 0]

-----------------------------------------------------------------------------
(* The server of a live stream: its window moves until the event is over.   *)

Publish ==
  /\ ~srv.over
  /\ srv' = IF srv.last = Last THEN [srv EXCEPT !.over = TRUE]
            ELSE [srv EXCEPT !.last = @ + 1, !.first = Most(@, srv.last + 2 - Window)]
  /\ UNCHANGED <<kind, hls, fetching, th, phase, owners, histories>>

-----------------------------------------------------------------------------
(* refresh_live_playlist, in whichever thread: the window is fetched and    *)
(* the old list freed; then the new one is parsed.  Others look at the      *)
(* playlist in between.                                                     *)

\* hls_read opens what it now has; a miss is tried again either way.
AfterRefresh(t, ok, live) ==
  LET stage == IF th[t].why = "end" /\ ok THEN "fetch"
               ELSE IF th[t].why = "end" /\ InRead(t) /\ ~live THEN "ended"
               ELSE "wait"
  IN th' = [th EXCEPT ![t] = Begins(stage)]

RefreshFails(t) ==
  /\ At(t, "refresh")
  /\ FailsOn(aborted \/ ~hls.live \/ ~hls.url)
  /\ AfterRefresh(t, FALSE, hls.live)
  /\ UNCHANGED <<kind, srv, hls, fetching, phase, owners, shown>>

\* The worker is never up while the list is live, so prefetch_stop only drops
\* what is in memory.
RefreshFetched(t) ==
  /\ At(t, "refresh") /\ hls.live /\ hls.url /\ ~aborted
  /\ th' = [th EXCEPT ![t].at = "parse", ![t].next = hls.seq + hls.idx]
  /\ hls' = Emptied(FALSE, TRUE)
  /\ src' = [src EXCEPT !.mem = NoUnit]
  /\ UNCHANGED <<kind, srv, switch, pref, aborted, phase, owners, histories>>

\* Mutant: the abort stays.
LiftedMutant == aborted

\* aseg_resume, by whoever aborted once the fetchers are joined.
Lifted == FALSE

\* prefetch_start: nothing beside the fetch thread, a worker for a film only.
Prefetched(list) ==
  IF list.live \/ External THEN pref ELSE [pref EXCEPT !.at = "top", !.stop = FALSE]
Resumed == IF External THEN aborted ELSE Lifted

RefreshParsed(t) ==
  /\ At(t, "parse")
  /\ \E behind \in 0 .. 1 :
       LET list == Reindexed(th[t].next, Listed(behind)) IN
       /\ behind <= srv.first
       /\ IF behind = 0 THEN UNCHANGED used ELSE Fault("edge")
       /\ hls' = list
       /\ AfterRefresh(t, list.idx < list.count, list.live)
       /\ pref' = Prefetched(list)
  /\ aborted' = Resumed
  /\ UNCHANGED <<kind, srv, src, switch, phase, owners, shown>>

RefreshUnparsed(t) ==
  /\ At(t, "parse") /\ Fault("body")
  /\ hls' = Emptied(TRUE, TRUE)
  /\ AfterRefresh(t, FALSE, TRUE)
  /\ UNCHANGED <<kind, srv, fetching, phase, owners, shown>>

-----------------------------------------------------------------------------
(* The prefetch worker: prefetch_main.                                      *)

Cached(i) == \E slot \in pref.ready : slot.index = i
Ahead ==
  LET base == hls.idx + IF hls.live THEN 0 ELSE 1 IN
  {i \in base .. base + Depth - 1 : i < hls.count /\ ~Cached(i)}

PrefStops ==
  /\ pref.at = "top" /\ pref.stop
  /\ pref' = [pref EXCEPT !.at = "off"]
  /\ UNCHANGED <<kind, srv, hls, src, switch, aborted, th, phase, owners, histories>>

PrefPicks ==
  /\ pref.at = "top" /\ ~pref.stop
  /\ Cardinality(pref.ready) < PrefSlots
  /\ \E i \in Ahead :
       /\ \A j \in Ahead : i <= j
       /\ pref' = [pref EXCEPT !.at = "fetch", !.job = [index |-> i, holds |-> Holds(i)]]
  /\ UNCHANGED <<kind, srv, hls, src, switch, aborted, th, phase, owners, histories>>

PrefFetched ==
  /\ pref.at = "fetch" /\ ~aborted
  /\ pref' = [pref EXCEPT !.at = "top", !.job = NoSlot,
                          !.ready = IF pref.stop THEN @ ELSE @ \cup {pref.job}]
  /\ UNCHANGED <<kind, srv, hls, src, switch, aborted, th, phase, owners, histories>>

PrefFails ==
  /\ pref.at = "fetch"
  /\ FailsOn(aborted)
  /\ pref' = [pref EXCEPT !.at = "top", !.job = NoSlot]
  /\ UNCHANGED <<kind, srv, hls, src, switch, aborted, th, phase, owners, shown>>

\* prefetch_stop, its two halves: ask and abort; once joined, drop everything.
PrefAsked == IF pref.at = "off" THEN pref ELSE [pref EXCEPT !.stop = TRUE]
PrefAborts == aborted \/ pref.at # "off"
PrefCleared == [pref EXCEPT !.ready = {}]

-----------------------------------------------------------------------------
(* hls_read, which the demuxer calls: ensure_segment, then a read.          *)

Serving == th' = [th EXCEPT !.reader = Begins("serve")]
NoneOpen == src.mem = NoUnit /\ src.http = NoUnit
Wanted == IF src.init THEN InitSeg ELSE Holds(hls.idx)

ReadOpen ==
  /\ At("reader", "ensure") /\ ~NoneOpen
  /\ Serving
  /\ UNCHANGED <<kind, srv, hls, fetching, phase, owners, histories>>

\* prefetch_take
ReadCached ==
  /\ At("reader", "ensure") /\ NoneOpen /\ ~src.init
  /\ hls.idx < hls.count /\ pref.at # "off"
  /\ \E slot \in pref.ready :
       /\ slot.index = hls.idx
       /\ src' = [src EXCEPT !.mem = Unit(slot.holds)]
       /\ pref' = [pref EXCEPT !.ready = @ \ {slot}]
  /\ Serving
  /\ UNCHANGED <<kind, srv, hls, switch, aborted, phase, owners, histories>>

ReadMisses ==
  /\ At("reader", "ensure") /\ NoneOpen
  /\ \/ src.init
     \/ hls.idx < hls.count /\ ~(Cached(hls.idx) /\ pref.at # "off")
  /\ Goes("reader", "fetch")
  /\ UNCHANGED <<kind, srv, hls, fetching, phase, owners, histories>>

ReadPastEnd ==
  /\ At("reader", "ensure") /\ NoneOpen /\ ~src.init /\ hls.idx >= hls.count
  /\ IF hls.live THEN Refreshes("reader", "end") ELSE Goes("reader", "ended")
  /\ UNCHANGED <<kind, srv, hls, fetching, phase, owners, histories>>

\* open_mem_segment
MemOpened(s) == [src EXCEPT !.mem = Unit(s), !.streak = 0]
Missed == [src EXCEPT !.streak = IF hls.live THEN Least(@ + 1, 2) ELSE @]

\* Live segments go through memory.  So does what httpsrc cannot open, and
\* whatever has a key or a range.
ReadFetched ==
  /\ At("reader", "fetch") /\ InRead("reader") /\ OnServer(Wanted)
  /\ \/ ~aborted /\ src' = MemOpened(Wanted)
     \/ (src.init \/ ~hls.live) /\ src' = [src EXCEPT !.http = Unit(Wanted)]
  /\ Serving
  /\ UNCHANGED <<kind, srv, hls, switch, pref, aborted, phase, owners, histories>>

\* A miss ends a film; of a live stream it is retried, twice before the list is
\* fetched anew.
ReadFetchFails ==
  /\ At("reader", "fetch") /\ InRead("reader")
  /\ FailsOn(~OnServer(Wanted) \/ Stopped \/ (aborted /\ hls.live /\ ~src.init))
  /\ src' = Missed
  /\ IF src.init \/ ~hls.live THEN Goes("reader", "ended")
     ELSE IF src'.streak >= 2 THEN Refreshes("reader", "miss")
     ELSE Goes("reader", "wait")
  /\ UNCHANGED <<kind, srv, hls, switch, pref, aborted, phase, owners, shown>>

\* The decoder has a segment.  Of one read through the demuxer that is so once
\* it plays.
Sees(item) ==
  /\ seen' = [item |-> item, again |-> item = seen.item /\ ~seen.again]
  /\ goal' = NoItem
Demuxes(s) ==
  IF s >= 0 /\ phase = "playing" /\ ~Stopped THEN Sees(Item(s, hls.reset))
  ELSE UNCHANGED <<seen, goal>>

ReadServes ==
  /\ At("reader", "serve")
  /\ \E from \in {"mem", "http"} :
       /\ from = "http" => src.mem = NoUnit
       /\ src[from] # NoUnit /\ ~src[from].read
       /\ src' = [src EXCEPT ![from].read = TRUE]
       /\ Demuxes(src[from].seg)
  /\ Goes("reader", "got")
  /\ UNCHANGED <<kind, srv, hls, switch, pref, aborted, phase, owners, used>>

Advanced == [hls EXCEPT !.idx = @ + 1]

ReadDrainsMem ==
  /\ At("reader", "serve") /\ src.mem.read
  /\ src' = [src EXCEPT !.mem = NoUnit, !.init = @ /\ src.mem.seg # InitSeg]
  /\ hls' = IF src.mem.seg = InitSeg THEN hls ELSE Advanced
  /\ Goes("reader", "ensure")
  /\ UNCHANGED <<kind, srv, switch, pref, aborted, phase, owners, histories>>

\* A segment is over when httpsrc_read has no more, also when it failed.  Here,
\* between two segments, another variant is taken if a rebuffer or three fast
\* downloads asked for it: a fragmented-MP4 stream has to be reopened for it.
ReadDrainsHttp ==
  LET media == src.http.seg # InitSeg IN
  /\ At("reader", "serve") /\ src.mem = NoUnit
  /\ src' = [src EXCEPT !.http = NoUnit, !.init = @ /\ media]
  /\ hls' = IF media THEN Advanced ELSE hls
  /\ \/ /\ FailsOn(src.http.read \/ Stopped)
        /\ switch' = switch
        /\ Goes("reader", "ensure")
     \/ /\ media /\ src.http.read /\ used.shifts < MaxShifts
        /\ used' = [used EXCEPT !.shifts = @ + 1]
        /\ switch' = (switch \/ kind.fmp4)
        /\ Goes("reader", IF kind.fmp4 THEN "ensure" ELSE "unprefetch")
  /\ UNCHANGED <<kind, srv, pref, aborted, phase, owners, shown>>

\* prefetch_stop before a change of variant, and before the fetch thread.
Unprefetch ==
  /\ \/ At("reader", "unprefetch") /\ Goes("reader", "variant")
     \/ At("reader", "detach") /\ Goes("reader", "detaching")
  /\ pref' = PrefAsked /\ aborted' = PrefAborts
  /\ UNCHANGED <<kind, srv, hls, src, switch, phase, owners, histories>>

\* load_variant: its playlist is not there, is one, or is no playlist.
LoadVariant ==
  /\ At("reader", "variant") /\ pref.at = "off"
  /\ \/ FailsOn(FALSE) /\ hls' = hls
     \/ hls' = Aligned(Holds(hls.idx), Listed(0)) /\ UNCHANGED used
     \/ hls' = Emptied(TRUE, FALSE) /\ Fault("body")
  /\ src' = [src EXCEPT !.mem = NoUnit, !.http = NoUnit]
  /\ pref' = IF hls'.live THEN PrefCleared
             ELSE [PrefCleared EXCEPT !.at = "top", !.stop = FALSE]
  /\ aborted' = Lifted
  /\ Goes("reader", "ensure")
  /\ UNCHANGED <<kind, srv, switch, phase, owners, shown>>

-----------------------------------------------------------------------------
(* hls_next_segment: the fetch thread, or the decode thread without one.    *)

NextStopped(t) ==
  /\ At(t, "next") /\ sr.stop
  /\ Goes(t, "none")
  /\ UNCHANGED <<kind, srv, hls, fetching, phase, owners, histories>>

NextPastEnd(t) ==
  /\ At(t, "next") /\ ~sr.stop /\ hls.idx >= hls.count
  /\ IF hls.live THEN Refreshes(t, "end") ELSE Goes(t, "none")
  /\ UNCHANGED <<kind, srv, hls, fetching, phase, owners, histories>>

NextFetches(t) ==
  /\ At(t, "next") /\ ~sr.stop /\ hls.idx < hls.count
  /\ Goes(t, "fetch")
  /\ UNCHANGED <<kind, srv, hls, fetching, phase, owners, histories>>

\* A discontinuity counts as a reset, from this segment on.
NextFetched(t) ==
  LET s == Holds(hls.idx)
      gen == IF s \in Disc THEN hls.reset + 1 ELSE hls.reset
  IN
  /\ At(t, "fetch") /\ ~InRead(t)
  /\ ~aborted /\ OnServer(s)
  /\ th' = [th EXCEPT ![t].at = "item", ![t].item = Item(s, gen)]
  /\ hls' = [Advanced EXCEPT !.reset = gen]
  /\ src' = [src EXCEPT !.streak = 0]
  /\ UNCHANGED <<kind, srv, switch, pref, aborted, phase, owners, histories>>

NextFails(t) ==
  /\ At(t, "fetch") /\ ~InRead(t)
  /\ FailsOn(aborted \/ ~OnServer(Holds(hls.idx)))
  /\ src' = [Missed EXCEPT !.mem = NoUnit]
  /\ IF src'.streak >= 2 THEN Refreshes(t, "miss") ELSE Goes(t, "wait")
  /\ UNCHANGED <<kind, srv, hls, switch, pref, aborted, phase, owners, shown>>

\* Both loops pause and try again; at any such pause HLS_READ_STALL_US may have
\* gone by since the first.
WaitOver(t) ==
  /\ At(t, "wait")
  /\ Goes(t, IF InRead(t) THEN "ensure" ELSE "next")
  /\ UNCHANGED <<kind, srv, hls, fetching, phase, owners, histories>>

GivesUp(t) ==
  /\ At(t, "wait")
  /\ Goes(t, IF InRead(t) THEN "ended" ELSE "none")
  /\ UNCHANGED <<kind, srv, hls, fetching, phase, owners, histories>>

-----------------------------------------------------------------------------
(* play_open: the demuxer probes until it knows the tracks.  Then a          *)
(* transport stream is handed over to the fetch thread.                     *)

\* A read that brought nothing fails the probe, unless it had enough; so does a
\* newer request, at the next read.
ProbeReads ==
  /\ phase = "probing" /\ At("reader", "got")
  /\ Goes("reader", "ensure")
  /\ UNCHANGED <<kind, srv, hls, fetching, phase, owners, histories>>

ProbeFails ==
  /\ phase = "probing" /\ th.reader.at \in {"got", "ended"}
  /\ Goes("reader", "failed")
  /\ UNCHANGED <<kind, srv, hls, fetching, phase, owners, histories>>

Probed ==
  /\ phase = "probing" /\ th.reader.at \in {"got", "ended"}
  /\ IF kind.fmp4
     THEN /\ phase' = "playing" /\ play' = [play EXCEPT !.reset = hls.reset]
          /\ Goes("reader", "loop")
     ELSE /\ UNCHANGED <<phase, play>>
          /\ Goes("reader", "detach")
  /\ UNCHANGED <<kind, srv, hls, fetching, sr, seek, stopper, histories>>

\* Mutant: what is in memory stays there.
DetachedMutant ==
  /\ At("reader", "detaching") /\ pref.at = "off"
  /\ pref' = PrefCleared /\ aborted' = Lifted
  /\ src' = src
  /\ play' = [play EXCEPT !.reset = hls.reset]
  /\ Goes("reader", "start")
  /\ UNCHANGED <<kind, srv, hls, switch, phase, sr, seek, stopper, histories>>

\* hls_set_external_segment_fetch: whatever the probe had begun is begun anew.
Detached ==
  /\ At("reader", "detaching") /\ pref.at = "off"
  /\ pref' = PrefCleared /\ aborted' = Lifted
  /\ src' = [src EXCEPT !.mem = NoUnit]
  /\ play' = [play EXCEPT !.reset = hls.reset]
  /\ Goes("reader", "start")
  /\ UNCHANGED <<kind, srv, hls, switch, phase, sr, seek, stopper, histories>>

\* seg_readahead_start; without the thread the decoder fetches for itself.
StartsReadAhead ==
  /\ At("reader", "start")
  /\ \E up \in BOOLEAN :
       /\ sr' = [up |-> up, stop |-> FALSE, items |-> <<>>]
       /\ th' = [th EXCEPT !.reader = Begins("loop"),
                           !.fetcher = Begins(IF up THEN "next" ELSE "off")]
  /\ phase' = "playing"
  /\ UNCHANGED <<kind, srv, hls, fetching, seek, play, stopper, histories>>

-----------------------------------------------------------------------------
(* The fetch thread: seg_fetch_thread_main.                                 *)

Size(s) == IF s \in Huge THEN Budget + 1 ELSE 1
Bytes(items) == Len(items) + Budget * Cardinality({i \in DOMAIN items : items[i].seg \in Huge})

\* Mutants: slots are counted, bytes are not; the budget holds for every segment.
SlotsOnly(s) == Len(sr.items) < SegRing
BudgetAlways(s) == Len(sr.items) < SegRing /\ Bytes(sr.items) + Size(s) <= Budget

RingHasRoom(s) ==
  /\ Len(sr.items) < SegRing
  /\ sr.items # <<>> => Bytes(sr.items) + Size(s) <= Budget

FetcherPushes ==
  /\ At("fetcher", "item") /\ ~sr.stop
  /\ RingHasRoom(th.fetcher.item.seg)
  /\ sr' = [sr EXCEPT !.items = Append(@, th.fetcher.item)]
  /\ th' = [th EXCEPT !.fetcher = Begins("next")]
  /\ UNCHANGED <<kind, srv, hls, fetching, phase, seek, play, stopper, histories>>

FetcherGoesOn ==
  /\ At("fetcher", "none") /\ ~sr.stop
  /\ th' = [th EXCEPT !.fetcher = Begins("next")]
  /\ UNCHANGED <<kind, srv, hls, fetching, phase, owners, histories>>

FetcherStops ==
  /\ th.fetcher.at \in {"item", "none"} /\ sr.stop
  /\ th' = [th EXCEPT !.fetcher = Begins("off")]
  /\ UNCHANGED <<kind, srv, hls, fetching, phase, owners, histories>>

-----------------------------------------------------------------------------
(* The decode thread: decode_thread_main through the demuxer's reads, and   *)
(* decode_segment_thread_main through the ring.                             *)

Looping == phase = "playing" /\ At("reader", "loop")
Idling == phase = "playing" /\ th.reader.at \in {"loop", "over"}

LoopStops ==
  /\ phase = "playing" /\ th.reader.at \in {"loop", "over", "got", "ended", "none", "item"} /\ Stopped
  /\ th' = [th EXCEPT !.reader = Begins("off")]
  /\ UNCHANGED <<kind, srv, hls, fetching, phase, owners, histories>>

\* A switch of variant, or a reset on the continuous stream: reopen.
LoopReopens ==
  /\ Idling /\ ~Stopped /\ kind.fmp4 /\ seek < 0
  /\ switch \/ hls.reset # play.reset
  /\ switch' = FALSE
  /\ play' = [play EXCEPT !.restart = TRUE, !.reset = hls.reset]
  /\ Goes("reader", "off")
  /\ UNCHANGED <<kind, srv, hls, src, pref, aborted, phase, sr, seek, stopper, histories>>

LoopReads ==
  /\ Looping /\ ~Stopped /\ kind.fmp4 /\ seek < 0
  /\ ~switch /\ hls.reset = play.reset
  /\ th' = [th EXCEPT !.reader = Begins("ensure")]
  /\ UNCHANGED <<kind, srv, hls, fetching, phase, owners, histories>>

Decoded ==
  /\ phase = "playing" /\ kind.fmp4 /\ At("reader", "got") /\ ~Stopped
  /\ Goes("reader", "loop")
  /\ UNCHANGED <<kind, srv, hls, fetching, phase, owners, histories>>

\* The demuxer stays at its end until a seek reopens the stream.
ReadsEnd ==
  /\ phase = "playing" /\ ~Stopped
  /\ At("reader", "ended") \/ (At("reader", "over") /\ ~play.eof)
  /\ play' = [play EXCEPT !.eof = TRUE]
  /\ Goes("reader", "over")
  /\ UNCHANGED <<kind, srv, hls, fetching, phase, sr, seek, stopper, histories>>

\* seg_ring_pop, or the fetch in line.
LoopPops ==
  /\ Looping /\ ~Stopped /\ ~kind.fmp4 /\ seek < 0
  /\ th' = [th EXCEPT !.reader = Begins(IF sr.up THEN "pop" ELSE "next")]
  /\ UNCHANGED <<kind, srv, hls, fetching, phase, owners, histories>>

Pops ==
  /\ At("reader", "pop") /\ seek < 0 /\ sr.items # <<>>
  /\ sr' = [sr EXCEPT !.items = Tail(@)]
  /\ th' = [th EXCEPT !.reader.at = "item", !.reader.item = Head(sr.items)]
  /\ UNCHANGED <<kind, srv, hls, fetching, phase, seek, play, stopper, histories>>

PopEnds == seek >= 0 \/ Stopped

PopsNothing ==
  /\ At("reader", "pop") /\ PopEnds
  /\ Goes("reader", "none")
  /\ UNCHANGED <<kind, srv, hls, fetching, phase, owners, histories>>

\* A segment of another generation resets the decoders; a seek that came in
\* between drops it, and the seek before that one has nothing to show any more.
Decodes ==
  /\ External /\ At("reader", "item") /\ ~Stopped
  /\ play' = [play EXCEPT !.reset = th.reader.item.gen]
  /\ IF seek < 0 THEN Sees(th.reader.item) ELSE goal' = NoItem /\ UNCHANGED seen
  /\ th' = [th EXCEPT !.reader = Begins("loop")]
  /\ UNCHANGED <<kind, srv, hls, fetching, phase, sr, seek, stopper, used>>

NothingToDecode ==
  /\ External /\ At("reader", "none") /\ ~Stopped
  /\ play' = [play EXCEPT !.eof = @ \/ AtEof]
  /\ th' = [th EXCEPT !.reader = Begins("loop")]
  /\ UNCHANGED <<kind, srv, hls, fetching, phase, sr, seek, stopper, histories>>

-----------------------------------------------------------------------------
(* apply_seek.  The request is in segments from the start of the window.    *)

\* hls_can_seek, hls_can_seek_clamped
CanSeek == hls.count > 0

\* The request is taken.  A fragmented-MP4 stream is to be rebuilt at the target,
\* by a restart that ends the thread; of a stream that lists nothing nothing
\* can be done.
SeekTaken ==
  /\ Idling /\ seek >= 0 /\ ~Stopped
  /\ seek' = -1
  /\ play' = [play EXCEPT !.eof = FALSE, !.restart = @ \/ (kind.fmp4 /\ CanSeek)]
  /\ th' = IF CanSeek /\ ~kind.fmp4
           THEN [th EXCEPT !.reader.at = "halt", !.reader.next = seek] ELSE th
  /\ UNCHANGED <<kind, srv, hls, fetching, phase, sr, stopper, histories>>

\* seg_readahead_stop: flag, abort, wake, join, flush, destroy.
Halted == [sr EXCEPT !.stop = @ \/ sr.up]

SeekHalts ==
  /\ At("reader", "halt")
  /\ sr' = Halted /\ aborted' = (aborted \/ sr.up)
  /\ Goes("reader", IF sr.up THEN "join" ELSE "move")
  /\ UNCHANGED <<kind, srv, hls, src, switch, pref, phase, seek, play, stopper, histories>>

SeekJoins ==
  /\ At("reader", "join") /\ At("fetcher", "off")
  /\ sr' = [sr EXCEPT !.up = FALSE, !.items = <<>>]
  /\ Goes("reader", "move")
  /\ UNCHANGED <<kind, srv, hls, fetching, phase, seek, play, stopper, histories>>

\* hls_seek_clamped: past the end is the end.
SeekMoves ==
  LET target == Least(th.reader.next, hls.count) IN
  /\ At("reader", "move") /\ CanSeek
  /\ hls' = [hls EXCEPT !.idx = target, !.reset = @ + 1]
  /\ src' = [src EXCEPT !.mem = NoUnit, !.http = NoUnit]
  /\ aborted' = Lifted
  /\ play' = [play EXCEPT !.reset = hls.reset + 1, !.eof = FALSE]
  /\ goal' = IF target < hls.count THEN Item(Holds(target), hls.reset + 1) ELSE NoItem
  /\ Goes("reader", "start")
  /\ UNCHANGED <<kind, srv, switch, pref, phase, sr, seek, stopper, seen, used>>

\* The list was lost while the fetch thread was joined.
SeekLost ==
  /\ At("reader", "move") /\ ~CanSeek
  /\ play' = [play EXCEPT !.eof = FALSE]
  /\ Goes("reader", "loop")
  /\ UNCHANGED <<kind, srv, hls, fetching, phase, sr, seek, stopper, histories>>

-----------------------------------------------------------------------------
(* Others: the viewer, the renderer, and the opener that takes it all down  *)
(* (player_teardown, then hls_close).                                       *)

AsksSeek ==
  /\ phase = "playing" /\ ~Stopped /\ used.seeks < MaxSeeks
  /\ seek' \in 0 .. srv.last - srv.first + 1
  /\ used' = [used EXCEPT !.seeks = @ + 1]
  /\ UNCHANGED <<kind, srv, hls, fetching, th, phase, sr, play, stopper, shown>>

\* The histories end here.
StopFlags ==
  /\ ~Stopped
  /\ phase = "playing" \/ At("reader", "failed")
  /\ sr' = [sr EXCEPT !.stop = TRUE]
  /\ stopper' = IF sr.up THEN "signal" ELSE "join"
  /\ seen' = NoneSeen /\ goal' = NoItem
  /\ UNCHANGED <<kind, srv, hls, fetching, th, phase, seek, play, used>>

StopSignals ==
  /\ stopper = "signal"
  /\ stopper' = "join" /\ aborted' = TRUE
  /\ UNCHANGED <<kind, srv, hls, src, switch, pref, th, phase, sr, seek, play, histories>>

StopJoins ==
  /\ stopper = "join" /\ th.reader.at \in {"off", "failed"}
  /\ stopper' = "ring" /\ sr' = Halted /\ aborted' = (aborted \/ sr.up)
  /\ UNCHANGED <<kind, srv, hls, src, switch, pref, th, phase, seek, play, histories>>

\* hls_close begins with prefetch_stop.
StopRing ==
  /\ stopper = "ring" /\ At("fetcher", "off")
  /\ sr' = [up |-> FALSE, stop |-> FALSE, items |-> <<>>]
  /\ pref' = PrefAsked /\ aborted' = PrefAborts
  /\ stopper' = "close"
  /\ UNCHANGED <<kind, srv, hls, src, switch, th, phase, seek, play, histories>>

StopClosed ==
  /\ stopper = "close" /\ pref.at = "off"
  /\ pref' = PrefCleared
  /\ src' = [src EXCEPT !.init = FALSE, !.mem = NoUnit, !.http = NoUnit]
  /\ hls' = Emptied(FALSE, FALSE)
  /\ stopper' = "closed"
  /\ UNCHANGED <<kind, srv, switch, aborted, th, phase, sr, seek, play, histories>>

-----------------------------------------------------------------------------

Threads == {"reader", "fetcher"}

Refresh(t) == RefreshFails(t) \/ RefreshFetched(t) \/ RefreshParsed(t) \/ RefreshUnparsed(t)
NextSegment(t) ==
  \/ NextStopped(t) \/ NextPastEnd(t) \/ NextFetches(t) \/ NextFetched(t) \/ NextFails(t)
Prefetch == PrefStops \/ PrefPicks \/ PrefFetched \/ PrefFails
Reading ==
  \/ ReadOpen \/ ReadCached \/ ReadMisses \/ ReadPastEnd \/ ReadFetched \/ ReadFetchFails
  \/ ReadServes \/ ReadDrainsMem \/ ReadDrainsHttp \/ Unprefetch \/ LoadVariant
Probing == ProbeReads \/ ProbeFails \/ Probed \/ Detached \/ StartsReadAhead
FetcherRuns == FetcherPushes \/ FetcherGoesOn \/ FetcherStops
Decoding ==
  \/ LoopStops \/ LoopReopens \/ LoopReads \/ Decoded \/ ReadsEnd \/ LoopPops \/ Pops
  \/ PopsNothing \/ Decodes \/ NothingToDecode
Seeking ==
  \/ SeekTaken \/ SeekHalts \/ SeekJoins \/ SeekMoves \/ SeekLost
Stopping == StopFlags \/ StopSignals \/ StopJoins \/ StopRing \/ StopClosed

Waits(t) == WaitOver(t) \/ GivesUp(t)
Steps(t) == Refresh(t) \/ NextSegment(t) \/ Waits(t)

ReaderStep == Reading \/ Probing \/ Decoding \/ Seeking \/ Steps("reader")
FetcherStep == FetcherRuns \/ Steps("fetcher")
StopStep == StopSignals \/ StopJoins \/ StopRing \/ StopClosed

Next ==
  \/ Publish \/ Prefetch \/ Reading \/ Probing \/ FetcherRuns \/ Decoding \/ Seeking
  \/ AsksSeek \/ Stopping
  \/ \E t \in Threads : Steps(t)

Spec == Init /\ [][Next]_vars

\* Threads run, and time passes: a wait that keeps coming back is given up in
\* the end.  Nobody has to stop or seek.
FairSpec ==
  /\ Spec
  /\ WF_vars(Publish) /\ WF_vars(Prefetch)
  /\ WF_vars(ReaderStep) /\ WF_vars(FetcherStep) /\ WF_vars(StopStep)
  /\ SF_vars(GivesUp("reader"))

-----------------------------------------------------------------------------

Seqs == 0 .. Last
Gens == Nat
ItemOK(i) == i.seg \in Seqs \cup {NoSeg} /\ i.gen \in Gens
Stages ==
  {"off", "ensure", "serve", "fetch", "refresh", "parse", "wait", "got", "ended", "unprefetch",
   "variant", "detach", "detaching", "start", "failed", "loop", "over", "pop", "next", "none",
   "item", "halt", "join", "move"}

\* Types, and how much the ring holds: at most SegRing segments, within the
\* budget unless it is a single one.
SegmentsTypeOK ==
  /\ kind \in Kinds
  /\ srv.first \in 0 .. srv.last /\ srv.last \in 0 .. Last /\ srv.over \in BOOLEAN
  /\ hls.seq \in Nat /\ hls.count \in 0 .. Last + 1 /\ hls.idx \in 0 .. hls.count
  /\ hls.live \in BOOLEAN /\ hls.url \in BOOLEAN /\ hls.reset \in Gens
  /\ src.init \in BOOLEAN /\ src.streak \in 0 .. 2
  /\ src.mem.seg \in Seqs \cup {NoSeg, InitSeg} /\ src.http.seg \in Seqs \cup {NoSeg, InitSeg}
  /\ pref.at \in {"off", "top", "fetch"} /\ Cardinality(pref.ready) <= PrefSlots
  /\ aborted \in BOOLEAN /\ phase \in {"probing", "playing"}
  /\ \A t \in Threads : th[t].at \in Stages /\ ItemOK(th[t].item)
  /\ Len(sr.items) <= SegRing /\ \A i \in DOMAIN sr.items : ItemOK(sr.items[i])
  /\ Len(sr.items) > 1 => Bytes(sr.items) <= Budget
  /\ seek \in -1 .. Last + 1
  /\ stopper \in {"none", "signal", "join", "ring", "close", "closed"}
  /\ ItemOK(seen.item) /\ seen.again \in BOOLEAN /\ ItemOK(goal)

\* What is downloaded is what its place in the playlist names: the buffer and
\* the connection hold the segment at g_segIdx, a prefetch slot the one at its
\* index.  A list that was replaced leaves nothing of the old one.
NothingIsMisnamed ==
  /\ src.mem.seg >= 0 => src.mem.seg = Holds(hls.idx)
  /\ src.http.seg >= 0 /\ ~External => src.http.seg = Holds(hls.idx)
  /\ \A slot \in pref.ready : slot.holds = Holds(slot.index)

\* aseg's abort is sticky: whoever raised it to stop a fetcher lowers it before
\* anybody fetches again, except when the stream is closed.
AbortIsLifted ==
  aborted => \/ Stopped
             \/ th.reader.at \in {"variant", "detaching", "join", "move"}

\* The decoder is given one segment after the other.  It never goes back, and
\* leaves none out, without a new generation, which is what makes it start over;
\* the segment in hand is dropped for a seek, though, and the seek may be refused.
InOrder ==
  [][seen' \notin {seen, NoneSeen} /\ seen # NoneSeen =>
       \/ seen'.item.gen > seen.item.gen
       \/ seen'.item.seg = seen.item.seg + 1
       \/ (~External \/ used.seeks > 0) /\ seen'.item.seg > seen.item.seg]_vars

\* What is decoded first after a seek is what the seek moved to, and nothing
\* that had been fetched for the old position; or the window moved past it.  A
\* segment dropped for a newer seek is not decoded, whatever becomes of that seek.
SeekLandsThere ==
  [][seen' \notin {seen, NoneSeen} /\ goal # NoItem =>
       \/ seen'.item.seg = goal.seg
       \/ seen'.item.seg > goal.seg /\ seen'.item.gen > goal.gen]_vars

\* What the decoder gets is in order, from the start and from wherever it is sent.
PlaysInOrder == InOrder /\ SeekLandsThere

\* Everything listed is handed to the decoder, whoever waits for whom: the ring
\* full or empty, the window at its end, a fetch aborted, a list lost and parsed
\* again.  Not when a variant's answer lost the playlist's address, and not when
\* a seek fell into the moment without a list.
PlayedOut ==
  \/ Stopped \/ play.eof \/ play.restart \/ At("reader", "failed")
  \/ External /\ AtEof /\ sr.items = <<>> /\ th.fetcher.at # "item"
  \/ ~hls.url \/ used.seeks > 0

\* player_ff.c says `VOD finished: let the render path end playback'.  The
\* decode thread waits in seg_ring_pop for a segment that never comes.
FilmEnds == <>(play.eof \/ Stopped \/ seek >= 0 \/ At("reader", "failed"))
=============================================================================
