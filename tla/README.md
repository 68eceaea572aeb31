# PS4 Cast in TLA+

PS4 Cast turns a console into a receiver: a phone, a browser page or a control point posts a
URL to the HTTP server on the console, and the application opens it, decodes it and shows it.
This directory holds TLA+ models of the parts whose correctness depends on the order in which
threads, callbacks and network events happen, TLC configurations that check them, and TLAPS
proofs. Source paths below are under `src/app/src/` unless they say otherwise. `PROJECT.json`
maps every definition to the lines it stands for.

## 1. The system

The program is one C process. Its threads:

| thread | code | does |
|---|---|---|
| main | `main.c` | one pass per video frame: pad, mailbox, end of stream, reconnect, drawing |
| opener worker | `player_ff.c` `opener_main` | carries out play and stop requests one at a time |
| decode | `player_ff.c` `decode_thread_main` | demuxes, decodes, queues pictures, writes sound, seeks |
| audio | `audio.c` `audio_main` | hands sound to the device in real time; its position is the clock |
| reader | `httpsrc.c` `reader_main` | downloads one file into a ring |
| segment fetch | `player_ff.c` `seg_fetch_thread_main` | fetches HLS segments ahead of the decoder |
| prefetch (video, audio) | `hls.c` `prefetch_main`, `apref_main` | downloads segments of the playlist |
| HTTP server | `httpd.c` `server_main` | commands, status, page; one connection at a time |
| upload, playlist, events, SSDP, guide, logo, watchdog | several | jobs beside the player |

They share global variables; some are guarded by mutexes, many are `volatile` flags read and
written without one. What is hard is listed in `PROJECT.json` under `hazards`, each at its line.

### Components

*Open request queue* (`openq.c`). State: the newest request (`pending`, `havePending`), the one
executing (`runSeq`), the last result. Operations: submit, take, finish, poll. Correct when only
the newest request counts, its result is reported once, and numbers survive their wrap.

*Player opener* (`player_ff.c`, `open_submit` to `player_shutdown`). State: the queue, its
lock-free mirrors (`g_opBusy`, `g_opLatest`, ...), the abort window and abort flags of the two
byte sources, the pipeline guard `g_pipeMtx`, what is armed on the stream (seek, restart, pause).
Main submits, the worker executes, HTTP threads seek, pause, switch tracks and interrupt, the
decode thread of the current stream runs along. Correct when nobody touches a pipeline that is
being taken down or set up, the newest request is what ends up on the screen, a superseded open
is cut short and leaves no trace, aborts never hit the wrong stage, shutdown ends.

*HTTP byte source* (`httpsrc.c`). State: ring, window, offsets, reader flags, connection, idle
kept connection. The reader appends, the decode thread reads and seeks, others abort; `close`
joins the reader. Correct when a read returns the bytes of its offset and always returns.

*Receiver* (`main.c`, `httpd.c`, `httpd_channels.c`). State: the mailbox of posted commands, the
play queue, the title last cast, the current channel, saved positions, the reconnect driver,
AVTransport. Handlers post, main takes one thing of each kind per frame. Correct when what the
viewer asked last happens, a stop is final, positions belong to their titles, reconnects end.

*Playback pipeline* (`player_ff.c` decode and render, `audio.c`). State: the packets to come, the
picture queue, the audio ring and its clock, the startup gate, the cache-pause, the seek
request, pause. Correct when a stream plays to its end, a seek is carried out whatever the
threads wait for, and nothing of the old position is shown at the new one. `audio.c` keeps the
device across casts: its output thread plays the ring grain by grain, with silence where sound is
missing, and turns what the device has played into the clock of the pictures. Correct when the clock
names the sound that is heard and no sound is lost, repeated, or left over from before a seek.

*HLS segment pipeline* (`hls.c`, the segment ring of `player_ff.c`). State: playlist window,
segment index, prefetch slots, pending change of variant, reset generation, the segment in memory
or open, the ring of segments fetched ahead. The opener's demuxer probes through `hls_read`; then
either the decode thread goes on with it (fragmented MP4), or a fetch thread runs
`hls_next_segment` into the ring (transport stream). A prefetch worker serves `hls_read`. Correct
when segments reach the decoder in order, none of an older playlist or position, jumps are
announced by a generation, an abort raised to stop a thread is lifted, and threads end with their
stream. A rendition of sound with a playlist of its own has its own index, slots and worker
(`apref_main`), read by a thread of its own and stopped by others; the same holds for it.

*Fetcher* (`aseg.c`, `native_http.c`). State per channel: the sticky abort flag and its count, the
socket, what was kept of it for the next fetch, the slot in the console's own HTTP client; shared:
the host that only that client can reach, the headers of the page. Fetches come from the opener, the
prefetch and segment threads and the services; aborts and resumes come from any thread. Correct when
a response belongs to its request, an abort reaches the fetch it is meant for and no other, and a
connection it cut carries nothing later.

*Playlist parser* (`hls_parse.c`). State: the locals of one pass over the lines. Correct when each
segment gets the key, sub-range and discontinuity that the tags before it say.

*Page resolver, list and guide parsers, TLS, inflate* (`resolve.c`, `urlopt.c`, `m3u.c`, `xmltv.c`,
`tls.c`, `inflate.c`). Functions over text and bytes, and blocking calls. Correct when the parse is
that of the format; what they return is nondeterministic in the models.

*HTTP server jobs and events* (`httpd.c`). State: the hand-off of a socket, a claim and a worker per
kind of job, a temporary file, the film and its name; the table of event subscriptions, its dirty
flag, the event thread's copy. Correct when every socket is closed once, every claim given back, the
film is whole and has its own name, and every subscriber hears the last state under consecutive numbers.

*Channel store* (`httpd_channels.c`). State: the list, the groups and the filtered rows built from
it, the current channel as an index, the file. Pad, HTTP thread and list worker change it. Correct
when rows, mark and file follow the list.

*Programme guide* (`epg.c`). State: the link, the guide in memory, the copy on disk with its meta
file, three clocks. Correct when the guide shown is that of the link, and comes in the end.

*Subtitles* (`subtitle.c`). State: the choice, cues, the fetcher's order with its generation, what
the decode thread routes. Correct when cues are those of the chosen track of the current source.

*Network watch and discovery* (`netwatch.c`, `netmon.c`, `ssdp.c`). State: the confirmed address and
its candidate, what has been published, what discovery announces. Correct when no change is premature,
none forgotten, and screen and announcements end up with the address the console has.

*Picture output* (`gfx.c`, the decode and present half of `player_ff.c`, drawing in `main.c`).
State: the reorder buffer; three surfaces, a tag for what each is believed to show, flips under way, the
frame being composed, the picture held, the bars, a pool of workers. Correct when pictures leave in the order
of their stamps, each surface holds what its tag says, and none is drawn into while it is shown.

*The rest*: watchdog (it compares durations and kills the process), hardware decoder, console
services, trust anchors and image decoder, payload agents, browser extension, scripts and tests.
`PROJECT.json` gives each one's files, status and reason.

### How they interact

```
 HTTP threads --post--> mailbox --take--> main --submit--> OpenQueue --take--> opener worker
      |                                    |  ^                                  | opens/closes
      +--- guarded seek/pause/interrupt ---|--|--------------> pipeline <--------+
                                           |  +--- g_active, g_started ---+      |
                               render <----+                              |      |
                                  ^   picture queue   decode <--- httpsrc ring <-- reader
                                  +------------------- thread ---> audio ring --> audio thread
```

## 2. Modules

| module | models | composes |
|---|---|---|
| `LatestWins` | what a player promises: only the newest request counts (abstract) | |
| `OpenQueue` | `openq.c` | implements `LatestWins` |
| `Opener` | the opener of `player_ff.c`, abort flags of `httpsrc.c`, `aseg.c` | extends `OpenQueue`, implements `LatestWins` |
| `HttpRing` | `httpsrc.c` | |
| `Receiver` | `main.c`, `httpd.c`, AVTransport | its player is `LatestWins` |
| `Playback` | decode thread, picture queue, render, audio | |
| `Sound` | `audio.c` whole, what the decode thread does to it | |
| `Rendition` | the audio rendition of `hls.c`, its reader and its stops in `player_ff.c` | |
| `Segments` | `hls.c`, segment ring, fetch thread and HLS seek of `player_ff.c` | |
| `Streams` | the segment pipeline, its rendition and the audio device, one at a time | extends `Segments`, `Rendition`, `Sound` |
| `Fetcher` | a channel of `aseg.c` with its slot of `native_http.c` | |
| `Playlists` | `hlspl_parse_media` | |
| `Reorder` | the reorder buffer of the hardware path | |
| `Screen` | `gfx.c`, presenting, drawing of the main loop, present pool | |
| `Ends` | `Fetcher`, `Playlists`, `Reorder`, `Screen`, one at a time | extends them |
| `Jobs` | upload and list workers | |
| `Events` | UPnP event subscriptions | |
| `Subtitles` | `subtitle.c` | |
| `Reachability` | `netwatch.c`, `netmon.c`, `ssdp.c` | |
| `GuideLoad` | `epg.c` | |
| `Channels` | `httpd_channels.c`, the pad's use of it | |
| `Services` | the six modules before it and the queue across its wrap, one at a time | extends them, instantiates `OpenQueue` |
| `OpenerProofs`, `HttpRingProofs`, `ReceiverProofs`, `PlaybackProofs`, `SegmentsProofs` | theorems about the module they are named after; `OpenerProofs` those about `OpenQueue` too | |
| `AudioProofs` | theorems about `Sound` and `Rendition` | |
| `EndsProofs` | theorems about `Fetcher`, `Playlists`, `Screen` and `Reorder` | |
| `ServicesProofs` | theorems about `Jobs`, `Subtitles`, `Channels`, `Reachability`, `Events` and `GuideLoad` | |

`Streams`, `Ends` and `Services` put modules that share no state into one run: a variable that never changes
says which of them runs, the others stay as they start. They add no behaviour.

The layers fit by refinement: `Opener` is shown to implement `LatestWins`, and `Receiver` runs on
top of `LatestWins` instead of the opener, with a few facts more about the stream (started,
active, a frame on the screen).

### OpenQueue

`q` is `OpenQueue` of `openq.h`, `job` what the worker took. One action per function. `SeqMod`
stands for 2^32; a submit is possible as long as no number in use would come again
(`SeqFresh`: the code would need four billion submits during one open). `LatestWins` has no
numbers: `stale` says that an older request is still executing. The refinement mapping reads
`kind`, `phase` and `outcome` off `pending`, `runSeq` and `done`.

### Opener

A stream is named by the request that opened it, so that "armed for the stream the caller saw"
can be said. `stage` is where the executing thread is: `begin`, the teardown (`stopDecode`,
`signalDecode`, `joinDecode`, closing), `prepare`, resolving a page (`page*`), opening the source
(`source`, `connect`, ...), probing (`probe*`), `last`, `done`. Each abort window
(`open_window`) is a stage of its own, because the submit decides on the window it sees. `net`
holds the window, the two abort flags and whether httpsrc's mutex exists. `main` walks
`open_submit` step by step: queue under the lock, publish the mirrors, abort the running stage,
wake the worker. `call[t]` is a guarded call of thread t: try-lock, look at `g_opBusy`, act,
signal, unlock. `httpsrc_abort` is two steps since it looks at `g_threadUp` and then signals.

Abstractions. Without a decode thread (thread creation failed) the code decodes in the render
call; that fallback is left out, as is the "no-frames" error of rendering. Headstart, options and
resume position are part of what a request asks for (`Specs`). `player_stop` before any request
has no worker and is not a request. The verdicts of page resolver, connect and probe are
nondeterministic. Pausing when no stream is up is recorded as pausing stream 0. `httpsrc_open`'s connect is not
promised to be cut at once (the code polls its abort only between connects).

### HttpRing

A byte is named by its file offset: `ring` maps slots to offsets. The reader is a loop of stages
(`top`, `blocked`, `receiving`, ...), the consumer one read at a time (`want`, `served`).
`Appended` and `Drop` are `ring_append` and `ring_evict_locked`. A stage ends where the code
unlocks. `Receive` and `Store` are two actions, because the code receives without the lock and
a seek may come in between. Locals are reset when they go out of scope.

Abstractions. `httpsrc_open` is one step; what an abort does to it is in `Opener`. Waits end by
signal or by their limit; the 200 ms ticks in between and spurious wakeups change nothing.
`BadReplies` says whether a server may answer a range request with another body: FALSE in
the runs and an assumption of the theorems. A finding (section 5) tells what happens otherwise.

### Playback

Time is counted in pictures: unit t holds picture t and the sound that goes with it, and the
sound track may be shorter than the picture track. `dec` walks the decode loop, `apply_seek`
statement by statement where a flag is set that another thread reads; `draw` walks
`render_threaded` the same way; `user` is an HTTP thread between the two halves of
`player_pause`. Every picture carries the number of the seek it was decoded after (`epoch`,
a history variable).

Abstractions. A grain of sound is a picture long and the accounting of `audio_main` atomic; grains of many
frames, the padding debt and the steps of the accounting are in `Sound`. The clock saturates one past the
end. Two reads of flags with nothing in between are one step (the check at the top of `render_threaded`
with what it leads to). The wait for a full sound ring lasts a second at most; it is modelled as
outlasting what is too much unless the ring is held. The debounce of seeks only delays them. The byte rate
is known. The reorder buffer and the way from the queue to a surface are in `Reorder` and `Screen`;
hardware failover and the staging of fMP4 are not modelled. Stop and the next open are in `Opener`; here a
stream ends by itself (`over`).

### Sound

Time is counted in frames of sound. A frame in the ring carries its time stamp and the timeline it is
from; a flush, an open and a close begin another. `speaker` walks `audio_main`: take a grain under the
lock, let the device play it, then, without the lock, the debt or the repayment, `g_base`, `g_padDebt` and
`g_hwOut` one after the other. `dec` is the thread that decodes sound, which also seeks; `trail` is
history: what was forgiven beyond the cap, what the debt was when the clock was anchored, the holds (each
may cost a grain of accuracy, as `g_paused` is read once before and once after the device plays), and
whether a flush met an update under way.

Abstractions. The read-modify-write of `g_padDebt` and of `g_hwOut` is one step each. The wait of the
decode thread for room in the ring ends after a second, which plays as much as is decoded then, unless
the sound is held. `Guarded = FALSE` is the thread of a separate rendition, which has no such wait. The
failure to open the device, which leaves all as it was, and the debug counters are left out.

### Rendition

`apref` is the worker with its flags and its mutex, `rd` the reader: the opener while it probes, then the
audio thread; `sp` the thread that stops the worker, with what for: a seek before the demuxer is opened,
an interruption by an HTTP thread, a teardown, `hls_close`. Two of them never meet: the pipeline guard
is in `Opener`. A piece of sound carries its segment and the timeline (open or seek) it was fetched for.
A critical section is one step; what the code reads before it locks, or writes after it unlocks, is
another: `g_aprefUp` before each lock, `g_asegIdx` after a take.

Abstractions. A segment is read in one go. The time stamps of the playlist, which say where a seek goes
in it, are data: a seek goes anywhere. A fetch fails, or a wait of 8 s is too short for it, `MaxFails`
times; a wait for what nobody fetches always runs out. A rendition that cannot be opened for playing
stays with its worker until the teardown, with nobody to read: less than what is modelled.

### Segments

A segment is named by its media sequence number on the server (`srv` is the server's window), an
index is its place in the playlist parsed last, `hls.seq + hls.idx` the segment to play next. A
prefetch slot, the buffer and the open connection record which segment they hold *and* at which
index, so that a mix-up of two lists can be said. `th` holds, for the thread that reads
(`reader`: the opener while it probes, then the decode thread) and for the fetch thread, where it
is in `hls_read`, `hls_next_segment`, `refresh_live_playlist` or the ring, and its locals. A refresh is two steps:
the list is freed, and parsed again; other threads see the empty list in between. Stopping the
worker or the fetch thread is two steps as in the code: flag and abort, then the join. `seen` and
`goal` are history: the last segment decoded with its generation, and where the last seek moved to. A
segment in hand that is dropped for a newer seek ends `goal`: that seek may be refused, and the decoder
then goes on behind the segment it has dropped (see findings).

Abstractions. Time is left out: at any pause of a retry loop the 20 s may be over (`GivesUp`).
A segment is read at once and drained at once. A segment counts 1 byte or more than the
whole budget. What asks for another variant (a rebuffer, three fast downloads) is nondeterministic
and bounded by `MaxShifts`; what goes wrong outside (`fetch`: a download, `body`: a playlist that is
none, `edge`: one that is a segment behind) by `MaxFaults`. A position to seek to is counted in
segments from the start of the window. `hls_open` is the initial state; a reopen may have moved on
(`hls_seek_clamped`). The prefetch worker is up for films only, as in `prefetch_start`. Left out:
the separate audio rendition (in `Rendition`), keys and byte ranges (they change which way a segment is
fetched, and both ways are there), subtitles, the fetch thread's rest while the viewer
pauses, and the lifetimes of the ring's mutex (a teardown may lock it while a seek of the decode
thread destroys it, `player_ff.c:467-471` against `2753-2755`).

### Receiver

`m` is the main loop: stage of the frame and locals; `http` says between which two critical
sections of which handler the server is. The order of stages is the order of the code: resume
bookkeeping, outcome of the last open, pad, stop, play, cast, end of stream, reconnect, picture.
A saved position is named by the video it was measured on.

Abstractions. Torn reads of the `g_last_push` strings are not modelled. Time is only whether the
reconnect is due. Several buttons in one frame are buttons in consecutive frames. What an
interrupt does is in `Opener`. A film is longer than the 30 s below which no position is kept.
Recents, favourites, settings, the home screen, volume and the HUD are left out. A seek that
revives a stream after its end is in `Playback`. `DlnaResume` (Play for a URI already
started: it only unpauses) changes nothing that is modelled. `sent` bounds the commands.

### Fetcher

`f` is the fetch that holds the channel's lock and where it is: the flag is read, a hop begins, a
connection is chosen, kept or new, the request goes out, header and body come, the connection is kept
or dropped; or the console's client is asked (`native`, `waiting`). `k[a]` is where controller `a`
is in `abort_ch` or `resume_ch`, each access to a shared variable a step. A connection remembers whether an
abort has cut it, and whether that abort was meant for the fetch that used it.

Abstractions. What is on the wire is whether bytes of an answer are left unread; chunks, trailers,
compression and TLS records are below that. Budgets in seconds are left out: a fetch may fail at any
stage. The other channels appear as what they may do to the pinned host and the header policy.

### Playlists

One action per kind of line, with the locals of the parser as `parser`. `KeyOf`, `OffsetOf` and
`IsSegment` are the reference: they say of the whole playlist read so far what a line's key and sub-range
are, by what lies between which lines and without a state, and `PlaylistIsRead` compares. How a segment
after EXT-X-DISCONTINUITY-SEQUENCE is flagged is left open (a finding). The offset of a
sub-range counts the parts since the last one that gave an offset or began another resource; the code adds
up from one part to the next. Sub-ranges are all of one length; URLs are compared as they are written;
the media sequence number (from which the parser takes the default IV), durations, `isLive`, the master playlist, ranges of EXT-X-MAP and malformed tags are left out.
`DiscLines` has both tags that the code's search matches (see findings).

### Reorder

`ro` is the set of pictures held back, with the number in which they were coded; `window` is
`g_hwReorder`. What was handed on and lost is kept since the last flush, so that the property can
relate it to the order of coding. The render queue that `fq_push` fills is in `Playback`.

### Screen

Pictures are numbered and known by the memory of their frame (`heap`), which is given out again once
freed, because `g_nvTag` compares addresses. `content` is what a surface really holds, band by band, with
what lies over it and the state of its bars; `tag` what `gfx.c` believes. The code numbers its video
tags and never uses a number again; `NewTag` gives one that no surface carries (`as`), which is all
that a comparison can tell, and keeps the states finite. `bars` is what each path remembers of its last
picture and how many surfaces it still has to clear; `bars.skew` is set when the hardware path paints wide
while the software path remembers a narrow picture, of which that path never learns. `frame` walks the main loop from
composing over `q_commit`, painting, the pool's bands and overlays to the flip and the wait for
a surface. The decode thread, the opener, the video output and the workers take steps in between.

Abstractions. A picture fills the screen or leaves bars. Overlays are one HUD and one panel.
Bounds named at their actions: an overlay is drawn only when no bar clear is owed, the size
changes between two pictures and not in the first `Steady` sources (0 for every source; in the run the first of
two, which may still begin with another size and another way of decoding than the second), the panel comes over a surface without an overlay. Present waits count
vsyncs, not time.

### Jobs, Events, Subtitles, Reachability, GuideLoad, Channels

`Jobs`: sockets, the hand-off from `server_main` to a worker, claims, the upload's part file, film and
name, casts of the film; the process may die at any step and start again with its files. `Events`: the
table with purge, renewal and re-use of places, the dirty flag, the copy and the sending, one subscriber
at a time, each delivery lost or not. `Subtitles`: generations of orders, downloads that come
back late, the decode thread's route and a cue on its way. `Reachability`: polls of the address, the
publication in two steps, discovery's hand-over, the screen. `GuideLoad`: the guide thread
with failures and crashes between its file operations; ages are counted in units of `EPG_RETRY`.
`Channels`: the list with groups, filter and current index, saves in three steps per thread (copy under
the lock, truncate, write), each of which may fail and the last be short, the pad's three separate lookups.

Abstractions. The bytes of an upload, of events, cues and guides are named by whose they are. Timeouts
fire at any time. Of two embedded tracks a cue may come late (see findings). The list keeps
favourites and groups of its channels, not names and logos.

## 3. What the runs check

| run | instance | question | states |
|---|---|---|---|
| `opener` | local, plain HTTP and HLS; 2 requests and the stop of a shutdown; main, worker, one HTTP thread | exclusivity, latest wins, cuts and stray aborts, arming, shutdown | 1.4 M |
| `opener_live` | plain HTTP, same threads, fair | busy settles, shutdown ends | 0.2 M |
| `http_ring` | window 3, chunk 2, file 4, reads up to 2, one reconnect, fair | right bytes, stalls, kept connections; reads return, close ends | 0.4 M |
| `receiver` | a URL, a live channel, the uploaded file; all commands, two of them; one reconnect attempt | stop is final, what is reconnected, positions | 3.2 M |
| `receiver_live` | a live channel; tune, stop, quit; two attempts; signed in and out; fair | reconnects end, commands are taken | 0.1 M |
| `receiver_drop` | a live channel, no commands, fair | finding: a dropped channel is never reopened | |
| `playback` | 3 pictures, sound for 2, queue of 2, remote and gated, a seek and a pause, fair | fresh queue, seeks, plays to the end | 0.7 M |
| `streams` | `Segments`: 4 segments, window of 2, ring of 2, one of them larger than the budget, one discontinuity; films and live, both containers; one failing fetch, one change of variant, one seek, a stop. `Rendition`: 3 segments, with or without an init segment, 2 slots, 2 tries, two timelines, a fault. `Sound`: ring of 3, grains of 2, packets of up to 2; 4 frames, 3 grains and a hold in a timeline, two timelines | names, order, seeks, lifted aborts; order of the rendition, nothing outlives; clock, whole sound | 2.0 M |
| `streams_live` | 2 segments, window of 1, ring of 1, a bad or stale playlist, a seek, a stop; the rendition with 2 segments; fair | everything listed is handed over, every stop ends | 0.3 M |
| `segments_end` | a film of 3 segments, no faults, fair | finding: the film never ends | |
| `ends` | two aborting controllers, two hosts, one over TLS, 2 aborts, 2 hops; playlists of 5 lines and 3 segments; a window of up to 3 and 5 pictures; two workers, two pictures, two opens | `Fetcher`, `Playlists`, `Reorder`, `Screen` | 2.1 M |
| `services` | 3 connections and a crash; 2 places for 3 subscribers; 2 tracks' sources; 2 addresses; a guide with a failure and a crash; 2 channels, a group, 3 edits; a queue numbered mod 6 | `Jobs`, `Events`, `Subtitles`, `Reachability`, `GuideLoad`, `Channels`, the queue across its wrap | 0.6 M |

The properties of `streams`: `NothingIsMisnamed` (what is in memory is the segment its place names),
`AbortIsLifted`, `PlaysInOrder` (the decoder gets ascending segments but for a new generation, and a seek
lands where it was told), `RenditionIsSound` (the same of the rendition, whose worker, slots and waits end
with their timeline), `OutputIsSound` (no gap, repetition or rest in what the device plays, and nobody
sleeps through its end), `ClockIsHeard`: the clock is at most one grain ahead of the sound that is heard, and
behind it by no more than what it has forgiven beyond the cap and a grain for each hold. The properties of
`ends` and `services`: `BodyIsOwn`, `AbortReachesNative`, `AbortedNeverReused`
(a response belongs to its request, an abort arrives, what it cut is not used again); `PlaylistIsRead`
(place, key, sub-range and discontinuity of each segment are those the tags give it); `PicturesInOrder`
(what leaves the reorder buffer ascends, and only pictures displaced by more than the window are lost);
`PicturesAreTrue`, `NoTearing` (a surface holds what its tag says and is not drawn into while shown);
`JobsAreSound` (sockets, claims, film and name), `SubscribersAreInformed`, `SubtitlesAreRight`,
`ReceiverIsFound`, `GuideArrives`, `ChannelsAreSound` (screen and file are of the list as it is, and the mark
is at a channel of the list, the one that was tuned), `LatestWinsAcrossTheWrap`.

Every property of a passing run has a mutant in `PROJECT.json`: a change of one mapped
definition, of the kind a slip in that code would be, which makes TLC find the property violated.
Mutated definitions stand beside the original, marked `Mutant`.

### Why the bounds are enough

*Opener.* Two requests and a shutdown's stop give: superseding before the worker takes a request, during
each of its stages, during a stop, and after it; and shutting down in each. A third play request meets the
same states as the second, since only `latest` and `run` are compared. One HTTP thread suffices because
the guard is try-locked: a second one only fails. *HttpRing.* A window of a chunk and a half with one byte
kept behind lets every rule of eviction apply, chunks wrap around its end, the file is longer than the
window, and one reconnect in a row shows success and giving up. *Receiver.* Two commands in any order,
each taken at any stage, with a queue of one (full at once) and one attempt. A hazard of three commands is
out of reach of this instance. *Playback.* Three pictures against two slots fill the queue; the sound is
shorter than the film; the start cushion, low and high marks differ. `EmptyFrames` is 1 instead of 4: an
empty queue is judged starved sooner. *Streams.* For the sound a ring of three with grains of two runs
empty within a grain, and wraps; a debt of one grain and of two lies below and above the cap; the second
timeline meets the first at each step of a grain. For the rendition two slots of three: the index moves
past both, and one fault leaves each of them in any state. For the segments a window of two slides over
four, so that the segment to play next can fall off it, twice; the ring fills in slots and in bytes before all
is played; one slot more than the worker has in flight. A change of variant, a seek and a failure meet in
every order. `streams_live` is smaller since its property is temporal: a window of one moves at every
step, and the only segment larger than the budget has to pass a ring of one. Defects that need two
failures or two seeks are beyond both.

*Ends.* Two controllers and two aborts: one is late, stale or lifted by the other; two fetches follow
each other on one kept connection, and a redirect changes host and transport. Five lines hold each
pair of tags before, between and after segments. Five pictures pass a window that is filled, widened
and drained. With three surfaces in the code, two pictures and two opens re-use each surface and each
frame's memory; the size changes from one source to the next, and in the middle of the second. *Services.* Three connections meet a busy worker and a free one, a crash leaves each
intermediate file. Three subscribers for two places re-use a place. Two sources suffice for an answer
that is late. Three changes of address are: away, back, elsewhere. `SeqMod = 6` makes the queue's
number wrap within five submits.

### Fairness

Threads of the C program run when they can: weak fairness of each thread's step. A mutex that is
released again and again may be missed by a waiting thread under weak fairness, so the worker's
lock and a few choices that a network makes (a read ends, a source does not answer every
opening with a restart) have strong fairness; each is named at `FairSpec`. Nobody has to press a
button: commands carry no fairness. In `Playback` one condition stands for the audio thread, the
download and the passing of time together: between two commands each of them can change
something only finitely often, so one condition forces all of them to their end.

In `Segments` every thread is weakly fair, the server publishes and the threads of a stop go on;
`GivesUp` of the reader has strong fairness: the deadline of 20 s that the code measures from the first
retry passes in the end. Nobody has to seek or stop.

In `Rendition` worker, reader and stopping thread are weakly fair; a fetch ends, well or badly, and every
wait has a timeout. `StreamsFair` joins these with the conditions of `Segments`: since one module runs at a time,
a condition on a disjunction is the condition on the module that runs. `Sound` has safety properties only
(`NobodyOversleeps`, a part of `OutputIsSound`, says that the join finds a thread awake).

In `Services` the threads that poll (events, address, discovery, guide), the main loop's drawing and
the guide's clock are weakly fair: each is a loop that sleeps a bounded time. Changes
of address, edits, connections, failures and crashes have none, and are bounded.

## 4. What is proved

TLAPS checks, for every value of the constants that satisfies their named assumptions:

* `QueueTypeCorrect`, `QueueInvariant`, `ReportsNewest`, `QueueRefinement` (`OpenerProofs`).
  `QueueInv` is inductive with the types: what is pending is newest, what runs was taken as
  newest, idle means settled, a result kept for polling is that of the newest request.
  `SeqFresh` in the guard of `Submit` is what keeps a wrapped number from meeting an old one.
  `QueueRefinement` shows that the initial state maps to the initial state and that each action
  maps to an action of `LatestWins` or to a stutter; the invariant is used in each step.
* `OpenerInvariant` and eight theorems from it: every invariant of the run `opener`, its
  action property, and `OpenerImplementsLatestWins`. Assumed are distinct threads, known kinds of
  sources, and fewer requests than there are numbers (`BoundAssumption`: the wrap is the queue's own theorem).
  `OpenerInv` has three parts. `ControlInv`: which thread can be where, who holds the guard and `g_opMtx`,
  how far the lock-free mirror may be behind the queue. `StreamInv`: nothing is armed on a pipeline
  being built (`ArmedInv`), what is up is what was asked for last or a newer request waits (`SettledInv`), which
  failure `/status` can show. `NetInv`: which window is open at which stage (`WindowInv`), an abort is down
  where a fetch could meet it unless the open is superseded (`AbortInv`). None of the properties is
  inductive alone: that an abort misses nothing needs the window, the window needs the lock, the lock
  the stages of the threads. The refinement goes by `QueueRefinement`: a step of the opener is a step of
  the queue or none.
* `RingInvariant`, `ReadsAreRight`, `KeepAliveIsClean`, `StallsAreRare` (`HttpRingProofs`), under
  `BadReplies = FALSE`. The strengthening `IInv` says: every kept slot holds the byte of its
  offset (`RingHolds`), a chunk received belongs where the reader will store it or will be
  thrown away (`ChunkHolds`), the connection is at the reader's offset (`ConnInv`), a closed source is
  at rest (`DownInv`), and a waiting reader or consumer waits for a reason (`WaitInv`). `ServedRight` alone
  is not inductive: a read copies from the ring, so the ring must be right; the ring is filled
  from the chunk, so the chunk must be; the chunk comes from the connection. There is one lemma per
  action, and lemmas about eviction and slot arithmetic.
* `NamesInvariant` (`SegmentsProofs`), for every number of segments, window, ring, budget and fault: `StreamInv`
  is the ranges of the fields (`FieldsInv`), which stages a thread can be in with which container
  (`StageInv`), who may hold what at each stage (`OwnerInv`), and the property itself, `NothingIsMisnamed`. The
  property is not inductive alone: a refresh gives every index another meaning, and only the owner's
  stage says that nothing of the old list is held then. `AbortInvariant` assumes in addition that
  every fetched playlist is one (`"body"` is not among the faults): `SeekInv` says that a seek then never
  finds the list lost, the one way to return without lifting the abort.
* `StreamInOrder` (`SegmentsProofs`), `PlaysInOrder` for every stream, window, ring, number of seeks, failed
  fetches and changes of variant. `OrderInv` follows what is on its way, from the decoder's hand through the
  ring and the fetch thread's hand to the segment to be fetched next (`AfterSeen`, `AfterReader`,
  `AfterRing`, `Future`), and says that each leads to the next (`WayInv`), that nothing is numbered beyond the
  server's window (`EdgeInv`) or of a generation still to come (`GenInv`), who may have the ring at which
  stage (`RingInv`), what `hls_read` may still have open (`ReadInv`), and that the first on its way after a
  seek is what the seek moved to (`GoalInv`). The theorem assumes `Faults \subseteq {"fetch"}`: with a list
  that lags or is none the code does go back (a finding, `hls.c:1302`), and the property says
  so for the whole run. The proof found what the bounds of the run hide: with two seeks, a first segment
  dropped for the second, which is then refused, made `SeekLandsThere` fail in its earlier form, where the
  goal stayed. TLC holds the property with two seeks as well (4.6 M states).
* `FetcherInvariant`, `RequestsAreClean`, `AbortsReachClient`, `AbortedIsDropped` (`EndsProofs`), for
  any number of controllers, hosts, hops and aborts. `FetcherInv` says: what the fetch carries is of its own
  request (`Carries`), a kept connection has nothing unread and was not cut (`KeptIsTrue`), a connection
  cut belongs to an abort that has been counted (`CutIsOld`), an abort that has seen the client's slot
  has reached it or will (`NativeIsReached`). Only kept *and* clean is inductive: the abort sets the flag
  first and cuts later, and the fetch looks at the flag between.

* `ParserInvariant`, `PlaylistsAreRead` (`EndsProofs`): `PlaylistIsRead` of every playlist, whatever its lines,
  URIs, keys and offsets (no sequence numbers: they are not modelled). `ParserInv` says of each local of the parser which lines it stands for: the key in
  effect (`KeyKnown`: also whether its group is still open and has offered a playable format), the pending
  sub-range (`RangeKnown`), the discontinuity (`DiscKnown`), the end of the last part (`PartsKnown`).
  What a line means does not change when another is read (`KeyStays`, `OffsetStays`, ...), and what the
  next line means follows from what is known (`KeyGrows`; `OffsetGrows` is the rule "continues right after the
  previous sub-range", derived from a reference that counts). The reference was a recursive
  function before, of which nothing can be proved here; it counts now.

* `JobsInvariant`, `JobsLeaveNothing` (`ServicesProofs`), for any number of connections and crashes. `JobsInv` says
  who holds each socket (`SocketInv`) and each claim (`ClaimInv`: a thread about to start a worker, or the
  worker, never two), when `server_main` may look at the hand-off (`ServerInv`), and what an upload has on
  the disk at each stage (`FilmInv`: what it renames is whole, what it names is its own film or deleted).

* `SubtitlesStayRight` (`ServicesProofs`), for any sources and any number of openings, choices and files.
  `SubtitlesInv` adds to the property that an order of the fetcher is for what is chosen or plays
  (`OrderInv`) and that what is fetched under the present generation was ordered (`GenerationInv`): a fetch
  that ends is believed only for its generation.

* `NothingTears` (`EndsProofs`), for any number of pool workers, pictures and openings. `ScreenInv`
  adds that a surface is at least as old as the flips after its own (`AgeInv`: what the wait for a newer
  flip looks at), that the target is free from the moment it is chosen (`TargetInv`), that the first
  frames take the surfaces in turn, as nothing has an age yet (`StartInv`), and that the pool is at work
  only while a frame waits for it, with every worker counted once (`PoolInv`).

* `PicturesShown` (`EndsProofs`): `PicturesAreTrue` for any number of workers, pictures, openings and
  changes of size. `PictureInv` is needed because the tags alone say nothing of what is to be painted next.
  `MemoryInv` and `NumberInv`: the picture that is due is the newest and lies in other memory than the one
  held, and every tag is of an older one, so a comparison of addresses never takes a new picture for an old
  one. `FrameInv`, `DrawnInv`: a frame asks for the picture the player holds, and the bands that the pool
  has finished are of it. `OwedInv`: a path that remembers a narrow picture still clears every surface on
  which a wide one lies; its counter outlasts the number of frames until that surface is the target again.
  `SeenInv`: a wide picture that is on a surface was seen by the path that painted it, so to show a surface
  again, without painting, never passes the counter by. TLC held this invariant on three pictures and two
  openings (16.6 M states) before it was proved. The surfaces `bars.skew` speaks of are `stray` (findings).

* `ReceiverInvariant`, `StopIsFinal`, `RetriesAreAsked`, `PositionsAreNamed` (`ReceiverProofs`), for any
  media, commands, users and limits. `RequestInv` ties what main wants to the newest request and to the
  stream that is up; `LoopInv` says that the reconnect driver is on only while main wants something, and off
  while the end of a stream is judged; `MailInv` that what is posted names something to play.
  `StoppedStaysStopped` is not inductive: a driver armed for an unwanted stream would violate it one frame
  later. `RetriesWhatWasAsked` is a part of the invariant: a driver is armed after two reads, and what the
  worker publishes between them decides for what. One lemma says that each step asks the player for something
  or leaves it be (`StepEffects`), another that either keeps `RequestInv`.

* `PlaybackInvariant`, `PlaybackTypes`, `QueueStaysFresh` (`PlaybackProofs`), for every film, sound, queue,
  ring, seek and pause. `QueueInv` says that what is queued is of this epoch, in the order of the film and
  before the picture in the hands of the decode thread, or before the next packet to be read (`Top`):
  without the last part the next push could come out of order. Between the flush of a seek and
  the moment the demuxer has moved there is no such bound, and the queue is empty.

* `SoundInvariant`, `SoundStaysWhole`, `ClockStaysRight` (`AudioProofs`), for every ring, grain, packet
  and any number of grains, holds and timelines, under `Guarded` (the decode thread waits for room: the
  thread of a separate rendition does not, a finding) and `SoundAssumption` (`DebtMax + Grain < Width`:
  the debt counter has room above its cap; in the code 24000 + 256 in 64 bits). `RingInv` names each frame
  in the ring, `GrainInv` the grain between the ring and what was heard, `DebtInv` bounds the debt. The
  clock is right only between grains; `ClockInv` therefore adds to its error (`Ahead`) what the accounting
  under way has still to add to it (`ToCome`), and the sum moves only when silence is played or a hold
  begins.

* `RenditionInvariant`, `RenditionStaysSound` (`AudioProofs`), for any number of segments, slots, tries,
  timelines and failures. `StopInv` says which stop can meet which stage of the stream, `WorkerInv` that the
  worker is gone before its slots are cleared, `SlotInv` that no two slots hold one segment and all are of
  this timeline, `OrderInv` that what the reader has in hand lies between what it gave last and the index.

* `ReorderInvariant`, `PicturesLeaveInOrder` (`EndsProofs`), for every film, buffer and window. A
  picture is lost when it arrives behind one handed on. The invariant says that more pictures than the window
  was told to wait for then have come before it: the last stamp handed on is led by a full window (`Led`),
  and what is behind it has been overtaken by those (`Overtaken`), so each loss, also one still to come,
  is counted against the widening of the window (`Losses`).

* `AddressInvariant`, `AddressIsDebounced` (`ServicesProofs`), for any addresses, thresholds and number of
  changes. `CountsAreTrue`: each counter of the watch is the length of the unbroken run of last
  observations (`RunOf`) it stands for, and the candidate's counter is reset by whatever breaks the run. That an
  address is published neither too early nor too late (`Debounced`, the safety half of `ReceiverIsFound`)
  follows only from both.

* `EventsInvariant`, `EventsGoInTurn` (`ServicesProofs`), for any places, subscribers and number of events.
  The number of the next event is read from a copy of the table, which may be gone, renewed or taken by
  another while the thread sends. `OnePlaceEach` says that a subscription has one place in the table and one
  entry in the copy, and that numbers are those of subscriptions handed out; `CopyIsTold` that nothing is left
  of the copy between two rounds. `NumberedInTurn`, the safety half of `SubscribersAreInformed`, is not
  inductive without them: a copy told twice would skip a number.

* `GuideInvariant`, `GuideNamesItsLink` (`ServicesProofs`), for any links, failures and crashes. `CopyInv`: the
  copy on disk is of the link its meta file names, unless a failure between the two files has parted them
  (`lost`, a finding);
  `BuildInv`: at each stage, which link the guide in memory and the file being built are of. With them
  `GuideIsOfItsLink`, the safety half of `GuideArrives`.

* `ListInvariant`, `ChannelsStaySound` (`ServicesProofs`), for any list, groups and limits. `Shows` says
  that rail and filter are built from the list as it is; `SaverInv` that, while the file is not spoilt,
  one saver at most is at it, and unless another save is to come the file is the list, or the saver at the
  file has the list as its copy. Without the copies `FileFollows` is not inductive: the file is behind the
  list in the middle of each save.

The type invariants of the modules with a theorem are part of its invariant; those of `Screen` are
`ScreenInv` for the flips and the pool and `PictureInv` for the rest. Those of the others are stated beside their properties and no
run lists them; they held in runs of their own when the modules were written.

Only model-checked:

* That subscribers hear the last state, that the address gets through and that a guide comes: the liveness
  halves of `SubscribersAreInformed`, `ReceiverIsFound` and `GuideArrives`. Their safety halves are proved.
* `LatestWinsAcrossTheWrap` is what `QueueRefinement` proves of every width of the numbers; the run shows it
  where they wrap within a few submits.
* Liveness under fairness (`OpensEnd`, `WaitsEnd`, `ViewerIsServed`, `StreamGoesOn`, `StreamsEnd`) and
  whatever needs ENABLED, which are out of the prover's reach.

No RECURSIVE operator is used.

## 5. Findings

The code is right in most of what was checked. Where it differs from what its comments say, `PROJECT.json`
quotes both under `findings`. Two have a run that exhibits them: `receiver_drop` (a live channel that
drops is never opened again) and `segments_end` (an HLS film played through the ring never ends). Five
more can be seen by checking a definition that no run lists: `ClockIsAnchored` (silence before the first
sound is paid back although the clock never ran ahead), `DebtIsCapped` (a flush between two steps of the
accounting wraps the debt) and, with `Guarded = FALSE`, `NothingIsDropped` (nothing holds back the decoder
of a separate rendition) in `Sound`; `OnlyBadIsSkipped` (slots of the prefetch are lost, one at a time,
until the sound stops) and `MutexOutlivesItsUsers` (the worker's mutex is destroyed while the audio thread
waits on it) in `Rendition`. The others were met while modelling; the models follow the code, and where a
property would fail everywhere it is stated apart from the defect. What is stated apart:

| where | what the property leaves to a finding |
|---|---|
| `Playback` | `HeldForNothing`, `WaitsForMoreThanThereIs`: a stream held back for a cushion that cannot come |
| `Sound` | the debt from before the first sound (`carried`), a flush in the middle of an update (`torn`) |
| `HttpRing` | the reader stalls when the demuxer jumps to exactly the end of a full window (`StallsOnlyAtEdge`) |
| `Opener` | a teardown or an interrupt may signal a mutex of the source that is gone; a supersede does not (`SupersedeSignalsLiveMutex`) |
| `Receiver` | the stream of before is reconnected when the newest open fails between the two reads of the end-of-stream check (`RetriesWhatWasAsked`) |
| `Segments` | the lost list and the lost address (`PlayedOut`) |
| `Fetcher` | an abort from before a fetch that cuts that fetch's connection (`stray`) |
| `Playlists` | how a segment is flagged after the tag of the discontinuity *sequence*, taken for a discontinuity (`IsSegment`) |
| `Screen` | bars left as they are when the software path comes back to the narrow picture it remembers after the hardware path painted wide ones (`skew`, `stray`), a panel drawn over nothing |
| `Subtitles` | a cue of the track chosen before; a rendition's file asked for and not fetched |
| `GuideLoad` | a copy filed beside the meta file of another link (`lost`) |
| `Channels` | the pad marks another channel than it plays, a save that failed (for lack of memory, at open), was short or ran into another (`drifted`, `unsaved`) |

Smaller things the model of HLS shows: another variant is taken only where a segment read over
the connection ends, never after one from memory and never by the fetch thread
(`hls.c:1446-1473`); segments that the probe has used up are not shown; after
`hls_next_segment` has given up a dead channel the fetch thread asks again at once
(`player_ff.c:2707`), so the deadline bounds the call and not the wait.

## 6. Plan

Done: the queue, the opener, both byte sources, the receiver, playback, HLS, the picture's way to the
screen, the services beside the player. What is left, by how much of what a viewer sees depends on it:

1. A stream of segments in order, with jumps only where a generation says so, as the abstract
   specification of `Segments` and `Rendition`.
2. The choice of a variant (`hlspl_pick`, the master playlist) and the key cache.
3. Pure parts against reference definitions: `m3u.c` grouping, guide lookup, `netpolicy.c`.

### Not modelled

* Vendored, generated and data code: `font_atlas.c`, `stb_image.h`, `ca_anchors.c`, `qrcodegen.c`. These four
  are 30 thousand of the repository's 56 thousand lines and hold no state of this program; the share
  of the implementation that any model can cover is bounded by that.
* Parsers and codecs (`resolve.c`, `urlopt.c`, `m3u.c`, `xmltv.c`, `inflate.c`, TLS): sequential functions
  over text, whose bytes are what matters and whose tests in the repository already enumerate them. Their
  verdicts are nondeterministic in the models.
* Layout, wording and painting of the interface, pad navigation, console services: no protocol in them
  beyond what `Receiver`, `Screen` and `Channels` have.
* The hardware decoder's interior and FFmpeg, outside the repository or a sequence of system calls.
* The watchdog: it compares durations; whether a beat is late is a question of time, which no model here has.
* Payload agents, browser extension, scripts: separate programs that reach this one through its HTTP
  commands, which `Receiver` takes in any order.
