----------------------------- MODULE Subtitles -----------------------------
\* subtitle.c: which track of subtitles is shown and where its cues come from. The
\* opener worker opens and closes streams, the decode thread delivers the cues of an
\* embedded track, a fetcher thread downloads renditions of a playlist and external
\* files, the HTTP thread chooses. Everything is under one lock that is never held
\* across a download, so what a download brings may be out of date.
EXTENDS Integers

CONSTANTS Sources,        \* what can be played
          NoSource,
          MaxAsks         \* bound: openings, choices and files asked for

ASSUME SubtitlesAssumption == NoSource \notin Sources /\ MaxAsks \in Nat

Embedded == {"one", "two"}           \* ids below 100
Renditions == {"vtt", "vtt2"}        \* ids from 100: playlists of their own
External == "file"                   \* SUB_ID_EXTERNAL
Off == "off"

VARIABLES
  source,    \* g_spec
  up,        \* a stream is open: sub_stream_opened .. sub_stream_closed
  cur,       \* g_cur
  pick,      \* g_pickId: the choice made for the source
  live,      \* g_live: the tracks whose cues it holds
  file,      \* g_ext, g_haveExt: the source the file was asked for
  work,      \* the fetcher's orders: g_jobGen, g_jobKind and the rendition or source
  fetch,     \* fetch_main: "idle" or "busy", what it took, and the last one done
  later,     \* g_pendSpec: a source for which a file was named before it opened
  route,     \* g_routeStream: the embedded track the decode thread takes packets of
  turn,      \* g_applyPending
  cue,       \* a cue decoded, not yet added: its track
  asks
subtitlesVars == <<source, up, cur, pick, live, file, work, fetch, later, route, turn, cue, asks>>
decoder == <<route, cue>>

NoWork == [kind |-> "none", of |-> Off]
Order(kind, of) == [kind |-> kind, of |-> of]

SubtitlesInit ==
  /\ source = NoSource /\ up = FALSE /\ cur = Off /\ pick = Off /\ live = {} /\ file = NoSource
  /\ work = [gen |-> 0, order |-> NoWork] /\ later = NoSource
  /\ fetch = [at |-> "idle", gen |-> 0, order |-> NoWork, done |-> 0]
  /\ route = Off /\ turn = FALSE /\ cue = Off /\ asks = 0

Asks == asks < MaxAsks /\ asks' = asks + 1

-----------------------------------------------------------------------------
\* The helpers that run under the lock.

\* start_job: a new generation, so that whatever is on its way is thrown away.
NewOrder(w, order) == [gen |-> w.gen + 1, order |-> order]

\* select_locked: the cues of the last track go; a rendition gets its job, any other
\* track ends the job of a rendition.
Chosen(w, track) ==
  IF track \in Renditions THEN NewOrder(w, Order("hls", track))
  ELSE IF w.order.kind = "hls" THEN NewOrder(w, NoWork)
  ELSE w
Select(w, track) ==
  /\ cur' = track /\ live' = {} /\ turn' = TRUE /\ work' = Chosen(w, track)

Listed(track) ==
  \/ track = Off
  \/ track \in Embedded \cup Renditions /\ up
  \/ track = External /\ file # NoSource /\ (up \/ cur = External)

-----------------------------------------------------------------------------
\* The opener worker.

\* sub_stream_opened: another source forgets file and choice of the last one and ends
\* a download for it. A choice made for the same source is found again; a language
\* that is preferred may pick a track. A file named for this source is fetched.
Opened ==
  /\ ~up /\ Asks /\ up' = TRUE
  /\ \E s \in Sources :
       LET same == s = source
           w    == IF ~same /\ work.order.kind = "external" THEN NewOrder(work, NoWork) ELSE work
           have == IF same THEN file ELSE NoSource
       IN  \E track \in IF ~same THEN Embedded \cup Renditions \cup {Off}
                        ELSE IF pick = External /\ have = NoSource THEN {Off} ELSE {pick} :
             /\ source' = s /\ file' = have /\ pick' = (IF same THEN pick ELSE Off)
             /\ cur' = track /\ live' = {}
             /\ work' = IF later = s THEN NewOrder(Chosen(w, track), Order("external", s))
                        ELSE Chosen(w, track)
             /\ later' = IF later = s THEN NoSource ELSE later
             /\ turn' = FALSE /\ route' = (IF track \in Embedded THEN track ELSE Off)
  /\ UNCHANGED <<fetch, cue>>

\* sub_stream_closed, after the decode thread has been joined.
Closed ==
  /\ up /\ cue = Off /\ up' = FALSE /\ cur' = Off /\ live' = {} /\ turn' = FALSE /\ route' = Off
  /\ work' = IF work.order.kind = "hls" THEN NewOrder(work, NoWork) ELSE work
  /\ UNCHANGED <<source, pick, file, fetch, later, cue, asks>>

-----------------------------------------------------------------------------
\* The HTTP thread.

ChooseTrack ==
  /\ Asks /\ \E t \in Embedded \cup Renditions \cup {External, Off} :
               Listed(t) /\ pick' = t /\ Select(work, t)
  /\ UNCHANGED <<source, up, file, fetch, later, decoder>>

\* sub_load_text: the file comes with the request, and needs no download.
LoadText ==
  /\ source # NoSource /\ Asks /\ file' = source /\ pick' = External /\ Select(work, External)
  /\ UNCHANGED <<source, up, fetch, later, decoder>>

\* sub_load_url_for (and sub_load_url for the source that plays): fetched now or, for
\* a source that is not up yet, once it has opened.
LoadUrl ==
  /\ Asks
  /\ \E s \in Sources :
       \/ s = source /\ work' = NewOrder(work, Order("external", s)) /\ later' = later
       \/ s # source /\ later' = s /\ work' = work
  /\ UNCHANGED <<source, up, cur, pick, live, file, fetch, turn, decoder>>

-----------------------------------------------------------------------------
\* The fetcher. It notices that its order is out of date between two downloads, and
\* looks again under the lock before it publishes one.

AnyLive == TRUE                                                    \* Mutant
Live == fetch.gen = work.gen

Take ==
  /\ fetch.at = "idle" /\ fetch.done # work.gen
  /\ fetch' = IF work.order.kind = "none" THEN [fetch EXCEPT !.done = work.gen]
              ELSE [at |-> "busy", gen |-> work.gen, order |-> work.order, done |-> fetch.done]
  /\ UNCHANGED <<source, up, cur, pick, live, file, work, later, turn, decoder, asks>>

Finished == [fetch EXCEPT !.at = "idle", !.done = fetch.gen]

\* external_job: the file replaces the last one and is shown; a failure only leaves a
\* message.
FileArrives ==
  /\ fetch.at = "busy" /\ fetch.order.kind = "external" /\ fetch' = Finished
  /\ \/ Live /\ file' = fetch.order.of /\ pick' = External /\ Select(work, External)
     \/ UNCHANGED <<cur, live, turn, work, pick, file>>
  /\ UNCHANGED <<source, up, later, decoder, asks>>

\* hls_job: one segment after the other, for as long as the order stands.
Rendition ==
  /\ fetch.at = "busy" /\ fetch.order.kind = "hls"
  /\ live' = IF Live THEN live \cup {fetch.order.of} ELSE live
  /\ UNCHANGED <<source, up, cur, pick, file, work, fetch, later, turn, decoder, asks>>
RenditionEnds ==
  /\ fetch.at = "busy" /\ fetch.order.kind = "hls" /\ fetch.gen # work.gen /\ fetch' = Finished
  /\ UNCHANGED <<source, up, cur, pick, live, file, work, later, turn, decoder, asks>>

-----------------------------------------------------------------------------
\* The decode thread.

DecoderKeeps == UNCHANGED <<source, up, cur, pick, file, work, fetch, later, asks>>

\* sub_apply_pending: from now on packets of the chosen track are taken.
ApplyPending ==
  /\ up /\ turn /\ cue = Off /\ turn' = FALSE
  /\ route' = (IF cur \in Embedded THEN cur ELSE Off) /\ UNCHANGED <<live, cue>> /\ DecoderKeeps

\* sub_packet decodes without the lock; add_live looks whether an embedded track is
\* still shown. It does not look which.
Packet ==
  /\ up /\ cue = Off /\ route # Off /\ cue' = route /\ UNCHANGED <<live, turn, route>> /\ DecoderKeeps
AddLive ==
  /\ cue # Off /\ cue' = Off
  /\ live' = IF cur \in Embedded THEN live \cup {cue} ELSE live
  /\ UNCHANGED <<turn, route>> /\ DecoderKeeps

\* sub_seek: cues of an embedded track come again, fetched ones stay.
SeekClears ==
  /\ up /\ cue = Off /\ cur \in Embedded /\ live # {} /\ live' = {}
  /\ UNCHANGED <<turn, route, cue>> /\ DecoderKeeps

-----------------------------------------------------------------------------
Fetching == Take \/ FileArrives \/ Rendition \/ RenditionEnds
SubtitlesNext ==
  \/ Opened \/ Closed \/ ChooseTrack \/ LoadText \/ LoadUrl
  \/ Fetching \/ ApplyPending \/ Packet \/ AddLive \/ SeekClears
SubtitlesSpec ==
  SubtitlesInit /\ [][SubtitlesNext]_subtitlesVars
  /\ WF_subtitlesVars(Take \/ FileArrives \/ RenditionEnds)

SubtitlesTypeOK ==
  /\ source \in Sources \cup {NoSource} /\ file \in Sources \cup {NoSource}
  /\ cur \in Embedded \cup Renditions \cup {External, Off}
  /\ live \subseteq Embedded \cup Renditions /\ route \in Embedded \cup {Off}
  /\ fetch.gen <= work.gen /\ asks \in 0 .. MaxAsks

\* The cues on the screen are those of the track that is chosen and of the source that
\* plays, although downloads are asked for in one state of affairs and come back in
\* another. Two embedded tracks may mix for a moment: see AddLive.
CuesAreOfTheTrack ==
  /\ \A t \in live : t = cur \/ {t, cur} \subseteq Embedded
  /\ file \in {source, NoSource}
  /\ cur = External => file = source

\* A rendition that is shown is being fetched, unless the download of a file has taken
\* the fetcher from it.
RenditionIsFetched ==
  cur \in Renditions => \/ work.order = Order("hls", cur)
                        \/ work.order.kind = "external"

\* Both together: what is shown was meant to be shown, and what is meant to be shown
\* is on its way.
SubtitlesAreRight == CuesAreOfTheTrack /\ RenditionIsFetched
=============================================================================
