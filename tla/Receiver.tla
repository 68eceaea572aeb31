------------------------------ MODULE Receiver ------------------------------
(***************************************************************************)
(* The receiver on top of the player.  The HTTP thread leaves commands in  *)
(* a mailbox (src/app/src/httpd.c); the main loop (src/app/src/main.c)     *)
(* goes through one frame after another: the resume bookkeeping, the       *)
(* outcome of the last open, the pad, the mailbox, the end of a stream,    *)
(* the reconnect driver, the picture.  Handlers run between any two stages *)
(* of a frame, and between two of their own critical sections a frame can  *)
(* pass.  The player below is LatestWins, which the opener implements.     *)
(*                                                                         *)
(* A position inside a video is named by the video it was measured on.     *)
(***************************************************************************)
EXTENDS Naturals, Sequences

CONSTANTS
  Urls,           \* media URLs that are cast, queued or handed over by DLNA
  Channels,       \* URLs of the loaded channel list
  Local,          \* the uploaded file
  Live,           \* those that are live HLS: no end, no duration
  NoSpec,         \* no URL
  NoOutcome,      \* see LatestWins
  Commands,       \* what the network sends
  Users,          \* whether a PS4 user is signed in, frame by frame
  QueueCap,       \* MAX_QUEUE, 16 in the code
  MaxReconnect,   \* MAX_RECONNECT, 30 in the code
  MaxCommands     \* bound on the commands the network sends

Media == Urls \cup Channels \cup {Local}

ASSUME MediaAssumption ==
  /\ Urls \cap Channels = {} /\ Local \notin Urls \cup Channels
  /\ Live \subseteq Urls \cup Channels /\ NoSpec \notin Media
ASSUME CommandsAssumption ==
  /\ Commands \subseteq {"cast", "play", "channel", "file", "delete", "stop",
                         "quit", "queue", "seturi", "dlnaplay", "dlnastop"}
  /\ Users \subseteq BOOLEAN /\ Users # {}
ASSUME BoundsAssumption == QueueCap \in Nat \ {0} /\ MaxReconnect \in Nat \ {0}
                              /\ MaxCommands \in Nat

VARIABLES
  kind, spec, phase, stale, outcome,   \* the player: the newest request
  stream,     \* what it opened: g_playSpec, g_started, g_active, a frame to hold
  box,        \* g_pending_url, g_player_pending, g_play/stop/quit_pending
  playlist,   \* g_queue: what to play next
  lastPush,   \* g_last_push: title, and the key positions are saved under
  tuned,      \* g_chanCur, the current channel
  resume,     \* g_resUrl/g_resPos: the position saved under each key
  avt,        \* g_dlna_uri, g_dlna_started
  http,       \* the HTTP thread: between which two steps of which handler
  m,          \* the main loop: stage of the frame and its locals
  wanted,     \* history: what main last asked the player for
  sent        \* bound: how many commands the network has sent

request == <<kind, spec, phase, stale, outcome>>
mailbox == <<box, playlist, lastPush, tuned, avt>>
vars == <<kind, spec, phase, stale, outcome, stream, box, playlist, lastPush,
          tuned, resume, avt, http, m, wanted, sent>>

Player == INSTANCE LatestWins WITH Specs <- Media, Outcomes <- {0, 1}

NoStream == [spec |-> NoSpec, started |-> FALSE, active |-> FALSE, held |-> FALSE]
EmptyBox == [url |-> NoSpec, player |-> 0, play |-> FALSE, stop |-> FALSE,
             quit |-> FALSE]
Idle == [at |-> "idle", url |-> NoSpec]

Init ==
  /\ Player!Init
  /\ stream = NoStream
  /\ box = EmptyBox
  /\ playlist = <<>>
  /\ lastPush = NoSpec
  /\ tuned = NoSpec
  /\ resume = [u \in Media |-> NoSpec]
  /\ avt = [uri |-> NoSpec, started |-> FALSE]
  /\ http = Idle
  /\ m = [at |-> "top", user |-> TRUE, saw |-> FALSE, key |-> NoSpec,
          seeking |-> FALSE, iptv |-> FALSE, live |-> FALSE,
          retrying |-> FALSE, tries |-> 0, retry |-> NoSpec, due |-> FALSE]
  /\ wanted = NoSpec
  /\ sent = 0

-----------------------------------------------------------------------------
(* The player, as player_ff.c shows it to the other threads.                *)

\* player_opening: a request is queued or executing.
Opening == phase \in {"queued", "running"} \/ stale

Started == IF Opening THEN kind = "play" ELSE stream.started

\* Mutant: the end of a stream is judged on g_active alone.
ActiveUnguarded == stream.active

Active == IF Opening THEN kind = "play" ELSE stream.active

AskPlay(u) == Player!Ask("play", u) /\ wanted' = u

\* player_stop; before the first open there is no worker to stop.
AskStop ==
  /\ IF kind = "none" THEN UNCHANGED request ELSE Player!Ask("stop", NoSpec)
  /\ wanted' = NoSpec

\* The opener worker tears the old stream down before it opens the new one.
OpenBegins ==
  /\ Player!Begin
  /\ stream' = [stream EXCEPT !.started = FALSE, !.active = FALSE, !.held = FALSE]
  /\ UNCHANGED <<mailbox, resume, http, m, wanted>>

\* g_playSpec is set once a page URL has been resolved: a failed open may have
\* got that far or not.
OpenEnds(rc) ==
  /\ kind = "stop" => rc = 0
  /\ Player!Complete(rc)
  /\ IF kind = "stop" THEN UNCHANGED stream
     ELSE \E s \in {spec} \cup (IF rc = 0 THEN {} ELSE {stream.spec}) :
            stream' = [stream EXCEPT !.spec = s, !.started = rc = 0,
                                     !.active = rc = 0]
  /\ UNCHANGED <<mailbox, resume, http, m, wanted>>

\* The superseded request gives up; what it may have built is torn down by the
\* request that follows, which is queued behind it.
OpenSuperseded ==
  /\ Player!Abandon
  /\ UNCHANGED <<stream, mailbox, resume, http, m, wanted>>

Worker == OpenBegins \/ (\E rc \in {0, 1} : OpenEnds(rc)) \/ OpenSuperseded

\* The hardware decoder failed and software could not take over.
DecoderFails ==
  /\ ~Opening /\ stream.active
  /\ stream' = [stream EXCEPT !.active = FALSE]
  /\ UNCHANGED <<request, mailbox, resume, http, m, wanted>>

-----------------------------------------------------------------------------
(* The HTTP thread: one request at a time, one lock section per step.       *)

Serve(c) == c \in Commands /\ http.at = "idle"

\* set_pending_player_named, set_pending_channel: one slot, the newest wins.
Boxed(u, k) == [box EXCEPT !.url = u, !.player = k]

\* /cast and /avplay: the title first, without the lock ...
CastTitle(u) ==
  /\ Serve("cast")
  /\ lastPush' = u
  /\ http' = [at |-> "cast", url |-> u]
  /\ UNCHANGED <<request, stream, box, playlist, tuned, resume, avt, m, wanted>>

\* ... then the request.
CastPost ==
  /\ http.at = "cast"
  /\ box' = Boxed(http.url, 1)
  /\ http' = Idle
  /\ UNCHANGED <<request, stream, playlist, lastPush, tuned, resume, avt, m,
                 wanted>>

\* /chan: tuned and titled in the channel store, then posted.
ChannelTune(c) ==
  /\ Serve("channel")
  /\ tuned' = c
  /\ lastPush' = c
  /\ http' = [at |-> "channel", url |-> c]
  /\ UNCHANGED <<request, stream, box, playlist, resume, avt, m, wanted>>

ChannelPost ==
  /\ http.at = "channel"
  /\ box' = Boxed(http.url, 2)
  /\ http' = Idle
  /\ UNCHANGED <<request, stream, playlist, lastPush, tuned, resume, avt, m,
                 wanted>>

\* /play: the same slot, another flag, no title.
PlayPost(u) ==
  /\ Serve("play")
  /\ box' = [box EXCEPT !.url = u, !.play = TRUE]
  /\ UNCHANGED <<request, stream, playlist, lastPush, tuned, resume, avt, http,
                 m, wanted>>

\* set_pending_local_file, after an upload or for /upload/replay: under the lock
\* throughout.  httpd_channels_tune(-1) leaves the current channel as it is.
FilePost ==
  /\ "file" \in Commands
  /\ box' = Boxed(Local, 1)
  /\ lastPush' = Local
  /\ UNCHANGED <<request, stream, playlist, tuned, resume, avt, http, m, wanted>>

\* /upload/delete takes a waiting file back and stops one that is playing;
\* player_is_local is read without looking whether an open is under way.
FileDelete ==
  LET waiting == box.player # 0 /\ box.url = Local
  IN /\ Serve("delete")
     /\ \E playing \in IF phase = "running" /\ spec = Local THEN BOOLEAN
                      ELSE {stream.started /\ stream.spec = Local} :
          /\ waiting \/ playing
          /\ box' = [box EXCEPT !.player = IF waiting THEN 0 ELSE @,
                                !.stop = @ \/ playing]
     /\ lastPush' = NoSpec
     /\ UNCHANGED <<request, stream, playlist, tuned, resume, avt, http, m,
                    wanted>>

StopPost ==
  /\ Serve("stop")
  /\ box' = [box EXCEPT !.stop = TRUE]
  /\ UNCHANGED <<request, stream, playlist, lastPush, tuned, resume, avt, http,
                 m, wanted>>

QuitPost ==
  /\ Serve("quit")
  /\ box' = [box EXCEPT !.quit = TRUE]
  /\ UNCHANGED <<request, stream, playlist, lastPush, tuned, resume, avt, http,
                 m, wanted>>

\* Mutant: no limit.
QueuePushUncapped(u) ==
  /\ Serve("queue")
  /\ Len(playlist) <= QueueCap
  /\ playlist' = Append(playlist, u)
  /\ UNCHANGED <<request, stream, box, lastPush, tuned, resume, avt, http, m,
                 wanted>>

\* queue_push: a full queue drops the newcomer.
QueuePush(u) ==
  /\ Serve("queue")
  /\ Len(playlist) < QueueCap
  /\ playlist' = Append(playlist, u)
  /\ UNCHANGED <<request, stream, box, lastPush, tuned, resume, avt, http, m,
                 wanted>>

\* SetAVTransportURI: the URI under the lock, the title without; a new URI also
\* stops what is playing.
SetUri(u) ==
  /\ Serve("seturi")
  /\ avt' = [avt EXCEPT !.uri = u]
  /\ http' = [at |-> IF u = avt.uri THEN "sameuri" ELSE "newuri", url |-> u]
  /\ UNCHANGED <<request, stream, box, playlist, lastPush, tuned, resume, m,
                 wanted>>

SetUriTitle ==
  /\ http.at \in {"sameuri", "newuri"}
  /\ lastPush' = http.url
  /\ avt' = [avt EXCEPT !.started = @ /\ http.at = "sameuri"]
  /\ http' = IF http.at = "newuri" /\ Started
               THEN [http EXCEPT !.at = "uristop"] ELSE Idle
  /\ UNCHANGED <<request, stream, box, playlist, tuned, resume, m, wanted>>

SetUriStop ==
  /\ http.at = "uristop"
  /\ box' = [box EXCEPT !.stop = TRUE]
  /\ http' = Idle
  /\ UNCHANGED <<request, stream, playlist, lastPush, tuned, resume, avt, m,
                 wanted>>

\* Play posts the URI; one this URI already started is only unpaused.
DlnaPlay ==
  /\ Serve("dlnaplay")
  /\ avt.uri # NoSpec /\ ~(avt.started /\ Started)
  /\ box' = Boxed(avt.uri, 1)
  /\ http' = [at |-> "dlnaplay", url |-> avt.uri]
  /\ UNCHANGED <<request, stream, playlist, lastPush, tuned, resume, avt, m,
                 wanted>>

DlnaStop ==
  /\ Serve("dlnastop")
  /\ box' = [box EXCEPT !.stop = TRUE]
  /\ http' = [at |-> "dlnastop", url |-> NoSpec]
  /\ UNCHANGED <<request, stream, playlist, lastPush, tuned, resume, avt, m,
                 wanted>>

DlnaDone ==
  /\ http.at \in {"dlnaplay", "dlnastop"}
  /\ avt' = [avt EXCEPT !.started = http.at = "dlnaplay"]
  /\ http' = Idle
  /\ UNCHANGED <<request, stream, box, playlist, lastPush, tuned, resume, m,
                 wanted>>

HttpContinues == CastPost \/ ChannelPost \/ SetUriTitle \/ SetUriStop \/ DlnaDone

HttpBegins ==
  \/ \E u \in Urls : CastTitle(u) \/ PlayPost(u) \/ QueuePush(u) \/ SetUri(u)
  \/ \E c \in Channels : ChannelTune(c)
  \/ FilePost \/ FileDelete \/ StopPost \/ QuitPost
  \/ DlnaPlay \/ DlnaStop

-----------------------------------------------------------------------------
(* The main loop, one stage of the frame per step.                          *)

At(stage) == m.at = stage

\* The reconnect driver is off; what it remembered is dead until it is armed again.
Unarmed(mm) == [mm EXCEPT !.retrying = FALSE, !.tries = 0, !.retry = NoSpec,
                          !.due = FALSE]

\* The end of a frame: the clock may pass reconnectAt.
TimePasses ==
  /\ At("top") /\ m.retrying /\ ~m.due
  /\ m' = [m EXCEPT !.due = TRUE]
  /\ UNCHANGED <<request, stream, mailbox, resume, http, wanted>>

\* Mutant: the key is not refreshed when other content starts.
KeyStale == IF m.key = NoSpec THEN lastPush ELSE m.key

\* The key under which this frame would save or look up a position.
Key == IF lastPush = NoSpec THEN m.key ELSE lastPush

\* Resume bookkeeping rests while a request is in flight, and forgets the key
\* when nothing plays.
ResumeRests ==
  /\ At("top")
  /\ Opening \/ ~stream.started
  /\ \E u \in Users :
       m' = [m EXCEPT !.at = "settled", !.user = u,
                      !.key = IF Opening THEN @ ELSE NoSpec]
  /\ UNCHANGED <<request, stream, mailbox, resume, http, wanted>>

\* New content under this key: once its duration is known, seek to where it was
\* left (a position too near either end is not used); live content never is.
ResumeSeeks ==
  LET fresh == m.seeking \/ Key # m.key
      known == stream.spec \notin Live
  IN /\ At("top")
     /\ ~Opening /\ stream.started /\ fresh
     /\ \E u \in Users, still \in (IF known THEN {FALSE} ELSE BOOLEAN) :
          m' = [m EXCEPT !.at = "settled", !.user = u, !.key = Key,
                         !.seeking = still]
     /\ UNCHANGED <<request, stream, mailbox, resume, http, wanted>>

\* Every ten seconds: keep the position, or drop the entry near either end.
ResumeSaves ==
  /\ At("top")
  /\ ~Opening /\ stream.started /\ ~(m.seeking \/ Key # m.key)
  /\ \E u \in Users : m' = [m EXCEPT !.at = "settled", !.user = u]
  /\ \/ UNCHANGED resume
     \/ /\ stream.spec \notin Live /\ m.key # NoSpec
        /\ \E p \in {NoSpec, stream.spec} : resume' = [resume EXCEPT ![m.key] = p]
  /\ UNCHANGED <<request, stream, mailbox, http, wanted>>

\* player_poll_open: the outcome of the newest open, once; it paces a retry.
SettledOpens ==
  /\ At("settled")
  /\ IF phase = "done" /\ kind = "play"
       THEN Player!Report /\ m' = [m EXCEPT !.at = "pad", !.due = @ /\ ~m.retrying]
       ELSE UNCHANGED request /\ m' = [m EXCEPT !.at = "pad"]
  /\ UNCHANGED <<stream, mailbox, resume, http, wanted>>

PadQuiet ==
  /\ At("pad")
  /\ m' = [m EXCEPT !.at = "quit"]
  /\ UNCHANGED <<request, stream, mailbox, resume, http, wanted>>

\* Cross on the channel list, or a zap over the channel that plays.
PadTunes(c) ==
  /\ At("pad")
  /\ Started => m.iptv /\ c # tuned
  /\ tuned' = c
  /\ lastPush' = c
  /\ AskPlay(c)
  /\ m' = [Unarmed(m) EXCEPT !.at = "quit", !.iptv = TRUE]
  /\ UNCHANGED <<stream, box, playlist, resume, avt, http>>

\* Mutant: the reconnect driver is left running.
StopsButRetries(at) == m' = [m EXCEPT !.at = at]

\* A stop also ends the reconnect driver.
Stops(at) == m' = [Unarmed(m) EXCEPT !.at = at]

\* Circle.
PadStops ==
  /\ At("pad") /\ Started
  /\ AskStop
  /\ Stops("quit")
  /\ UNCHANGED <<stream, mailbox, resume, http>>

\* Triangle, /quit, or eight seconds of video without a signed-in user.
Leaves ==
  /\ \/ At("pad")
     \/ At("quit") /\ box.quit
     \/ At("ended") /\ Started /\ ~m.user
  /\ AskStop
  /\ m' = [m EXCEPT !.at = "exit"]
  /\ box' = [box EXCEPT !.quit = @ /\ ~At("quit")]
  /\ UNCHANGED <<stream, playlist, lastPush, tuned, resume, avt, http>>

NoQuit ==
  /\ At("quit") /\ ~box.quit
  /\ m' = [m EXCEPT !.at = "stop"]
  /\ UNCHANGED <<request, stream, mailbox, resume, http, wanted>>

TakeStop ==
  /\ At("stop")
  /\ IF box.stop
       THEN AskStop /\ Stops("play") /\ box' = [box EXCEPT !.stop = FALSE]
       ELSE /\ m' = [m EXCEPT !.at = "play"]
            /\ UNCHANGED <<request, box, wanted>>
  /\ UNCHANGED <<stream, playlist, lastPush, tuned, resume, avt, http>>

\* What a cast taken from the mailbox does, with and without a signed-in user.
Starts(at, iptv) ==
  /\ tuned' = IF iptv THEN tuned ELSE NoSpec
  /\ IF m.user
       THEN /\ AskPlay(box.url)
            /\ m' = [Unarmed(m) EXCEPT !.at = at, !.iptv = iptv]
       ELSE /\ m' = [m EXCEPT !.at = at, !.iptv = iptv]
            /\ UNCHANGED <<request, wanted>>

TakePlay ==
  /\ At("play")
  /\ IF box.play
       THEN Starts("cast", FALSE) /\ box' = [box EXCEPT !.play = FALSE]
       ELSE /\ m' = [m EXCEPT !.at = "cast"]
            /\ UNCHANGED <<request, box, tuned, wanted>>
  /\ UNCHANGED <<stream, playlist, lastPush, resume, avt, http>>

\* Mutant: the cast waits until nothing plays.
TakeCastIdle ==
  /\ At("cast")
  /\ IF box.player # 0 /\ ~Started
       THEN Starts("ended", box.player = 2) /\ box' = [box EXCEPT !.player = 0]
       ELSE /\ m' = [m EXCEPT !.at = "ended"]
            /\ UNCHANGED <<request, box, tuned, wanted>>
  /\ UNCHANGED <<stream, playlist, lastPush, resume, avt, http>>

TakeCast ==
  /\ At("cast")
  /\ IF box.player # 0
       THEN Starts("ended", box.player = 2) /\ box' = [box EXCEPT !.player = 0]
       ELSE /\ m' = [m EXCEPT !.at = "ended"]
            /\ UNCHANGED <<request, box, tuned, wanted>>
  /\ UNCHANGED <<stream, playlist, lastPush, resume, avt, http>>

\* The end-of-stream check is done with; its locals are dead.
Judged(mm) == [mm EXCEPT !.at = "retry", !.saw = FALSE, !.user = TRUE]

\* player_started and player_is_active are two reads.
SeesStarted ==
  /\ At("ended")
  /\ m' = [m EXCEPT !.at = "over", !.saw = Started /\ ~m.retrying]
  /\ UNCHANGED <<request, stream, mailbox, resume, http, wanted>>

StillOn ==
  /\ At("over") /\ ~(m.saw /\ ~Active)
  /\ m' = Judged(m)
  /\ UNCHANGED <<request, stream, mailbox, resume, http, wanted>>

\* The stream is over: the next of the queue ...
TakeNext ==
  /\ At("over") /\ m.saw /\ ~Active
  /\ playlist # <<>>
  /\ playlist' = Tail(playlist)
  /\ lastPush' = Head(playlist)
  /\ tuned' = NoSpec
  /\ m' = [Judged(Unarmed(m)) EXCEPT !.iptv = FALSE]
  /\ IF m.user THEN AskPlay(Head(playlist)) ELSE AskStop
  /\ UNCHANGED <<stream, box, resume, avt, http>>

\* ... or a live stream that dropped: retry it, 0.8 s from now ...
Dropped ==
  /\ At("over") /\ m.saw /\ ~Active
  /\ playlist = <<>>
  /\ m.live /\ stream.spec # NoSpec
  /\ m' = [Judged(Unarmed(m)) EXCEPT !.retrying = TRUE, !.retry = stream.spec]
  /\ UNCHANGED <<request, stream, mailbox, resume, http, wanted>>

\* ... or nothing more.
Finished ==
  /\ At("over") /\ m.saw /\ ~Active
  /\ playlist = <<>>
  /\ ~(m.live /\ stream.spec # NoSpec)
  /\ AskStop
  /\ m' = Judged(m)
  /\ UNCHANGED <<stream, mailbox, resume, http>>

\* Mutant: an attempt is not counted.
AttemptUncounted == m.tries

Attempt == m.tries + 1

\* The reconnect driver: one attempt when it is due and no open is in flight,
\* and a stop after the last one.
Retry ==
  /\ At("retry")
  /\ IF ~(m.retrying /\ ~Opening /\ m.due)
       THEN m' = [m EXCEPT !.at = "draw"] /\ UNCHANGED <<request, wanted>>
       ELSE IF m.tries >= MaxReconnect
         THEN /\ AskStop
              /\ m' = [Unarmed(m) EXCEPT !.at = "draw"]
         ELSE /\ AskPlay(m.retry)
              /\ m' = [m EXCEPT !.at = "draw", !.tries = Attempt, !.due = FALSE]
  /\ UNCHANGED <<stream, mailbox, resume, http>>

\* player_render: nothing while a request is in flight ...
DrawsNothing ==
  /\ At("draw")
  /\ Opening \/ ~stream.started \/ ~stream.held
  /\ m' = [m EXCEPT !.at = "top"]
  /\ UNCHANGED <<request, stream, mailbox, resume, http, wanted>>

\* ... the reopening the decode thread asked for ...
DrawRestarts ==
  /\ At("draw")
  /\ ~Opening /\ stream.started /\ stream.active
  /\ AskPlay(stream.spec)
  /\ m' = [m EXCEPT !.at = "top"]
  /\ UNCHANGED <<stream, mailbox, resume, http>>

\* ... a picture: a new frame, or the last one again, also after the end.
Draws ==
  /\ At("draw")
  /\ ~Opening /\ stream.started
  /\ stream.active \/ stream.held
  /\ \E over \in BOOLEAN :
       /\ over => stream.held
       /\ stream' = [stream EXCEPT !.held = TRUE, !.active = @ /\ ~over]
  /\ m' = [Unarmed(m) EXCEPT !.at = "top", !.live = stream.spec \in Live]
  /\ UNCHANGED <<request, mailbox, resume, http, wanted>>

\* The end before the first frame: "no video frames could be decoded".
DrawEndsBare ==
  /\ At("draw")
  /\ ~Opening /\ stream.started /\ stream.active /\ ~stream.held
  /\ stream' = [stream EXCEPT !.active = FALSE]
  /\ m' = [m EXCEPT !.at = "top"]
  /\ UNCHANGED <<request, mailbox, resume, http, wanted>>

Frame ==
  \/ ResumeRests \/ ResumeSeeks \/ ResumeSaves \/ SettledOpens
  \/ PadQuiet \/ (\E c \in Channels : PadTunes(c)) \/ PadStops \/ Leaves
  \/ NoQuit \/ TakeStop \/ TakePlay \/ TakeCast
  \/ SeesStarted \/ StillOn \/ TakeNext \/ Dropped \/ Finished
  \/ Retry \/ DrawsNothing \/ DrawRestarts \/ Draws \/ DrawEndsBare

Quietly == Frame \/ TimePasses \/ HttpContinues \/ Worker \/ DecoderFails

Next ==
  \/ Quietly /\ UNCHANGED sent
  \/ HttpBegins /\ sent < MaxCommands /\ sent' = sent + 1

Spec == Init /\ [][Next]_vars

-----------------------------------------------------------------------------
(* Properties.                                                              *)

\* Every variable keeps the shape its declaration gives it, and the counters
\* their limits: g_queueN <= MAX_QUEUE (httpd.c), reconnects <= MAX_RECONNECT
\* (main.c).
ReceiverTypeOK ==
  /\ kind \in {"none", "play", "stop"}
  /\ phase \in {"idle", "queued", "running", "done", "reported"}
  /\ spec \in Media \cup {NoSpec}
  /\ stream \in [spec : Media \cup {NoSpec}, started : BOOLEAN, active : BOOLEAN,
                held : BOOLEAN]
  /\ box \in [url : Media \cup {NoSpec}, player : 0 .. 2, play : BOOLEAN,
             stop : BOOLEAN, quit : BOOLEAN]
  /\ playlist \in Seq(Urls) /\ Len(playlist) <= QueueCap
  /\ lastPush \in Media \cup {NoSpec} /\ tuned \in Channels \cup {NoSpec}
  /\ resume \in [Media -> Media \cup {NoSpec}]
  /\ avt \in [uri : Urls \cup {NoSpec}, started : BOOLEAN]
  /\ m.tries \in 0 .. MaxReconnect /\ m.retry \in Media \cup {NoSpec}
  /\ m.key \in Media \cup {NoSpec}

\* Once main has carried out a stop, nothing starts playing by itself: the
\* reconnect driver is off and no play request is under way until the viewer
\* gives another command (main.c: Circle, /stop, the end of the queue).
StoppedStaysStopped ==
  wanted = NoSpec /\ ~At("exit") =>
    ~m.retrying /\ ~(kind = "play" /\ Opening)

\* The reconnect driver is armed for what main asked the player for last. For anything
\* else only if that has failed to open, as when it fails between the two reads of the
\* end-of-stream check: never while what the viewer asked for is up or still opens
\* (main.c, reconnectSpec; player_started, player_is_active).
RetriesWhatWasAsked ==
  m.retrying /\ ~At("exit") => m.retry = wanted \/ (~Opening /\ ~stream.started)

\* A position is saved under the title of the video it was measured on, as long as
\* the title shown is that of what main asked for (main.c, "resume").
ResumeNamesItsStream ==
  [][\A u \in Media :
       resume'[u] # resume[u] /\ lastPush = wanted /\ ~Opening => u = stream.spec]_vars

\* The reconnect driver ends: with a picture, a command, or the last attempt
\* (main.c, MAX_RECONNECT).
ReconnectEnds == m.retrying ~> ~m.retrying \/ At("exit")

\* Main gets to every command in the mailbox, whatever the player is doing and
\* whatever else is posted (main.c, the httpd_take calls of a frame); it leaves
\* on a quit.
ViewerIsHeard ==
  /\ box.player # 0 ~> box.player = 0 \/ At("exit")
  /\ box.play ~> ~box.play \/ At("exit")
  /\ box.stop ~> ~box.stop \/ At("exit")
  /\ box.quit ~> At("exit")

\* Both: neither a reconnect nor a command waits for ever.
ViewerIsServed == ReconnectEnds /\ ViewerIsHeard

\* The loop keeps running, opens end (Opener: BusySettles), a request under way
\* is finished, the clock reaches reconnectAt, and a source does not answer every
\* opening with a restart before its first frame.
FairSpec ==
  /\ Spec
  /\ WF_vars(Frame /\ UNCHANGED sent)
  /\ WF_vars((Worker \/ HttpContinues) /\ UNCHANGED sent)
  /\ SF_vars(TimePasses /\ UNCHANGED sent)
  /\ SF_vars((Draws \/ DrawEndsBare) /\ UNCHANGED sent)

-----------------------------------------------------------------------------
(* What comments of the code say and the code does not do.                  *)

\* main.c: "for a LIVE source that dropped -- begin auto-reconnect instead of
\* dying": a live stream that ended is asked for again, or given up.
DroppedIsRetried ==
  stream.started /\ ~stream.active /\ stream.spec \in Live
    ~> Opening \/ ~stream.started \/ At("exit")
=============================================================================
