--------------------------- MODULE ReceiverProofs ---------------------------
(***************************************************************************)
(* The receiver, for any media, commands, users and limits: after a stop   *)
(* nothing starts playing by itself, a reconnect goes after what was asked *)
(* for, and a position is saved under the video it was measured on.        *)
(***************************************************************************)
EXTENDS Receiver, SequenceTheorems, TLAPS

Stages ==
  {"top", "settled", "pad", "quit", "stop", "play", "cast", "ended", "over", "retry", "draw", "exit"}
HttpStages ==
  {"idle", "cast", "channel", "sameuri", "newuri", "uristop", "dlnaplay", "dlnastop"}
Known == Media \cup {NoSpec}

\* What the player was asked for last is what main wants; what it has up is that too, until
\* the next request is queued.
RequestInv ==
  /\ kind \in {"none", "play", "stop"} /\ spec \in Known /\ wanted \in Known /\ stale \in BOOLEAN
  /\ phase \in {"idle", "queued", "running", "done", "reported"}
  /\ DOMAIN stream = {"spec", "started", "active", "held"} /\ stream.spec \in Known
  /\ stream.started \in BOOLEAN /\ stream.active \in BOOLEAN /\ stream.held \in BOOLEAN
  /\ kind = "play" <=> wanted # NoSpec
  /\ kind = "none" => phase = "idle"
  /\ stale => phase = "queued"
  /\ kind = "play" /\ phase \in {"queued", "running"} => spec = wanted
  /\ stream.started =>
       \/ phase = "queued"
       \/ kind = "play" /\ phase \in {"done", "reported"} /\ stream.spec = wanted

\* What is posted names something to play.
MailInv ==
  /\ DOMAIN box = {"url", "player", "play", "stop", "quit"} /\ box.url \in Known
  /\ box.player \in 0 .. 2 /\ box.play \in BOOLEAN /\ box.stop \in BOOLEAN /\ box.quit \in BOOLEAN
  /\ DOMAIN avt = {"uri", "started"} /\ avt.uri \in Urls \cup {NoSpec} /\ avt.started \in BOOLEAN
  /\ DOMAIN http = {"at", "url"} /\ http.at \in HttpStages /\ http.url \in Known
  /\ lastPush \in Known /\ tuned \in Channels \cup {NoSpec}
  /\ playlist \in Seq(Urls) /\ Len(playlist) <= QueueCap
  /\ box.player # 0 \/ box.play => box.url \in Media
  /\ http.at \in {"cast", "channel"} => http.url \in Media

\* The reconnect driver is on only for what main still wants, and off while the end of a
\* stream is judged.
LoopInv ==
  /\ DOMAIN m = {"at", "user", "saw", "key", "seeking", "iptv", "live", "retrying", "tries",
                 "retry", "due"}
  /\ m.at \in Stages /\ m.user \in BOOLEAN /\ m.saw \in BOOLEAN /\ m.key \in Known
  /\ m.seeking \in BOOLEAN /\ m.iptv \in BOOLEAN /\ m.live \in BOOLEAN /\ m.retrying \in BOOLEAN
  /\ m.tries \in 0 .. MaxReconnect /\ m.retry \in Known /\ m.due \in BOOLEAN
  /\ m.retrying => m.retry \in Media
  /\ m.retrying /\ m.at # "exit" => wanted # NoSpec
  /\ m.at = "over" /\ m.saw => wanted # NoSpec /\ ~m.retrying

ReceiverInv ==
  RequestInv /\ MailInv /\ LoopInv /\ RetriesWhatWasAsked /\ resume \in [Media -> Known]
-----------------------------------------------------------------------------
(* What main asks of the player.                                             *)

Asks == (\E u \in Media : AskPlay(u)) \/ AskStop \/ UNCHANGED <<request, wanted>>

\* What a step does to the request and to the stream.
Effect ==
  \/ Asks /\ UNCHANGED stream
  \/ UNCHANGED wanted /\ (Worker \/ DecoderFails \/ Draws \/ DrawEndsBare)
  \/ UNCHANGED <<stream, wanted>> /\ Player!Report

LEMMA MediaFacts ==
  /\ Urls \subseteq Media /\ Channels \subseteq Media /\ Local \in Media
  /\ NoSpec \notin Media /\ NoSpec \in Known /\ Media \subseteq Known
BY MediaAssumption DEF Media, Known

\* A video that is up, with no request in flight, is the one main wants.
LEMMA StartedIsWanted ==
  ASSUME RequestInv, stream.started, ~Opening
  PROVE  stream.spec = wanted /\ wanted \in Media /\ kind = "play"
BY MediaFacts DEF RequestInv, Opening, Known

LEMMA StartedIsAsked ==
  ASSUME RequestInv, Started
  PROVE  wanted # NoSpec
BY StartedIsWanted, MediaFacts DEF RequestInv, Started

LEMMA AsksKeep ==
  ASSUME RequestInv, Asks, UNCHANGED stream
  PROVE  RequestInv'
<1>1. CASE \E u \in Media : AskPlay(u)
  <2> PICK u \in Media : AskPlay(u)
    BY <1>1
  <2> QED BY MediaFacts DEF RequestInv, AskPlay, Player!Ask
<1>2. CASE AskStop /\ kind = "none"
  BY <1>2, MediaFacts DEF RequestInv, AskStop, request
<1>3. CASE AskStop /\ kind # "none"
  BY <1>3, MediaFacts DEF RequestInv, AskStop, Player!Ask
<1>4. CASE UNCHANGED <<request, wanted>>
  BY <1>4 DEF RequestInv, request
<1> QED BY <1>1, <1>2, <1>3, <1>4 DEF Asks

LEMMA WorkerKeeps ==
  ASSUME RequestInv, Worker
  PROVE  RequestInv'
<1>1. CASE OpenBegins
  BY <1>1 DEF RequestInv, OpenBegins, Player!Begin
<1>2. ASSUME NEW rc \in {0, 1}, OpenEnds(rc)
      PROVE  RequestInv'
  <2>1. phase = "running" /\ Player!Complete(rc) /\ UNCHANGED wanted
    BY <1>2 DEF OpenEnds, Player!Complete
  <2>2. CASE kind = "stop"
    BY <1>2, <2>1, <2>2, MediaFacts DEF RequestInv, OpenEnds, Player!Complete
  <2>3. CASE kind # "stop"
    <3>1. PICK s \in {spec} \cup (IF rc = 0 THEN {} ELSE {stream.spec}) :
            stream' = [stream EXCEPT !.spec = s, !.started = rc = 0, !.active = rc = 0]
      BY <1>2, <2>3 DEF OpenEnds
    <3>2. s \in Known /\ (rc = 0 => s = spec)
      BY <3>1 DEF RequestInv
    <3>3. /\ DOMAIN stream' = {"spec", "started", "active", "held"} /\ stream'.spec = s
          /\ stream'.started = (rc = 0) /\ stream'.active = (rc = 0)
          /\ stream'.held = stream.held
      BY <3>1 DEF RequestInv
    <3>4. rc = 0 => kind = "play" /\ spec = wanted
      BY <2>1, <2>3 DEF RequestInv
    <3> QED BY <2>1, <2>3, <3>2, <3>3, <3>4, MediaFacts DEF RequestInv, Player!Complete
  <2> QED BY <2>2, <2>3
<1>3. CASE OpenSuperseded
  BY <1>3 DEF RequestInv, OpenSuperseded, Player!Abandon
<1> QED BY <1>1, <1>2, <1>3 DEF Worker

LEMMA RequestKeeps ==
  ASSUME RequestInv, Effect
  PROVE  RequestInv'
<1>1. CASE Asks /\ UNCHANGED stream
  BY <1>1, AsksKeep
<1>2. CASE Worker
  BY <1>2, WorkerKeeps
<1>3. CASE DecoderFails
  BY <1>3 DEF RequestInv, DecoderFails, request
<1>4. CASE Draws
  <2>1. PICK over \in BOOLEAN :
          stream' = [stream EXCEPT !.held = TRUE, !.active = @ /\ ~over]
    BY <1>4 DEF Draws
  <2>2. /\ DOMAIN stream' = DOMAIN stream /\ stream'.spec = stream.spec
        /\ stream'.started = stream.started /\ stream'.held = TRUE
        /\ stream'.active \in BOOLEAN
    BY <2>1 DEF RequestInv
  <2>3. UNCHANGED <<kind, spec, phase, stale, outcome, wanted>>
    BY <1>4 DEF Draws, request
  <2> QED BY <2>2, <2>3 DEF RequestInv
<1>5. CASE DrawEndsBare
  BY <1>5 DEF RequestInv, DrawEndsBare, request
<1>6. CASE UNCHANGED <<stream, wanted>> /\ Player!Report
  BY <1>6 DEF RequestInv, Player!Report
<1> QED BY <1>1, <1>2, <1>3, <1>4, <1>5, <1>6 DEF Effect

-----------------------------------------------------------------------------
(* Every step has such an effect.                                            *)

LEMMA FrameEffects ==
  ASSUME RequestInv, MailInv, LoopInv, Frame
  PROVE  Effect
<1>1. CASE ResumeRests \/ ResumeSeeks \/ ResumeSaves \/ PadQuiet \/ NoQuit \/ SeesStarted
           \/ StillOn \/ Dropped \/ DrawsNothing
  BY <1>1 DEF Effect, Asks, ResumeRests, ResumeSeeks, ResumeSaves, PadQuiet, NoQuit,
     SeesStarted, StillOn, Dropped, DrawsNothing
<1>2. CASE SettledOpens
  BY <1>2 DEF Effect, Asks, SettledOpens
<1>3. ASSUME NEW c \in Channels, PadTunes(c)
      PROVE  Effect
  BY <1>3, MediaFacts DEF Effect, Asks, PadTunes
<1>4. CASE PadStops \/ Leaves \/ Finished
  BY <1>4 DEF Effect, Asks, PadStops, Leaves, Finished
<1>5. CASE TakeStop
  BY <1>5 DEF Effect, Asks, TakeStop
<1>6. CASE TakePlay
  <2>1. box.play => box.url \in Media
    BY DEF MailInv
  <2> QED BY <1>6, <2>1 DEF Effect, Asks, TakePlay, Starts
<1>7. CASE TakeCast
  <2>1. box.player # 0 => box.url \in Media
    BY DEF MailInv
  <2> QED BY <1>7, <2>1 DEF Effect, Asks, TakeCast, Starts
<1>8. CASE TakeNext
  <2>1. Head(playlist) \in Media
    BY <1>8, MediaFacts DEF MailInv, TakeNext
  <2> QED BY <1>8, <2>1 DEF Effect, Asks, TakeNext
<1>9. CASE Retry
  <2>1. m.retrying => m.retry \in Media
    BY DEF LoopInv
  <2> QED BY <1>9, <2>1 DEF Effect, Asks, Retry
<1>10. CASE DrawRestarts
  <2>1. stream.spec \in Media
    BY <1>10, StartedIsWanted DEF DrawRestarts
  <2> QED BY <1>10, <2>1 DEF Effect, Asks, DrawRestarts
<1>11. CASE Draws \/ DrawEndsBare
  BY <1>11 DEF Effect, Draws, DrawEndsBare
<1> QED
  BY <1>1, <1>2, <1>3, <1>4, <1>5, <1>6, <1>7, <1>8, <1>9, <1>10, <1>11 DEF Frame

LEMMA HttpEffects ==
  ASSUME HttpBegins \/ HttpContinues
  PROVE  UNCHANGED <<request, wanted, stream, m, resume>>
BY DEF HttpBegins, HttpContinues, CastTitle, PlayPost, QueuePush, SetUri, ChannelTune, FilePost,
   FileDelete, StopPost, QuitPost, DlnaPlay, DlnaStop, CastPost, ChannelPost, SetUriTitle,
   SetUriStop, DlnaDone

LEMMA StepEffects ==
  ASSUME RequestInv, MailInv, LoopInv, [Next]_vars
  PROVE  Effect
<1>1. CASE Frame
  BY <1>1, FrameEffects
<1>2. CASE TimePasses \/ UNCHANGED vars
  BY <1>2 DEF Effect, Asks, TimePasses, vars, request
<1>3. CASE HttpBegins \/ HttpContinues
  BY <1>3, HttpEffects DEF Effect, Asks
<1>4. CASE Worker
  BY <1>4 DEF Effect, Worker, OpenBegins, OpenEnds, OpenSuperseded
<1>5. CASE DecoderFails
  BY <1>5 DEF Effect, DecoderFails
<1> QED BY <1>1, <1>2, <1>3, <1>4, <1>5 DEF Next, Quietly

-----------------------------------------------------------------------------
(* The mailbox and the HTTP thread.                                          *)

LEMMA MailHttpKeeps ==
  ASSUME MailInv, HttpBegins \/ HttpContinues
  PROVE  MailInv'
<1> USE MediaFacts
<1>1. ASSUME NEW u \in Urls, CastTitle(u) \/ PlayPost(u) \/ SetUri(u)
      PROVE  MailInv'
  <2>1. u \in Media /\ u \in Known
    OBVIOUS
  <2>2. CASE CastTitle(u)
    BY <2>1, <2>2 DEF MailInv, HttpStages, CastTitle
  <2>3. CASE PlayPost(u)
    BY <2>1, <2>3 DEF MailInv, PlayPost
  <2>4. CASE SetUri(u)
    BY <2>1, <2>4 DEF MailInv, HttpStages, SetUri
  <2> QED BY <1>1, <2>2, <2>3, <2>4
<1>2. ASSUME NEW u \in Urls, QueuePush(u)
      PROVE  MailInv'
  <2>1. /\ playlist' \in Seq(Urls) /\ Len(playlist') = Len(playlist) + 1
    BY <1>2, AppendProperties DEF MailInv, QueuePush
  <2>2. Len(playlist') <= QueueCap
    <3>1. Len(playlist) \in Nat /\ QueueCap \in Nat /\ Len(playlist) < QueueCap
      BY <1>2, BoundsAssumption, LenProperties DEF MailInv, QueuePush
    <3> QED BY <2>1, <3>1
  <2>3. UNCHANGED <<box, lastPush, tuned, avt, http>>
    BY <1>2 DEF QueuePush
  <2> QED BY <2>1, <2>2, <2>3 DEF MailInv
<1>3. ASSUME NEW c \in Channels, ChannelTune(c)
      PROVE  MailInv'
  BY <1>3 DEF MailInv, HttpStages, Known, ChannelTune
<1>4. CASE FilePost
  BY <1>4 DEF MailInv, Known, FilePost, Boxed
<1>5. CASE FileDelete
  BY <1>5 DEF MailInv, Known, FileDelete
<1>6. CASE StopPost \/ QuitPost
  BY <1>6 DEF MailInv, StopPost, QuitPost
<1>7. CASE DlnaPlay
  BY <1>7 DEF MailInv, HttpStages, Known, DlnaPlay, Boxed
<1>8. CASE DlnaStop
  BY <1>8 DEF MailInv, HttpStages, Known, DlnaStop
<1>9. CASE CastPost \/ ChannelPost \/ SetUriStop
  <2>1. CASE CastPost
    BY <2>1 DEF MailInv, HttpStages, CastPost, Boxed, Idle
  <2>2. CASE ChannelPost
    BY <2>2 DEF MailInv, HttpStages, ChannelPost, Boxed, Idle
  <2>3. CASE SetUriStop
    BY <2>3 DEF MailInv, HttpStages, SetUriStop, Idle
  <2> QED BY <1>9, <2>1, <2>2, <2>3
<1>10. CASE SetUriTitle
  BY <1>10 DEF MailInv, HttpStages, Known, SetUriTitle, Idle
<1>11. CASE DlnaDone
  BY <1>11 DEF MailInv, HttpStages, Known, DlnaDone, Idle
<1> QED
  BY <1>1, <1>2, <1>3, <1>4, <1>5, <1>6, <1>7, <1>8, <1>9, <1>10, <1>11
  DEF HttpBegins, HttpContinues

LEMMA MailFrameKeeps ==
  ASSUME MailInv, Frame
  PROVE  MailInv'
<1>1. CASE ResumeRests \/ ResumeSeeks \/ ResumeSaves \/ SettledOpens \/ PadQuiet \/ PadStops
           \/ NoQuit \/ SeesStarted \/ StillOn \/ Dropped \/ Finished \/ Retry \/ DrawsNothing
           \/ DrawRestarts \/ Draws \/ DrawEndsBare
  <2>1. UNCHANGED <<box, playlist, lastPush, tuned, avt, http>>
    BY <1>1 DEF mailbox, ResumeRests, ResumeSeeks, ResumeSaves, SettledOpens, PadQuiet, PadStops,
       NoQuit, SeesStarted, StillOn, Dropped, Finished, Retry, DrawsNothing, DrawRestarts, Draws,
       DrawEndsBare
  <2> QED BY <2>1 DEF MailInv
<1>2. ASSUME NEW c \in Channels, PadTunes(c)
      PROVE  MailInv'
  BY <1>2, MediaFacts DEF MailInv, PadTunes
<1>3. CASE Leaves
  BY <1>3 DEF MailInv, Leaves
<1>4. CASE TakeStop
  BY <1>4 DEF MailInv, TakeStop
<1>5. CASE TakePlay
  BY <1>5 DEF MailInv, TakePlay, Starts
<1>6. CASE TakeCast
  BY <1>6 DEF MailInv, TakeCast, Starts
<1>7. CASE TakeNext
  <2>1. /\ Head(playlist) \in Urls /\ Tail(playlist) \in Seq(Urls)
        /\ Len(Tail(playlist)) = Len(playlist) - 1
    BY <1>7, HeadTailProperties DEF MailInv, TakeNext
  <2>2. Len(playlist') <= QueueCap
    <3>1. Len(playlist) \in Nat /\ QueueCap \in Nat /\ Len(playlist) <= QueueCap
      BY BoundsAssumption, LenProperties DEF MailInv
    <3>2. playlist' = Tail(playlist)
      BY <1>7 DEF TakeNext
    <3> QED BY <2>1, <3>1, <3>2
  <2> QED BY <1>7, <2>1, <2>2, MediaFacts DEF MailInv, TakeNext
<1> QED BY <1>1, <1>2, <1>3, <1>4, <1>5, <1>6, <1>7 DEF Frame

LEMMA MailKeeps ==
  ASSUME MailInv, [Next]_vars
  PROVE  MailInv'
<1>1. CASE HttpBegins \/ HttpContinues
  BY <1>1, MailHttpKeeps
<1>2. CASE Frame
  BY <1>2, MailFrameKeeps
<1>3. CASE TimePasses \/ Worker \/ DecoderFails \/ UNCHANGED vars
  <2>1. UNCHANGED <<box, playlist, lastPush, tuned, avt, http>>
    BY <1>3 DEF TimePasses, Worker, OpenBegins, OpenEnds, OpenSuperseded, DecoderFails, mailbox,
       vars
  <2> QED BY <2>1 DEF MailInv
<1> QED BY <1>1, <1>2, <1>3 DEF Next, Quietly

-----------------------------------------------------------------------------
(* The main loop.                                                            *)

\* What a move to the next stage leaves as it was.
Kept ==
  /\ DOMAIN m' = DOMAIN m /\ m'.saw = m.saw /\ m'.key \in Known /\ m'.user \in BOOLEAN
  /\ m'.seeking \in BOOLEAN /\ m'.iptv \in BOOLEAN /\ m'.live \in BOOLEAN
  /\ m'.at \in Stages /\ m'.at # "over"

LEMMA LoopMoves ==
  ASSUME LoopInv, Kept, m'.retrying = m.retrying, m'.tries = m.tries, m'.retry = m.retry,
         m'.due \in BOOLEAN, m.at # "exit",
         wanted' = wanted \/ wanted' # NoSpec \/ m'.at = "exit"
  PROVE  LoopInv'
BY DEF LoopInv, Kept

LEMMA LoopDisarms ==
  ASSUME LoopInv, Kept, m'.retrying = FALSE, m'.tries = 0, m'.retry = NoSpec, m'.due = FALSE
  PROVE  LoopInv'
<1>1. 0 \in 0 .. MaxReconnect
  BY BoundsAssumption
<1> QED BY <1>1, MediaFacts DEF LoopInv, Kept

LEMMA LoopMarksTime ==
  ASSUME LoopInv, MailInv, UNCHANGED wanted,
         ResumeRests \/ ResumeSeeks \/ ResumeSaves \/ TimePasses
  PROVE  LoopInv'
<1>1. CASE ResumeRests
  <2>1. PICK u \in Users :
          m' = [m EXCEPT !.at = "settled", !.user = u, !.key = IF Opening THEN @ ELSE NoSpec]
    BY <1>1 DEF ResumeRests
  <2>2. u \in BOOLEAN /\ m.at = "top"
    BY <1>1, CommandsAssumption DEF ResumeRests, At
  <2>3. Kept
    BY <2>1, <2>2, MediaFacts DEF LoopInv, Kept, Stages
  <2>4. /\ m'.retrying = m.retrying /\ m'.tries = m.tries /\ m'.retry = m.retry
        /\ m'.due = m.due /\ m.due \in BOOLEAN
    BY <2>1 DEF LoopInv
  <2> QED BY <2>2, <2>3, <2>4, LoopMoves
<1>2. CASE ResumeSeeks
  <2>1. PICK u \in Users, still \in BOOLEAN :
          m' = [m EXCEPT !.at = "settled", !.user = u, !.key = Key, !.seeking = still]
    BY <1>2 DEF ResumeSeeks
  <2>2. u \in BOOLEAN /\ m.at = "top" /\ Key \in Known
    BY <1>2, CommandsAssumption DEF ResumeSeeks, At, Key, LoopInv, MailInv
  <2>3. Kept
    BY <2>1, <2>2 DEF LoopInv, Kept, Stages
  <2>4. /\ m'.retrying = m.retrying /\ m'.tries = m.tries /\ m'.retry = m.retry
        /\ m'.due = m.due /\ m.due \in BOOLEAN
    BY <2>1 DEF LoopInv
  <2> QED BY <2>2, <2>3, <2>4, LoopMoves
<1>3. CASE ResumeSaves
  BY <1>3, CommandsAssumption DEF LoopInv, Stages, ResumeSaves, At
<1>4. CASE TimePasses
  BY <1>4 DEF LoopInv, TimePasses
<1> QED BY <1>1, <1>2, <1>3, <1>4

LEMMA LoopGoesOn ==
  ASSUME LoopInv, UNCHANGED wanted,
         SettledOpens \/ PadQuiet \/ NoQuit \/ StillOn \/ DrawsNothing \/ Draws \/ DrawEndsBare
  PROVE  LoopInv'
<1>1. CASE SettledOpens
  BY <1>1 DEF LoopInv, Stages, SettledOpens, At
<1>2. CASE PadQuiet \/ NoQuit
  BY <1>2 DEF LoopInv, Stages, PadQuiet, NoQuit, At
<1>3. CASE StillOn
  BY <1>3 DEF LoopInv, Stages, StillOn, Judged, At
<1>4. CASE DrawsNothing \/ DrawEndsBare
  BY <1>4 DEF LoopInv, Stages, DrawsNothing, DrawEndsBare, At
<1>5. CASE Draws
  <2>1. m' = [Unarmed(m) EXCEPT !.at = "top", !.live = stream.spec \in Live]
    BY <1>5 DEF Draws
  <2>2. Kept
    BY <2>1 DEF LoopInv, Kept, Stages, Unarmed
  <2>3. m'.retrying = FALSE /\ m'.tries = 0 /\ m'.retry = NoSpec /\ m'.due = FALSE
    BY <2>1 DEF LoopInv, Unarmed
  <2> QED BY <2>2, <2>3, LoopDisarms
<1> QED BY <1>1, <1>2, <1>3, <1>4, <1>5

LEMMA LoopTakes ==
  ASSUME LoopInv, MailInv, (\E c \in Channels : PadTunes(c)) \/ PadStops \/ Leaves \/ TakeStop
         \/ TakePlay \/ TakeCast
  PROVE  LoopInv'
<1> USE MediaFacts, BoundsAssumption
<1>1. ASSUME NEW c \in Channels, PadTunes(c)
      PROVE  LoopInv'
  BY <1>1 DEF LoopInv, Stages, PadTunes, AskPlay, Unarmed, At
<1>2. CASE PadStops
  BY <1>2 DEF LoopInv, Stages, PadStops, Stops, Unarmed, At
<1>3. CASE Leaves
  <2>1. m' = [m EXCEPT !.at = "exit"] /\ m.at # "exit"
    BY <1>3 DEF Leaves, At
  <2>2. Kept
    BY <2>1 DEF LoopInv, Kept, Stages
  <2>3. /\ m'.at = "exit" /\ m'.retrying = m.retrying /\ m'.tries = m.tries
        /\ m'.retry = m.retry /\ m'.due = m.due /\ m.due \in BOOLEAN
    BY <2>1 DEF LoopInv
  <2> QED BY <2>1, <2>2, <2>3, LoopMoves
<1>4. CASE TakeStop
  <2>1. CASE box.stop
    <3>1. m' = [Unarmed(m) EXCEPT !.at = "play"]
      BY <1>4, <2>1 DEF TakeStop, Stops
    <3>2. Kept
      BY <3>1 DEF LoopInv, Kept, Stages, Unarmed
    <3>3. m'.retrying = FALSE /\ m'.tries = 0 /\ m'.retry = NoSpec /\ m'.due = FALSE
      BY <3>1 DEF LoopInv, Unarmed
    <3> QED BY <3>2, <3>3, LoopDisarms
  <2>2. CASE ~box.stop
    BY <1>4, <2>2 DEF LoopInv, Stages, TakeStop, At
  <2> QED BY <2>1, <2>2
<1>5. CASE TakePlay
  <2>1. CASE box.play /\ m.user
    <3>1. m' = [Unarmed(m) EXCEPT !.at = "cast", !.iptv = FALSE]
      BY <1>5, <2>1 DEF TakePlay, Starts
    <3>2. Kept
      BY <3>1 DEF LoopInv, Kept, Stages, Unarmed
    <3>3. m'.retrying = FALSE /\ m'.tries = 0 /\ m'.retry = NoSpec /\ m'.due = FALSE
      BY <3>1 DEF LoopInv, Unarmed
    <3> QED BY <3>2, <3>3, LoopDisarms
  <2>2. CASE ~(box.play /\ m.user)
    <3>1. /\ m.at # "exit" /\ UNCHANGED wanted
          /\ \/ m' = [m EXCEPT !.at = "cast"]
             \/ m' = [m EXCEPT !.at = "cast", !.iptv = FALSE]
      BY <1>5, <2>2 DEF TakePlay, Starts, At
    <3>2. Kept
      BY <3>1, ZenonT(40) DEF LoopInv, Kept, Stages
    <3>3. /\ m'.retrying = m.retrying /\ m'.tries = m.tries /\ m'.retry = m.retry
          /\ m'.due = m.due /\ m.due \in BOOLEAN
      BY <3>1 DEF LoopInv
    <3> QED BY <3>1, <3>2, <3>3, LoopMoves
  <2> QED BY <2>1, <2>2
<1>6. CASE TakeCast
  <2>1. CASE box.player # 0 /\ m.user
    <3>1. m' = [Unarmed(m) EXCEPT !.at = "ended", !.iptv = box.player = 2]
      BY <1>6, <2>1 DEF TakeCast, Starts
    <3>2. Kept
      BY <3>1 DEF LoopInv, Kept, Stages, Unarmed
    <3>3. m'.retrying = FALSE /\ m'.tries = 0 /\ m'.retry = NoSpec /\ m'.due = FALSE
      BY <3>1 DEF LoopInv, Unarmed
    <3> QED BY <3>2, <3>3, LoopDisarms
  <2>2. CASE ~(box.player # 0 /\ m.user)
    <3>1. /\ m.at # "exit" /\ UNCHANGED wanted
          /\ \/ m' = [m EXCEPT !.at = "ended"]
             \/ m' = [m EXCEPT !.at = "ended", !.iptv = box.player = 2]
      BY <1>6, <2>2 DEF TakeCast, Starts, At
    <3>2. Kept
      BY <3>1, ZenonT(40) DEF LoopInv, Kept, Stages
    <3>3. /\ m'.retrying = m.retrying /\ m'.tries = m.tries /\ m'.retry = m.retry
          /\ m'.due = m.due /\ m.due \in BOOLEAN
      BY <3>1 DEF LoopInv
    <3> QED BY <3>1, <3>2, <3>3, LoopMoves
  <2> QED BY <2>1, <2>2
<1> QED BY <1>1, <1>2, <1>3, <1>4, <1>5, <1>6

LEMMA LoopJudges ==
  ASSUME RequestInv, LoopInv, SeesStarted \/ TakeNext \/ Dropped \/ Finished
  PROVE  LoopInv'
<1> USE MediaFacts, BoundsAssumption
<1>1. CASE SeesStarted
  <2>1. Started => wanted # NoSpec
    BY StartedIsAsked
  <2>2. (Started /\ ~m.retrying) \in BOOLEAN
    OBVIOUS
  <2> QED BY <1>1, <2>1, <2>2 DEF LoopInv, Stages, SeesStarted, At
<1>2. CASE TakeNext
  BY <1>2 DEF LoopInv, Stages, TakeNext, Judged, Unarmed, At
<1>3. CASE Dropped
  <2>1. stream.spec \in Media
    BY <1>3 DEF RequestInv, Known, Dropped
  <2>2. wanted # NoSpec /\ UNCHANGED wanted
    BY <1>3 DEF LoopInv, Dropped, At
  <2>3. m' = [Judged(Unarmed(m)) EXCEPT !.retrying = TRUE, !.retry = stream.spec]
    BY <1>3 DEF Dropped
  <2>4. /\ DOMAIN m' = DOMAIN m /\ m'.at = "retry" /\ m'.user = TRUE /\ m'.saw = FALSE
        /\ m'.key = m.key /\ m'.seeking = m.seeking /\ m'.iptv = m.iptv /\ m'.live = m.live
        /\ m'.retrying = TRUE /\ m'.tries = 0 /\ m'.retry = stream.spec /\ m'.due = FALSE
    BY <2>3 DEF LoopInv, Judged, Unarmed
  <2>5. 0 \in 0 .. MaxReconnect
    OBVIOUS
  <2> QED BY <2>1, <2>2, <2>4, <2>5 DEF LoopInv, Stages, Known
<1>4. CASE Finished
  BY <1>4 DEF LoopInv, Stages, Finished, Judged, At
<1> QED BY <1>1, <1>2, <1>3, <1>4

LEMMA LoopRetries ==
  ASSUME RequestInv, LoopInv, Retry \/ DrawRestarts
  PROVE  LoopInv'
<1> USE MediaFacts, BoundsAssumption
<1>1. CASE Retry /\ ~(m.retrying /\ ~Opening /\ m.due)
  BY <1>1 DEF LoopInv, Stages, Retry, At
<1>2. CASE Retry /\ m.retrying /\ ~Opening /\ m.due /\ m.tries >= MaxReconnect
  <2>1. m' = [Unarmed(m) EXCEPT !.at = "draw"]
    BY <1>2 DEF Retry
  <2>2. Kept
    BY <2>1 DEF LoopInv, Kept, Stages, Unarmed
  <2>3. m'.retrying = FALSE /\ m'.tries = 0 /\ m'.retry = NoSpec /\ m'.due = FALSE
    BY <2>1 DEF LoopInv, Unarmed
  <2> QED BY <2>2, <2>3, LoopDisarms
<1>3. CASE Retry /\ m.retrying /\ ~Opening /\ m.due /\ ~(m.tries >= MaxReconnect)
  <2>1. /\ wanted' = m.retry /\ wanted' # NoSpec
        /\ m' = [m EXCEPT !.at = "draw", !.tries = Attempt, !.due = FALSE]
    BY <1>3 DEF LoopInv, Retry, AskPlay
  <2>2. Attempt \in 0 .. MaxReconnect
    BY <1>3 DEF LoopInv, Attempt
  <2> QED BY <2>1, <2>2 DEF LoopInv, Stages, At
<1>4. CASE DrawRestarts
  <2>1. wanted' # NoSpec
    BY <1>4, StartedIsWanted DEF DrawRestarts, AskPlay
  <2> QED BY <1>4, <2>1 DEF LoopInv, Stages, DrawRestarts, At
<1> QED BY <1>1, <1>2, <1>3, <1>4

LEMMA LoopKeeps ==
  ASSUME RequestInv, MailInv, LoopInv, [Next]_vars
  PROVE  LoopInv'
<1>1. CASE HttpBegins \/ HttpContinues
  BY <1>1, HttpEffects DEF LoopInv, At
<1>2. CASE Worker \/ DecoderFails \/ UNCHANGED vars
  <2>1. UNCHANGED <<m, wanted>>
    BY <1>2 DEF Worker, OpenBegins, OpenEnds, OpenSuperseded, DecoderFails, vars
  <2> QED BY <2>1 DEF LoopInv
<1>3. CASE ResumeRests \/ ResumeSeeks \/ ResumeSaves \/ TimePasses
  <2>1. UNCHANGED wanted
    BY <1>3 DEF ResumeRests, ResumeSeeks, ResumeSaves, TimePasses
  <2> QED BY <1>3, <2>1, LoopMarksTime
<1>4. CASE SettledOpens \/ PadQuiet \/ NoQuit \/ StillOn \/ DrawsNothing \/ Draws \/ DrawEndsBare
  <2>1. UNCHANGED wanted
    BY <1>4 DEF SettledOpens, PadQuiet, NoQuit, StillOn, DrawsNothing, Draws, DrawEndsBare
  <2> QED BY <1>4, <2>1, LoopGoesOn
<1>5. CASE (\E c \in Channels : PadTunes(c)) \/ PadStops \/ Leaves \/ TakeStop \/ TakePlay
           \/ TakeCast
  BY <1>5, LoopTakes
<1>6. CASE SeesStarted \/ TakeNext \/ Dropped \/ Finished
  BY <1>6, LoopJudges
<1>7. CASE Retry \/ DrawRestarts
  BY <1>7, LoopRetries
<1> QED BY <1>1, <1>2, <1>3, <1>4, <1>5, <1>6, <1>7 DEF Next, Quietly, Frame

-----------------------------------------------------------------------------
(* What the reconnect driver goes after.                                     *)

Attempts == Retry /\ m.retrying /\ ~Opening /\ m.due /\ m.tries < MaxReconnect

\* What a step leaves of what the driver is armed for, of what main wants and of what is up.
SameRetry == m'.retrying = m.retrying /\ m'.retry = m.retry /\ m.at # "exit" /\ wanted' = wanted
SameStream == Opening' = Opening /\ stream'.started = stream.started

\* A step disarms the driver, arms it, lets it ask, restarts what is up, or leaves it as it is.
LEMMA FrameRetries ==
  ASSUME LoopInv, RequestInv, Frame
  PROVE  \/ ~m'.retrying \/ m'.at = "exit" \/ Dropped \/ Attempts \/ DrawRestarts
         \/ SameRetry /\ SameStream
<1> USE DEF LoopInv, At, SameRetry
<1>1. CASE ResumeRests \/ ResumeSeeks \/ ResumeSaves
  <2>1. UNCHANGED <<request, stream, wanted>>
    BY <1>1 DEF ResumeRests, ResumeSeeks, ResumeSaves
  <2>2. SameRetry
    BY <1>1, <2>1 DEF ResumeRests, ResumeSeeks, ResumeSaves
  <2> QED BY <2>1, <2>2 DEF SameStream, Opening, request
<1>2. CASE SettledOpens
  <2>1. SameRetry /\ UNCHANGED stream
    BY <1>2 DEF SettledOpens
  <2>2. Opening' = Opening
    BY <1>2 DEF SettledOpens, Player!Report, Opening, request
  <2> QED BY <2>1, <2>2 DEF SameStream
<1>3. CASE PadQuiet \/ NoQuit \/ SeesStarted \/ StillOn \/ DrawsNothing
  <2>1. UNCHANGED <<request, stream, wanted>>
    BY <1>3 DEF PadQuiet, NoQuit, SeesStarted, StillOn, DrawsNothing
  <2>2. SameRetry
    BY <1>3, <2>1 DEF PadQuiet, NoQuit, SeesStarted, StillOn, Judged, DrawsNothing
  <2> QED BY <2>1, <2>2 DEF SameStream, Opening, request
<1>4. CASE (\E c \in Channels : PadTunes(c)) \/ PadStops \/ TakeNext \/ Draws
  BY <1>4 DEF PadTunes, PadStops, Stops, TakeNext, Draws, Judged, Unarmed
<1>5. CASE Leaves
  BY <1>5 DEF Leaves
<1>6. CASE TakeStop
  <2>1. CASE box.stop
    BY <1>6, <2>1 DEF TakeStop, Stops, Unarmed
  <2>2. CASE ~box.stop
    BY <1>6, <2>2 DEF TakeStop, SameStream, Opening, request
  <2> QED BY <2>1, <2>2
<1>7. CASE TakePlay \/ TakeCast
  <2>1. PICK at \in Stages \ {"exit"}, iptv \in BOOLEAN :
          \/ m' = [Unarmed(m) EXCEPT !.at = at, !.iptv = iptv]
          \/ m' \in {[m EXCEPT !.at = at, !.iptv = iptv], [m EXCEPT !.at = at]} /\ UNCHANGED <<request, wanted>>
    BY <1>7 DEF TakePlay, TakeCast, Starts, Stages
  <2>2. UNCHANGED stream /\ m.at # "exit"
    BY <1>7 DEF TakePlay, TakeCast
  <2>3. CASE m' = [Unarmed(m) EXCEPT !.at = at, !.iptv = iptv]
    BY <2>3 DEF Unarmed
  <2>4. CASE m' \in {[m EXCEPT !.at = at, !.iptv = iptv], [m EXCEPT !.at = at]} /\ UNCHANGED <<request, wanted>>
    BY <2>2, <2>4 DEF SameStream, Opening, request
  <2> QED BY <2>1, <2>3, <2>4
<1>8. CASE Finished
  BY <1>8 DEF Finished, Judged
<1>9. CASE Retry /\ ~Attempts
  <2>1. CASE m.retrying /\ ~Opening /\ m.due
    <3>1. m.tries >= MaxReconnect
      BY <1>9, <2>1, BoundsAssumption DEF Attempts
    <3> QED BY <1>9, <2>1, <3>1 DEF Retry, Unarmed
  <2>2. CASE ~(m.retrying /\ ~Opening /\ m.due)
    BY <1>9, <2>2 DEF Retry, SameStream, Opening, request
  <2> QED BY <2>1, <2>2
<1>10. CASE DrawEndsBare
  BY <1>10 DEF DrawEndsBare, RequestInv, SameStream, Opening, request
<1> QED BY <1>1, <1>2, <1>3, <1>4, <1>5, <1>6, <1>7, <1>8, <1>9, <1>10 DEF Frame

LEMMA RetryKeeps ==
  ASSUME RequestInv, LoopInv, RetriesWhatWasAsked, [Next]_vars
  PROVE  RetriesWhatWasAsked'
<1> SUFFICES ASSUME m'.retrying, m'.at # "exit"
             PROVE  m'.retry = wanted' \/ (~Opening' /\ ~stream'.started)
  BY DEF RetriesWhatWasAsked, At
<1>1. CASE SameRetry /\ SameStream
  BY <1>1 DEF RetriesWhatWasAsked, At, SameRetry, SameStream
<1>2. CASE Dropped
  <2>1. ~Active /\ wanted # NoSpec /\ UNCHANGED <<request, stream, wanted>>
    BY <1>2 DEF Dropped, LoopInv, At
  <2>2. ~Opening
    BY <2>1 DEF RequestInv, Active
  <2>3. m'.retry = stream.spec
    BY <1>2 DEF Dropped, LoopInv, Judged, Unarmed
  <2>4. stream.started => stream.spec = wanted
    BY <2>2, StartedIsWanted
  <2> QED BY <2>1, <2>2, <2>3, <2>4 DEF Opening, request
<1>3. CASE Attempts
  <2>1. ~(m.tries >= MaxReconnect)
    BY <1>3, BoundsAssumption DEF Attempts, LoopInv
  <2> QED BY <1>3, <2>1 DEF Attempts, Retry, AskPlay, LoopInv
<1>4. CASE DrawRestarts
  <2>1. stream.started /\ ~Opening /\ wanted' = stream.spec /\ m.at = "draw"
        /\ m'.retrying = m.retrying /\ m'.retry = m.retry
    BY <1>4 DEF DrawRestarts, AskPlay, LoopInv, At
  <2>2. stream.spec = wanted
    BY <2>1, StartedIsWanted
  <2> QED BY <2>1, <2>2 DEF RetriesWhatWasAsked, At
<1>5. CASE Frame
  BY <1>1, <1>2, <1>3, <1>4, <1>5, FrameRetries
<1>6. CASE Worker
  <2>1. UNCHANGED <<m, wanted>> /\ Opening
    BY <1>6 DEF Worker, OpenBegins, OpenEnds, OpenSuperseded, Player!Begin, Player!Complete,
       Player!Abandon, Opening, RequestInv
  <2> QED BY <2>1 DEF RetriesWhatWasAsked, At
<1>7. CASE DecoderFails \/ TimePasses \/ HttpBegins \/ HttpContinues \/ UNCHANGED vars
  <2>1. SameStream /\ UNCHANGED wanted
    BY <1>7, HttpEffects DEF DecoderFails, TimePasses, RequestInv, SameStream, Opening, request, vars
  <2>2. m'.retrying = m.retrying /\ m'.retry = m.retry /\ m'.at = m.at
    BY <1>7, HttpEffects DEF DecoderFails, TimePasses, LoopInv, At, vars
  <2> QED BY <1>1, <2>1, <2>2 DEF SameRetry
<1> QED BY <1>5, <1>6, <1>7 DEF Next, Quietly

-----------------------------------------------------------------------------
(* The positions.                                                            *)

\* A position changes only where it is saved.
LEMMA OnlySavesChange ==
  ASSUME [Next]_vars
  PROVE  UNCHANGED resume \/ ResumeSaves
<1>1. CASE HttpBegins \/ HttpContinues
  BY <1>1, HttpEffects
<1>2. CASE TimePasses \/ Worker \/ DecoderFails \/ UNCHANGED vars
  BY <1>2 DEF TimePasses, Worker, OpenBegins, OpenEnds, OpenSuperseded, DecoderFails, vars
<1>3. CASE Frame
  BY <1>3 DEF Frame, ResumeRests, ResumeSeeks, SettledOpens, PadQuiet, PadTunes, PadStops,
     Leaves, NoQuit, TakeStop, TakePlay, TakeCast, SeesStarted, StillOn, TakeNext, Dropped,
     Finished, Retry, DrawsNothing, DrawRestarts, Draws, DrawEndsBare
<1> QED BY <1>1, <1>2, <1>3 DEF Next, Quietly

LEMMA PositionsKeep ==
  ASSUME RequestInv, LoopInv, resume \in [Media -> Known], [Next]_vars
  PROVE  resume' \in [Media -> Known]
<1>1. CASE UNCHANGED resume
  BY <1>1
<1>2. CASE ResumeSaves
  <2>1. stream.spec \in Known /\ NoSpec \in Known
    BY MediaFacts DEF RequestInv
  <2>2. \/ UNCHANGED resume
        \/ \E p \in {NoSpec, stream.spec} : resume' = [resume EXCEPT ![m.key] = p]
    BY <1>2 DEF ResumeSaves
  <2> QED BY <2>1, <2>2
<1> QED BY <1>1, <1>2, OnlySavesChange

-----------------------------------------------------------------------------
(* The theorems.                                                             *)

LEMMA ReceiverStarts ==
  ASSUME Init
  PROVE  ReceiverInv
<1>1. RequestInv
  BY MediaFacts DEF Init, Player!Init, NoStream, RequestInv
<1>2. MailInv
  <2>1. playlist \in Seq(Urls) /\ Len(playlist) <= QueueCap
    BY BoundsAssumption DEF Init
  <2> QED BY <2>1, MediaFacts DEF Init, EmptyBox, Idle, HttpStages, MailInv
<1>3. LoopInv
  BY MediaFacts, BoundsAssumption DEF Init, Stages, LoopInv
<1>4. resume \in [Media -> Known]
  BY MediaFacts DEF Init
<1>5. RetriesWhatWasAsked
  BY DEF Init, RetriesWhatWasAsked
<1> QED BY <1>1, <1>2, <1>3, <1>4, <1>5 DEF ReceiverInv

\* The request, the mailbox, the main loop and the saved positions hold together in every state
\* the receiver reaches (main.c, httpd.c, player_ff.c).
THEOREM ReceiverInvariant == Spec => []ReceiverInv
<1>1. Init => ReceiverInv
  BY ReceiverStarts
<1>2. ReceiverInv /\ [Next]_vars => ReceiverInv'
  <2> SUFFICES ASSUME ReceiverInv, [Next]_vars
               PROVE  ReceiverInv'
    OBVIOUS
  <2>1. RequestInv /\ MailInv /\ LoopInv /\ RetriesWhatWasAsked /\ resume \in [Media -> Known]
    BY DEF ReceiverInv
  <2>2. RequestInv'
    BY <2>1, StepEffects, RequestKeeps
  <2> QED BY <2>1, <2>2, MailKeeps, LoopKeeps, RetryKeeps, PositionsKeep DEF ReceiverInv
<1> QED BY <1>1, <1>2, PTL DEF Spec

\* After a stop nothing starts playing by itself: no play request is under way and the reconnect
\* driver is off until the viewer asks for something (main.c, player_stop and the reconnects).
THEOREM StopIsFinal == Spec => []StoppedStaysStopped
<1>1. ReceiverInv => StoppedStaysStopped
  BY DEF ReceiverInv, RequestInv, LoopInv, StoppedStaysStopped, At
<1> QED BY <1>1, ReceiverInvariant, PTL

\* The reconnect driver goes after what main last asked for, or after something else once that
\* has failed to open: never while it is up or opens (main.c, reconnectSpec).
THEOREM RetriesAreAsked == Spec => []RetriesWhatWasAsked
BY ReceiverInvariant, PTL DEF ReceiverInv

\* A position is saved under the title of the video it was measured on (main.c, "resume").
THEOREM PositionsAreNamed == Spec => ResumeNamesItsStream
<1>1. ReceiverInv /\ [Next]_vars =>
        [\A u \in Media :
           resume'[u] # resume[u] /\ lastPush = wanted /\ ~Opening => u = stream.spec]_vars
  <2> SUFFICES ASSUME ReceiverInv, [Next]_vars, NEW u \in Media, resume'[u] # resume[u],
                      lastPush = wanted, ~Opening
               PROVE  u = stream.spec
    OBVIOUS
  <2>1. RequestInv /\ resume \in [Media -> Known]
    BY DEF ReceiverInv
  <2>2. ResumeSaves
    BY OnlySavesChange
  <2>3. PICK p : resume' = [resume EXCEPT ![m.key] = p]
    BY <2>2 DEF ResumeSaves
  <2>4. u = m.key
    BY <2>1, <2>3
  <2>5. stream.spec = wanted /\ wanted # NoSpec
    BY <2>1, <2>2, StartedIsWanted, MediaFacts DEF ResumeSaves
  <2>6. m.key = lastPush
    BY <2>2, <2>5 DEF ResumeSaves, Key
  <2> QED BY <2>4, <2>5, <2>6
<1> QED BY <1>1, ReceiverInvariant, PTL DEF Spec, ResumeNamesItsStream
=============================================================================
