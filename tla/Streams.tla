------------------------------ MODULE Streams ------------------------------
\* A stream in segments and what runs beside its segment pipeline: the worker and the reader
\* of a separate audio rendition, and the audio device. They share no state in the model, so
\* one run takes one of them: "part" says which, and the others stay as they start.
EXTENDS Segments, Rendition, Sound

CONSTANT Parts
ASSUME PartsAssumption == Parts \subseteq {"segments", "rendition", "sound"}

VARIABLE part
streamsVars == <<part, vars, rendVars, soundVars>>

StreamsInit ==
  /\ part \in Parts /\ Init /\ RenditionInit /\ SoundInit
  /\ part # "segments" => hls.reset = 0 /\ kind = CHOOSE k \in Kinds : TRUE

Segmented(A) == part = "segments" /\ A /\ UNCHANGED <<part, rendVars, soundVars>>
Rendered(A) == part = "rendition" /\ A /\ UNCHANGED <<part, vars, soundVars>>
Sounded(A) == part = "sound" /\ A /\ UNCHANGED <<part, vars, rendVars>>

StreamsNext == Segmented(Next) \/ Rendered(RenditionNext) \/ Sounded(SoundNext)
StreamsSpec == StreamsInit /\ [][StreamsNext]_streamsVars

\* The fairness of each part; a conjunct serves several of them, of which one runs. Threads
\* run, and time passes: a wait that keeps coming back is given up in the end, a fetch ends,
\* well or badly. Nobody has to stop or seek.
StreamsFair ==
  /\ StreamsSpec
  /\ WF_streamsVars(Segmented(Publish))
  /\ WF_streamsVars(Segmented(Prefetch) \/ Rendered(Working))
  /\ WF_streamsVars(Segmented(ReaderStep) \/ Rendered(AudioReading))
  /\ WF_streamsVars(Segmented(FetcherStep))
  /\ WF_streamsVars(Segmented(StopStep) \/ Rendered(RenditionStopping))
  /\ SF_streamsVars(Segmented(GivesUp("reader")))

\* A stop of the stream gets its way: both threads are joined and the stream is closed. A
\* seek, an interruption and a teardown of the rendition get its worker and its reader out
\* of every wait.
StopsEnd == (Stopped \/ sp # NoStop) ~> (stopper \in {"none", "closed"} /\ sp = NoStop)

\* Of each part: nobody waits for good, what is listed is handed over, and a stop ends.
StreamsEnd == <>(part # "segments" \/ PlayedOut) /\ StopsEnd
=============================================================================
