------------------------------ MODULE Services ------------------------------
\* The threads that serve the player from the side: the jobs and the events of the
\* HTTP server, subtitles, discovery, the programme guide and the channel list; and the request
\* queue of the player on its own, with numbers that wrap. They share no state in the
\* model, so one run takes them one at a time: "service" says whose it is, and the
\* others stay as they start.
EXTENDS Jobs, Events, Subtitles, Reachability, GuideLoad, Channels

CONSTANTS Specs, NoSpec, Outcomes, NoOutcome, SeqMod

VARIABLES service, openq, taken
servicesVars ==
  <<service, jobsVars, eventsVars, subtitlesVars, reachVars, guideVars, channelsVars,
    openq, taken>>

Queue == INSTANCE OpenQueue WITH q <- openq, job <- taken

\* Discovery starts without an address and the guide without a link where they are not
\* the service of the run: both are states the console starts in.
ServicesInit ==
  /\ service \in {"jobs", "events", "subtitles", "reach", "guide", "channels", "queue"}
  /\ JobsInit /\ EventsInit /\ SubtitlesInit /\ ReachInit /\ GuideInit /\ ChannelsInit
  /\ Queue!QueueInit
  /\ service # "reach" => address = NoAddress
  /\ service # "guide" => link = NoLink

Of(name) == service = name /\ UNCHANGED service
NotJobs == UNCHANGED jobsVars
NotEvents == UNCHANGED eventsVars
NotSubtitles == UNCHANGED subtitlesVars
NotReach == UNCHANGED reachVars
NotGuide == UNCHANGED guideVars
NotRest == UNCHANGED <<channelsVars, openq, taken>>

Job(A) == Of("jobs") /\ A /\ NotEvents /\ NotSubtitles /\ NotReach /\ NotGuide /\ NotRest
Event(A) == Of("events") /\ A /\ NotJobs /\ NotSubtitles /\ NotReach /\ NotGuide /\ NotRest
Subtitle(A) == Of("subtitles") /\ A /\ NotJobs /\ NotEvents /\ NotReach /\ NotGuide /\ NotRest
Reach(A) == Of("reach") /\ A /\ NotJobs /\ NotEvents /\ NotSubtitles /\ NotGuide /\ NotRest
Guide(A) == Of("guide") /\ A /\ NotJobs /\ NotEvents /\ NotSubtitles /\ NotReach /\ NotRest

NotSide == NotJobs /\ NotEvents /\ NotSubtitles /\ NotReach /\ NotGuide
Channelled(A) == Of("channels") /\ A /\ NotSide /\ UNCHANGED <<openq, taken>>
Opening(A) == Of("queue") /\ A /\ NotSide /\ UNCHANGED channelsVars

ServicesNext ==
  \/ Job(JobsNext) \/ Event(EventsNext) \/ Subtitle(SubtitlesNext)
  \/ Reach(ReachNext) \/ Guide(GuideNext)
  \/ Channelled(ChannelsNext) \/ Opening(Queue!QueueNext)

\* The fairness of each service; a conjunct serves several of them, of which one runs.
ServicesSpec ==
  /\ ServicesInit /\ [][ServicesNext]_servicesVars
  /\ WF_servicesVars(Event(EventStep) \/ Reach(Monitoring) \/ Guide(Guiding))
  /\ WF_servicesVars(Reach(Discovering) \/ Guide(Tick))
  /\ WF_servicesVars(Reach(Showing))

\* The queue keeps every promise of LatestWins (openq.h, "Rules") also where the number
\* of a request wraps: 0 means none, and a number is compared for being the newest.
LatestWinsAcrossTheWrap == Queue!ImplementsLatestWins
=============================================================================
