----------------------------- MODULE GuideLoad -----------------------------
\* epg.c: the thread that keeps the programme guide. It looks every few seconds whether
\* link, channel list or time ask for another guide, takes it from the copy in /data or
\* from the network, and installs it under a lock. A guide is named by the link it came
\* from; times are ages, counted in units of EPG_RETRY and capped at EPG_REFRESH.
EXTENDS Integers

CONSTANTS Links, NoLink,
          Lists,              \* channel lists with something in them, as numbers 1 .. n
          Reslide, Refresh,   \* EPG_RESLIDE, EPG_REFRESH, in units of EPG_RETRY
          MaxTurns, MaxFaults, MaxDeaths   \* bounds: changes asked for, failures, crashes

ASSUME GuideAssumption ==
  /\ NoLink \notin Links /\ Lists \subseteq Nat \ {0}
  /\ Reslide \in Nat \ {0} /\ Refresh \in Nat /\ Reslide < Refresh
  /\ MaxTurns \in Nat /\ MaxFaults \in Nat /\ MaxDeaths \in Nat

Retry == 1
Never == -1
NoGuide == NoLink

VARIABLES
  link,      \* epg_source: the link set by the user or named by the list
  list,      \* the channel list, 0 when empty, and its version
  network,   \* netmon has an address, the console its clock
  again,     \* g_refresh
  guide,     \* g_guide: the link it came from
  cache,     \* EPG_CACHE: the link it was downloaded from
  meta,      \* EPG_META: link and age
  th,        \* epg_thread: where it is, and what it works on
  last,      \* lastUrl, lastSig, haveSig, lastChanVer
  age,       \* since lastNet, lastFail, lastBuild
  lost,      \* history: a copy was filed whose meta file is still that of another
  spent      \* turns, faults and deaths so far
guideVars == <<link, list, network, again, guide, cache, meta, th, last, age, lost, spent>>
asked == <<link, list, network>>
files == <<cache, meta, lost>>

NoMeta == [url |-> NoLink, age |-> 0]
Resting == [at |-> "wait", url |-> NoLink, want |-> 0, forced |-> FALSE]
Fresh == [url |-> NoLink, sig |-> 0, have |-> FALSE, ver |-> -1]
NeverDone == [net |-> Never, fail |-> Never, build |-> Never]

GuideInit ==
  /\ link \in Links \cup {NoLink} /\ list = [is |-> 0, ver |-> 0] /\ network = FALSE
  /\ again = FALSE /\ guide = NoGuide /\ cache = NoLink /\ meta = NoMeta
  /\ th = Resting /\ last = Fresh /\ age = NeverDone /\ lost = FALSE
  /\ spent = [turns |-> 0, faults |-> 0, deaths |-> 0]

-----------------------------------------------------------------------------
\* The user, the channel store, the network, the time.

Turns == spent.turns < MaxTurns /\ spent' = [spent EXCEPT !.turns = @ + 1]
Others == UNCHANGED <<guide, files, th, last, age>>

SetLink == Turns /\ link' \in (Links \cup {NoLink}) \ {link} /\ UNCHANGED <<list, network, again>> /\ Others
LoadList ==
  /\ Turns /\ \E l \in Lists \cup {0} : list' = [is |-> l, ver |-> list.ver + 1]
  /\ UNCHANGED <<link, network, again>> /\ Others
NetTurns == Turns /\ network' = ~network /\ UNCHANGED <<link, list, again>> /\ Others
AskAgain == Turns /\ ~again /\ again' = TRUE /\ UNCHANGED asked /\ Others

Older(a) == IF a \in {Never, Refresh} THEN a ELSE a + 1
Tick ==
  /\ LET older == [k \in DOMAIN age |-> Older(age[k])]
     IN  /\ older # age \/ Older(meta.age) # meta.age
         /\ age' = older /\ meta' = [meta EXCEPT !.age = Older(@)]
  /\ UNCHANGED <<asked, again, guide, cache, lost, th, last, spent>>

\* The process dies; files and settings stay, and the list is read back.
Dies ==
  /\ spent.deaths < MaxDeaths /\ spent' = [spent EXCEPT !.deaths = @ + 1]
  /\ guide' = NoGuide /\ again' = FALSE /\ th' = Resting /\ last' = Fresh /\ age' = NeverDone
  /\ UNCHANGED <<asked, files>>

-----------------------------------------------------------------------------
\* epg_thread.

Fails == spent.faults < MaxFaults /\ spent' = [spent EXCEPT !.faults = @ + 1]
Runs == spent' = spent
Goes(stage) == th' = [th EXCEPT !.at = stage]

\* Without a link or channels there is no guide; without network or clock nothing is done.
NoLinkSet ==
  /\ th.at = "wait" /\ link = NoLink
  /\ guide' = (IF last.url # NoLink \/ ~last.have THEN NoGuide ELSE guide)
  /\ last' = [last EXCEPT !.url = NoLink, !.have = TRUE]
  /\ UNCHANGED <<asked, again, files, th, age, spent>>
NoChannels ==
  /\ th.at = "wait" /\ link # NoLink /\ network /\ list.is = 0
  /\ guide' = (IF age.build # Never THEN NoGuide ELSE guide)
  /\ age' = [age EXCEPT !.build = Never] /\ last' = [last EXCEPT !.url = NoLink]
  /\ UNCHANGED <<asked, again, files, th, spent>>
Looks ==
  /\ th.at = "wait" /\ link # NoLink /\ network /\ list.is # 0
  /\ th' = [th EXCEPT !.at = "decide", !.url = link]
  /\ UNCHANGED <<asked, again, guide, files, last, age, spent>>

\* Why another guide is built. The list is compared only when its version moved.
Sig == IF list.ver # last.ver THEN list.is ELSE last.sig
RetryOk == age.fail = Never \/ age.fail >= Retry
Stale == age.net >= Refresh
SlideForgotten == FALSE                                            \* Mutant
Slide == age.build >= Reslide
Needed ==
  \/ again \/ th.url # last.url \/ ~last.have \/ Sig # last.sig
  \/ ((Stale \/ Slide) /\ RetryOk)
  \/ (age.build = Never /\ RetryOk)

\* "Another guide's data would only mislead while the new one loads."
DropsOther(url) == IF url # last.url /\ last.url # NoLink THEN NoGuide ELSE guide
CacheOk(url) == meta.url = url /\ meta.age < Refresh

Decides ==
  /\ th.at = "decide" /\ again' = FALSE
  /\ last' = [last EXCEPT !.ver = list.ver]
  /\ \/ ~Needed /\ Goes("wait") /\ UNCHANGED guide
     \/ /\ Needed /\ guide' = DropsOther(th.url)
        /\ th' = [th EXCEPT !.at = IF CacheOk(th.url) /\ ~again THEN "cached" ELSE "download",
                            !.want = IF list.ver # last.ver THEN Sig ELSE list.is]
  /\ UNCHANGED <<asked, files, age, spent>>

\* build() from the copy: it may be gone or damaged.
Cached ==
  /\ th.at = "cached"
  /\ \/ cache # NoLink /\ guide' = cache /\ age' = [age EXCEPT !.net = meta.age] /\ Goes("good") /\ Runs
     \/ Goes("download") /\ UNCHANGED <<guide, age>> /\ IF cache = NoLink THEN Runs ELSE Fails
  /\ UNCHANGED <<asked, again, files, last>>

\* build() from the network: the copy is filed first, then its meta file, then the
\* guide installed. Without room for a copy the guide is installed all the same.
Download ==
  /\ th.at = "download"
  /\ \/ Goes("unlink") /\ Runs
     \/ Goes("install") /\ Fails
     \/ Goes(IF meta.url = th.url /\ guide = NoGuide THEN "lastCopy" ELSE "bad") /\ Fails
  /\ UNCHANGED <<asked, again, guide, files, last, age>>
Unlink ==
  /\ th.at = "unlink" /\ cache' = NoLink /\ Goes("rename")
  /\ UNCHANGED <<asked, again, guide, meta, lost, last, age, spent>>
RenameCopy ==
  /\ th.at = "rename"
  /\ \/ cache' = th.url /\ Goes("meta") /\ lost' = (lost \/ meta.url # th.url) /\ Runs
     \/ cache' = cache /\ Goes("install") /\ lost' = lost /\ Fails
  /\ UNCHANGED <<asked, again, guide, meta, last, age>>
\* A meta file that cannot be opened stays; one that cannot be written is left empty.
WriteMeta ==
  /\ th.at = "meta" /\ Goes("install")
  /\ \/ meta' = [url |-> th.url, age |-> 0] /\ lost' = FALSE /\ Runs
     \/ meta' = NoMeta /\ lost' = FALSE /\ Fails
     \/ UNCHANGED <<meta, lost>> /\ Fails
  /\ UNCHANGED <<asked, again, guide, cache, last, age>>
Install ==
  /\ th.at = "install" /\ guide' = th.url /\ age' = [age EXCEPT !.net = 0] /\ Goes("good")
  /\ UNCHANGED <<asked, again, files, last, spent>>

\* The last copy is better than nothing, even when it is old; it may be damaged.
LastCopy ==
  /\ th.at = "lastCopy" /\ Goes("bad") /\ guide' \in {cache, guide}
  /\ UNCHANGED <<asked, again, files, last, age, spent>>

\* lastBuild is the time of the last attempt, not of the last success.
Remembers ==
  /\ th.at \in {"good", "bad"} /\ th' = Resting
  /\ age' = [age EXCEPT !.fail = IF th.at = "good" THEN Never ELSE 0, !.build = 0]
  /\ last' = [last EXCEPT !.url = th.url, !.sig = th.want, !.have = TRUE]
  /\ UNCHANGED <<asked, again, guide, files, spent>>

-----------------------------------------------------------------------------
Turning == SetLink \/ LoadList \/ NetTurns \/ AskAgain
Guiding ==
  \/ NoLinkSet \/ NoChannels \/ Looks \/ Decides \/ Cached \/ Download \/ Unlink
  \/ RenameCopy \/ WriteMeta \/ Install \/ LastCopy \/ Remembers
GuideNext == Turning \/ Tick \/ Dies \/ Guiding
GuideSpec == GuideInit /\ [][GuideNext]_guideVars /\ WF_guideVars(Guiding) /\ WF_guideVars(Tick)

GuideTypeOK ==
  /\ link \in Links \cup {NoLink} /\ list.is \in Lists \cup {0} /\ again \in BOOLEAN
  /\ guide \in Links \cup {NoGuide} /\ cache \in Links \cup {NoLink}
  /\ meta.url \in Links \cup {NoLink} /\ meta.age \in 0 .. Refresh
  /\ age \in [{"net", "fail", "build"} -> Never .. Refresh] /\ lost \in BOOLEAN

\* The guide that lookups see is that of the link the thread follows, whatever failed,
\* was switched or died in between, unless a copy was left with the meta file of
\* another link.
GuideIsOfItsLink == guide # NoGuide /\ ~lost /\ th.at = "wait" => guide = last.url

\* That guide is never another link's and, link, list and network given, comes and stays.
GuideArrives ==
  /\ []GuideIsOfItsLink
  /\ <>[](link # NoLink /\ network /\ list.is # 0 => guide = link)
=============================================================================
