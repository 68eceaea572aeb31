--------------------------- MODULE ServicesProofs ----------------------------
(***************************************************************************)
(* The services beside the player, each under its own specification.  What *)
(* upload and list jobs leave behind is right for every number of          *)
(* connections and of crashes.  What is shown of the subtitles is what was *)
(* chosen for what plays, for every number of sources and of openings,     *)
(* choices and files.  The screen, the mark and the file of the channels   *)
(* are those of the list, for every list.  The receiver changes its        *)
(* address for a reason, the events of a subscription are numbered in      *)
(* turn, and a guide is shown for its own link.                            *)
(***************************************************************************)
EXTENDS Services, FiniteSetTheorems, SequenceTheorems, WellFoundedInduction, TLAPS

\* The jobs.

ServerStages ==
  {"accept", "claim", "start", "handoff", "release", "close", "replay", "delete",
   "unlinkFilm", "unlinkLabel", "unlinkPart"}
JobStages ==
  {"gone", "begin", "receive", "discard", "rename", "label", "write", "post", "end", "release"}
Owner == Conns \cup {None}
Files == [of : Owner, whole : BOOLEAN]
Servers == [at : ServerStages, conn : Owner, kind : Requests \cup {"none"}]
Workers == [at : JobStages, conn : Owner]

JobsTypeInv ==
  /\ conn \in [Conns -> {"new", "open", "closed", "again"}]
  /\ server \in Servers
  /\ handoff \in BOOLEAN /\ busy \in [Kinds -> BOOLEAN] /\ pad \in {"idle", "start"}
  /\ job \in [Kinds -> Workers]
  /\ part \in Files /\ film \in Files /\ label \in Owner
  /\ cast \in {"no", "posted", "playing"} /\ torn \in BOOLEAN

\* server_main has a connection while it serves one, and looks at the hand-off at the end only.
ServerInv ==
  /\ server.at = "accept" <=> server.conn = None
  /\ server.at \in {"claim", "start", "handoff", "release"} => server.kind \in Kinds
  /\ handoff => server.at \in {"accept", "close"}

\* SocketsHaveOneHolder, holder by holder.
SocketInv ==
  \A c \in Conns :
    /\ conn[c] = "open" <=> ServerHolds(c) \/ JobHolds("upload", c) \/ JobHolds("list", c)
    /\ ServerHolds(c) => ~JobHolds("upload", c) /\ ~JobHolds("list", c)
    /\ ~(JobHolds("upload", c) /\ JobHolds("list", c))

\* Who is about to start a worker has the claim, and nobody else has it.
ServerStarts(k) == server.kind = k /\ server.at \in {"start", "release"}
PadBegins(k) == k = "list" /\ pad = "start"
Running(k) == job[k].at # "gone"
ClaimInv ==
  \A k \in Kinds :
    /\ busy[k] <=> ServerStarts(k) \/ PadBegins(k) \/ Running(k)
    /\ ~(ServerStarts(k) /\ PadBegins(k))
    /\ ~(ServerStarts(k) /\ Running(k)) /\ ~(PadBegins(k) /\ Running(k))

\* What the worker is about to rename is whole, and what it is about to name is its own film
\* or has been deleted.
FilmInv ==
  /\ FilmIsWhole
  /\ job["upload"].at # "gone" => Uploader \in Conns
  /\ job["upload"].at = "rename" => part.whole
  /\ job["upload"].at \in {"label", "write"} => film.of \in {None, Uploader}

JobsInv == JobsTypeInv /\ ServerInv /\ SocketInv /\ ClaimInv /\ FilmInv

\* No connection has the number 0.
LEMMA NoneIsNoConnection == None \notin Conns
BY JobsAssumption DEF None

\* A step of one thread from one stage to the next.
LEMMA ServerMoves ==
  ASSUME JobsTypeInv, NEW stage \in ServerStages, ServerGoes(stage)
  PROVE  /\ server' \in Servers
         /\ server'.at = stage /\ server'.conn = server.conn /\ server'.kind = server.kind
BY DEF ServerGoes, JobsTypeInv, Servers

LEMMA JobMoves ==
  ASSUME JobsTypeInv, NEW k \in Kinds, NEW stage \in JobStages, JobGoes(k, stage)
  PROVE  /\ job' \in [Kinds -> Workers]
         /\ job'[k].at = stage /\ job'[k].conn = job[k].conn
         /\ \A j \in Kinds \ {k} : job'[j] = job[j]
BY DEF JobGoes, JobsTypeInv, Workers

LEMMA JobBegins ==
  ASSUME JobsTypeInv, NEW k \in Kinds, NEW c \in Owner, Begin(k, c)
  PROVE  /\ job' \in [Kinds -> Workers]
         /\ job'[k].at = "begin" /\ job'[k].conn = c
         /\ \A j \in Kinds \ {k} : job'[j] = job[j]
BY DEF Begin, JobsTypeInv, Workers, JobStages

LEMMA JobsInitially == ASSUME JobsInit PROVE JobsInv
<1>1. JobsTypeInv
  BY DEF JobsInit, JobsTypeInv, Servers, Workers, Idle, Gone, NoFile, Owner, Files, ServerStages,
    JobStages
<1>2. ServerInv BY DEF JobsInit, ServerInv, Idle
<1>3. SocketInv
  BY NoneIsNoConnection DEF JobsInit, SocketInv, ServerHolds, JobHolds, Idle, Gone, Kinds
<1>4. ClaimInv BY DEF JobsInit, ClaimInv, ServerStarts, PadBegins, Running, Idle, Gone
<1>5. FilmInv BY DEF JobsInit, FilmInv, FilmIsWhole, Gone, NoFile, Kinds
<1> QED BY <1>1, <1>2, <1>3, <1>4, <1>5 DEF JobsInv

\* Taking the film back and removing files: nothing but the film is concerned.
FileStages == {"replay", "delete", "unlinkFilm", "unlinkLabel", "unlinkPart"}

LEMMA FilesFrame ==
  ASSUME JobsInv, server.at \in FileStages, NEW to \in FileStages \cup {"close"}, ServerGoes(to),
         UNCHANGED <<conn, handoff, busy, job, pad>>
  PROVE  server' \in Servers /\ ServerInv' /\ SocketInv' /\ ClaimInv' /\ Uploader' = Uploader
<1> USE DEF JobsInv, FileStages
<1>1. /\ server' \in Servers
      /\ server'.at = to /\ server'.conn = server.conn /\ server'.kind = server.kind
  BY ServerMoves DEF ServerStages
<1>2. ServerInv' BY <1>1 DEF ServerInv
<1>3. SocketInv' BY <1>1 DEF SocketInv, ServerHolds, JobHolds, ServerInv
<1>4. ClaimInv' BY <1>1 DEF ClaimInv, ServerStarts, PadBegins, Running
<1> QED BY <1>1, <1>2, <1>3, <1>4 DEF Uploader

LEMMA FilesStep ==
  ASSUME JobsInv, Replay \/ Delete \/ UnlinkFilm \/ UnlinkLabel \/ UnlinkPart
  PROVE  JobsInv'
<1> USE DEF JobsInv, disk
<1>1. PICK to \in FileStages \cup {"close"} : server.at \in FileStages /\ ServerGoes(to)
  BY DEF Replay, Delete, UnlinkFilm, UnlinkLabel, UnlinkPart, FileStages
<1>2. UNCHANGED <<conn, handoff, busy, job, pad>>
  BY DEF Replay, Delete, UnlinkFilm, UnlinkLabel, UnlinkPart
<1>3. server' \in Servers /\ ServerInv' /\ SocketInv' /\ ClaimInv' /\ Uploader' = Uploader
  BY <1>1, <1>2, FilesFrame
<1>4. NoFile \in Files /\ None \in Owner BY DEF NoFile, Files, Owner
<1>5. CASE Replay
  <2>1. JobsTypeInv' BY <1>2, <1>3, <1>4, <1>5 DEF Replay, JobsTypeInv
  <2>2. FilmInv' BY <1>2, <1>3, <1>5 DEF Replay, FilmInv, FilmIsWhole
  <2> QED BY <1>3, <2>1, <2>2
<1>6. CASE Delete
  <2>1. JobsTypeInv' BY <1>2, <1>3, <1>4, <1>6 DEF Delete, JobsTypeInv
  <2>2. FilmInv' BY <1>2, <1>3, <1>6 DEF Delete, FilmInv, FilmIsWhole
  <2> QED BY <1>3, <2>1, <2>2
<1>7. CASE UnlinkFilm
  <2>1. JobsTypeInv' BY <1>2, <1>3, <1>4, <1>7 DEF UnlinkFilm, JobsTypeInv
  <2>2. FilmInv' BY <1>2, <1>3, <1>7 DEF UnlinkFilm, FilmInv, FilmIsWhole, NoFile
  <2> QED BY <1>3, <2>1, <2>2
<1>8. CASE UnlinkLabel
  <2>1. JobsTypeInv' BY <1>2, <1>3, <1>4, <1>8 DEF UnlinkLabel, JobsTypeInv
  <2>2. FilmInv' BY <1>2, <1>3, <1>8 DEF UnlinkLabel, FilmInv, FilmIsWhole
  <2> QED BY <1>3, <2>1, <2>2
<1>9. CASE UnlinkPart
  <2>1. JobsTypeInv' BY <1>2, <1>3, <1>4, <1>9 DEF UnlinkPart, JobsTypeInv
  <2>2. FilmInv' BY <1>2, <1>3, <1>9 DEF UnlinkPart, FilmInv, FilmIsWhole, NoFile
  <2> QED BY <1>3, <2>1, <2>2
<1> QED BY <1>5, <1>6, <1>7, <1>8, <1>9

LEMMA ServingStep ==
  ASSUME JobsInv, Accept \/ Claim \/ Start \/ ReleaseClaim \/ HandOver \/ CloseUnlessHandedOver
  PROVE  JobsInv'
<1> USE NoneIsNoConnection DEF JobsInv, disk
<1>1. CASE Accept
  <2>1. PICK c \in Conns, kind \in Requests :
           /\ server.at = "accept" /\ conn[c] = "new" /\ conn' = [conn EXCEPT ![c] = "open"]
           /\ server' = [at |-> CASE kind \in Kinds -> "claim" [] OTHER -> kind,
                         conn |-> c, kind |-> kind]
    BY <1>1 DEF Accept
  <2>2. handoff' = FALSE /\ UNCHANGED <<busy, job, pad, part, film, label, torn, cast>>
    BY <1>1 DEF Accept, HandoffReset
  <2>3. /\ server'.at \in {"claim", "replay", "delete"} /\ server'.conn = c /\ server'.kind = kind
        /\ server'.at = "claim" => kind \in Kinds
    BY <2>1 DEF Requests, Kinds
  <2>4. server' \in Servers BY <2>1, <2>3 DEF Servers, ServerStages, Owner, Requests, Kinds
  <2>5. JobsTypeInv'
    <3>1. conn' \in [Conns -> {"new", "open", "closed", "again"}] BY <2>1 DEF JobsTypeInv
    <3>2. handoff' \in BOOLEAN BY <2>2
    <3> QED BY <2>2, <2>4, <3>1, <3>2 DEF JobsTypeInv
  <2>6. ServerInv' BY <2>2, <2>3, NoneIsNoConnection DEF ServerInv
  <2>7. SocketInv'
    <3> SUFFICES ASSUME NEW d \in Conns
                 PROVE  /\ conn'[d] = "open" <=>
                             ServerHolds(d)' \/ JobHolds("upload", d) \/ JobHolds("list", d)
                        /\ ServerHolds(d)' => ~JobHolds("upload", d) /\ ~JobHolds("list", d)
      BY <2>2 DEF SocketInv, JobHolds
    <3>1. ServerHolds(d)' <=> d = c BY <2>2, <2>3 DEF ServerHolds
    <3>2. ~ServerHolds(d) BY <2>1 DEF ServerInv, ServerHolds
    <3>3. conn'[d] = IF d = c THEN "open" ELSE conn[d] BY <2>1 DEF JobsTypeInv
    <3> QED BY <2>1, <3>1, <3>2, <3>3 DEF SocketInv
  <2>8. ClaimInv'
    <3>1. \A k \in Kinds : ~ServerStarts(k) /\ ~ServerStarts(k)' BY <2>1, <2>3 DEF ServerStarts
    <3> QED BY <2>2, <3>1 DEF ClaimInv, PadBegins, Running
  <2>9. FilmInv' BY <2>2 DEF FilmInv, FilmIsWhole, Uploader
  <2> QED BY <2>5, <2>6, <2>7, <2>8, <2>9
<1>2. CASE Claim
  <2>1. PICK stage \in {"close", "start"} :
           /\ server.at = "claim" /\ ServerGoes(stage)
           /\ stage = "close" => UNCHANGED busy
           /\ stage = "start" => ~busy[server.kind] /\ busy' = [busy EXCEPT ![server.kind] = TRUE]
    BY <1>2 DEF Claim
  <2>2. UNCHANGED <<conn, handoff, job, pad, part, film, label, torn, cast>> BY <1>2 DEF Claim
  <2>3. server.kind \in Kinds /\ ~handoff BY <2>1 DEF ServerInv
  <2>4. /\ server' \in Servers
        /\ server'.at = stage /\ server'.conn = server.conn /\ server'.kind = server.kind
    BY <2>1, ServerMoves DEF ServerStages
  <2>5. JobsTypeInv' BY <2>1, <2>2, <2>3, <2>4 DEF JobsTypeInv
  <2>6. ServerInv' BY <2>1, <2>2, <2>3, <2>4 DEF ServerInv
  <2>7. SocketInv' BY <2>1, <2>2, <2>4 DEF SocketInv, ServerHolds, JobHolds
  <2>8. ClaimInv'
    <3>1. CASE stage = "close"
      BY <2>1, <2>2, <2>4, <3>1 DEF ClaimInv, ServerStarts, PadBegins, Running
    <3>2. CASE stage = "start"
      <4>1. \A k \in Kinds : busy'[k] <=> busy[k] \/ k = server.kind BY <2>1, <2>3, <3>2 DEF JobsTypeInv
      <4>2. \A k \in Kinds : ~ServerStarts(k) /\ (ServerStarts(k)' <=> k = server.kind)
        BY <2>1, <2>4, <3>2 DEF ServerStarts
      <4>3. \A k \in Kinds : (PadBegins(k)' <=> PadBegins(k)) /\ (Running(k)' <=> Running(k))
        BY <2>2 DEF PadBegins, Running
      <4>4. ~busy[server.kind] BY <2>1, <3>2
      <4> QED BY <2>3, <4>1, <4>2, <4>3, <4>4 DEF ClaimInv
    <3> QED BY <3>1, <3>2
  <2>9. FilmInv' BY <2>2 DEF FilmInv, FilmIsWhole, Uploader
  <2> QED BY <2>5, <2>6, <2>7, <2>8, <2>9
<1>3. CASE Start
  <2>1. server.at = "start" /\ UNCHANGED <<conn, handoff, busy, pad, part, film, label, torn, cast>>
    BY <1>3 DEF Start
  <2>2. server.kind \in Kinds /\ ~handoff /\ server.conn \in Conns
    BY <2>1 DEF ServerInv, JobsTypeInv, Servers, Owner
  <2>3. job[server.kind].at = "gone" /\ ~PadBegins(server.kind) /\ busy[server.kind]
    BY <2>1, <2>2 DEF ClaimInv, ServerStarts, PadBegins, Running
  <2>4. CASE ServerGoes("release") /\ UNCHANGED job
    <3>1. /\ server' \in Servers
          /\ server'.at = "release" /\ server'.conn = server.conn /\ server'.kind = server.kind
      BY <2>4, ServerMoves DEF ServerStages
    <3>2. JobsTypeInv' BY <2>1, <2>4, <3>1 DEF JobsTypeInv
    <3>3. ServerInv' BY <2>1, <2>2, <3>1 DEF ServerInv
    <3>4. SocketInv' BY <2>1, <2>4, <3>1 DEF SocketInv, ServerHolds, JobHolds
    <3>5. ClaimInv' BY <2>1, <2>4, <3>1 DEF ClaimInv, ServerStarts, PadBegins, Running
    <3>6. FilmInv' BY <2>1, <2>4 DEF FilmInv, FilmIsWhole, Uploader
    <3> QED BY <3>2, <3>3, <3>4, <3>5, <3>6
  <2>5. CASE Begin(server.kind, server.conn) /\ ServerGoes("handoff")
    <3>1. /\ server' \in Servers
          /\ server'.at = "handoff" /\ server'.conn = server.conn /\ server'.kind = server.kind
      BY <2>5, ServerMoves DEF ServerStages
    <3>2. /\ job' \in [Kinds -> Workers]
          /\ job'[server.kind].at = "begin" /\ job'[server.kind].conn = server.conn
          /\ \A j \in Kinds \ {server.kind} : job'[j] = job[j]
      BY <2>2, <2>5, JobBegins DEF Owner
    <3>3. JobsTypeInv' BY <2>1, <3>1, <3>2 DEF JobsTypeInv
    <3>4. ServerInv' BY <2>1, <2>2, <3>1 DEF ServerInv
    <3>5. SocketInv'
      <4>1. \A c \in Conns : ~ServerHolds(c)' /\ (ServerHolds(c) <=> c = server.conn)
        BY <2>1, <2>2, <3>1 DEF ServerHolds
      <4>2. \A c \in Conns, k \in Kinds : k = server.kind =>
              ~JobHolds(k, c) /\ (JobHolds(k, c)' <=> c = server.conn)
        BY <2>3, <3>2 DEF JobHolds
      <4>3. \A c \in Conns, j \in Kinds \ {server.kind} : JobHolds(j, c)' <=> JobHolds(j, c)
        BY <3>2 DEF JobHolds
      <4>4. "upload" \in Kinds /\ "list" \in Kinds BY DEF Kinds
      <4>5. CASE server.kind = "upload"
        <5>1. \A c \in Conns : /\ ~JobHolds("upload", c)
                               /\ JobHolds("upload", c)' <=> c = server.conn
                               /\ JobHolds("list", c)' <=> JobHolds("list", c)
          BY <4>2, <4>3, <4>4, <4>5
        <5> QED BY <2>1, <4>1, <5>1 DEF SocketInv
      <4>6. CASE server.kind = "list"
        <5>1. \A c \in Conns : /\ ~JobHolds("list", c)
                               /\ JobHolds("list", c)' <=> c = server.conn
                               /\ JobHolds("upload", c)' <=> JobHolds("upload", c)
          BY <4>2, <4>3, <4>4, <4>6
        <5> QED BY <2>1, <4>1, <5>1 DEF SocketInv
      <4> QED BY <2>2, <4>5, <4>6 DEF Kinds
    <3>6. ClaimInv'
      <4>1. \A k \in Kinds : ~ServerStarts(k)' /\ (ServerStarts(k) <=> k = server.kind)
        BY <2>1, <3>1 DEF ServerStarts
      <4>2. \A k \in Kinds : Running(k)' <=> Running(k) \/ k = server.kind BY <3>2 DEF Running
      <4>3. \A k \in Kinds : PadBegins(k)' <=> PadBegins(k) BY <2>1 DEF PadBegins
      <4>4. UNCHANGED busy BY <2>1
      <4> QED BY <2>2, <2>3, <4>1, <4>2, <4>3, <4>4 DEF ClaimInv
    <3>7. FilmInv'
      <4>1. CASE server.kind = "upload"
        BY <2>1, <2>2, <2>3, <3>2, <4>1 DEF FilmInv, FilmIsWhole, Uploader
      <4>2. CASE server.kind = "list"
        BY <2>1, <3>2, <4>2 DEF FilmInv, FilmIsWhole, Uploader, Kinds
      <4> QED BY <2>2, <4>1, <4>2 DEF Kinds
    <3> QED BY <3>3, <3>4, <3>5, <3>6, <3>7
  <2> QED BY <1>3, <2>4, <2>5 DEF Start, StartFailed
<1>4. CASE ReleaseClaim
  <2>1. JobsTypeInv' BY <1>4 DEF ReleaseClaim, ServerGoes, JobsTypeInv, Servers, ServerStages
  <2>2. ServerInv' BY <1>4 DEF ReleaseClaim, ServerGoes, ServerInv, JobsTypeInv, Owner
  <2>3. SocketInv' BY <1>4 DEF ReleaseClaim, ServerGoes, SocketInv, ServerHolds, JobHolds
  <2>4. ClaimInv'
    BY <1>4 DEF ReleaseClaim, ServerGoes, ClaimInv, ServerStarts, PadBegins, Running, JobsTypeInv
  <2>5. FilmInv' BY <1>4 DEF ReleaseClaim, FilmInv, FilmIsWhole, Uploader
  <2> QED BY <2>1, <2>2, <2>3, <2>4, <2>5
<1>5. CASE HandOver
  <2>1. JobsTypeInv' BY <1>5 DEF HandOver, ServerGoes, JobsTypeInv, Servers, ServerStages
  <2>2. ServerInv' BY <1>5 DEF HandOver, ServerGoes, ServerInv, JobsTypeInv, Owner
  <2>3. SocketInv' BY <1>5 DEF HandOver, SocketInv, ServerHolds, JobHolds
  <2>4. ClaimInv' BY <1>5 DEF HandOver, ServerGoes, ClaimInv, ServerStarts, PadBegins, Running
  <2>5. FilmInv' BY <1>5 DEF HandOver, FilmInv, FilmIsWhole, Uploader
  <2> QED BY <2>1, <2>2, <2>3, <2>4, <2>5
<1>6. CASE CloseUnlessHandedOver
  <2>1. JobsTypeInv'
    BY <1>6 DEF CloseUnlessHandedOver, ClosedAgain, Idle, JobsTypeInv, Servers, ServerStages, Owner
  <2>2. ServerInv' BY <1>6 DEF CloseUnlessHandedOver, Idle, ServerInv
  <2>3. SocketInv'
    BY <1>6 DEF CloseUnlessHandedOver, ClosedAgain, Idle, SocketInv, ServerHolds, JobHolds, JobsTypeInv
  <2>4. ClaimInv'
    BY <1>6 DEF CloseUnlessHandedOver, Idle, ClaimInv, ServerStarts, PadBegins, Running
  <2>5. FilmInv' BY <1>6 DEF CloseUnlessHandedOver, FilmInv, FilmIsWhole, Uploader
  <2> QED BY <2>1, <2>2, <2>3, <2>4, <2>5
<1> QED BY <1>1, <1>2, <1>3, <1>4, <1>5, <1>6

Uploads == {"begin", "receive", "discard", "rename", "label", "write", "post"}

\* The uploading worker keeps its claim and its socket to the end.
LEMMA UploadMoves ==
  ASSUME JobsInv, NEW from \in Uploads, NEW to \in Uploads \cup {"end"},
         Work(from), JobGoes("upload", to)
  PROVE  /\ UNCHANGED <<conn, server, handoff, busy, pad>>
         /\ job' \in [Kinds -> Workers] /\ job["upload"].at = from /\ job'["upload"].at = to
         /\ Uploader' = Uploader /\ Uploader \in Conns
         /\ ServerInv' /\ SocketInv' /\ ClaimInv'
<1> USE DEF JobsInv
<1>1. /\ UNCHANGED <<conn, server, handoff, busy, pad>> /\ job["upload"].at = from
      /\ "upload" \in Kinds /\ to \in JobStages
  BY DEF Work, Kinds, JobStages, Uploads
<1>2. /\ job' \in [Kinds -> Workers]
      /\ job'["upload"].at = to /\ job'["upload"].conn = job["upload"].conn
      /\ \A j \in Kinds \ {"upload"} : job'[j] = job[j]
  BY <1>1, JobMoves
<1>3. from \notin {"gone", "release"} /\ to \notin {"gone", "release"} BY DEF Uploads
<1>4. Uploader' = Uploader /\ Uploader \in Conns BY <1>1, <1>2, <1>3 DEF Uploader, FilmInv
<1>5. ServerInv' BY <1>1 DEF ServerInv
<1>6. SocketInv'
  <2>1. \A c \in Conns : JobHolds("upload", c)' <=> JobHolds("upload", c)
    BY <1>1, <1>2, <1>3 DEF JobHolds
  <2>2. \A c \in Conns : JobHolds("list", c)' <=> JobHolds("list", c) BY <1>2 DEF JobHolds, Kinds
  <2>3. \A c \in Conns : ServerHolds(c)' <=> ServerHolds(c) BY <1>1 DEF ServerHolds
  <2> QED BY <1>1, <2>1, <2>2, <2>3 DEF SocketInv
<1>7. \A k \in Kinds : job'[k].at = "gone" <=> job[k].at = "gone" BY <1>1, <1>2, <1>3
<1>8. ClaimInv' BY <1>1, <1>7 DEF ClaimInv, ServerStarts, PadBegins, Running, Kinds
<1> QED BY <1>1, <1>2, <1>4, <1>5, <1>6, <1>8

LEMMA UploadingStep ==
  ASSUME JobsInv, Uploading
  PROVE  JobsInv'
<1> USE NoneIsNoConnection DEF JobsInv
<1>1. CASE CreatePart
  <2>1. PICK to \in {"receive", "end"} :
                 /\ JobGoes("upload", to)
                 /\ part' \in {[of |-> Uploader, whole |-> FALSE], NoFile}
                 /\ UNCHANGED <<film, label, torn, cast>>
    BY <1>1 DEF CreatePart
  <2>2. Work("begin") BY <1>1 DEF CreatePart
  <2>3. /\ UNCHANGED <<conn, server, handoff, busy, pad>>
        /\ job' \in [Kinds -> Workers] /\ job["upload"].at = "begin" /\ job'["upload"].at = to
        /\ Uploader' = Uploader /\ Uploader \in Conns
        /\ ServerInv' /\ SocketInv' /\ ClaimInv'
    BY <2>1, <2>2, UploadMoves DEF Uploads
  <2>a. part' \in Files
    <3>1. NoFile \in Files BY DEF NoFile, Files, Owner
    <3>2. [of |-> Uploader, whole |-> FALSE] \in Files BY <2>3 DEF Files, Owner
    <3> QED BY <2>1, <3>1, <3>2
  <2>4. JobsTypeInv' BY <2>1, <2>3, <2>a DEF JobsTypeInv
  <2>5. FilmInv' BY <2>1, <2>3 DEF FilmInv, FilmIsWhole, Mine
  <2> QED BY <2>3, <2>4, <2>5
<1>2. CASE Receive
  <2>1. PICK to \in {"rename", "discard"} :
                 /\ JobGoes("upload", to)
                 /\ part' \in Files /\ UNCHANGED <<film, label, torn, cast>>
                 /\ to = "rename" => part'.whole
    BY <1>2 DEF Receive, Work, ReceiveEnds, Files, JobsTypeInv
  <2>2. Work("receive") BY <1>2 DEF Receive
  <2>3. /\ UNCHANGED <<conn, server, handoff, busy, pad>>
        /\ job' \in [Kinds -> Workers] /\ job["upload"].at = "receive" /\ job'["upload"].at = to
        /\ Uploader' = Uploader /\ Uploader \in Conns
        /\ ServerInv' /\ SocketInv' /\ ClaimInv'
    BY <2>1, <2>2, UploadMoves DEF Uploads
  <2>4. JobsTypeInv' BY <2>1, <2>3 DEF JobsTypeInv, Owner
  <2>5. FilmInv' BY <2>1, <2>3 DEF FilmInv, FilmIsWhole, Mine
  <2> QED BY <2>3, <2>4, <2>5
<1>3. CASE Discard
  <2>1. PICK to \in {"end"} :
                 /\ JobGoes("upload", to)
                 /\ part' \in Files /\ UNCHANGED <<film, label, torn, cast>>
    BY <1>3 DEF Discard, Work, NoFile, Files, Owner
  <2>2. Work("discard") BY <1>3 DEF Discard
  <2>3. /\ UNCHANGED <<conn, server, handoff, busy, pad>>
        /\ job' \in [Kinds -> Workers] /\ job["upload"].at = "discard" /\ job'["upload"].at = to
        /\ Uploader' = Uploader /\ Uploader \in Conns
        /\ ServerInv' /\ SocketInv' /\ ClaimInv'
    BY <2>1, <2>2, UploadMoves DEF Uploads
  <2>4. JobsTypeInv' BY <2>1, <2>3 DEF JobsTypeInv, Owner
  <2>5. FilmInv' BY <2>1, <2>3 DEF FilmInv, FilmIsWhole, Mine
  <2> QED BY <2>3, <2>4, <2>5
<1>4. CASE Rename
  <2>1. PICK to \in {"label", "discard"} :
                 /\ JobGoes("upload", to)
                 /\ part' \in Files /\ UNCHANGED <<label, torn, cast>>
                 /\ to = "label" => Mine /\ film' = part
                 /\ to = "discard" => film' = film
    BY <1>4 DEF Rename, RenameFails, NoFile, Files, Owner
  <2>2. Work("rename") BY <1>4 DEF Rename
  <2>3. /\ UNCHANGED <<conn, server, handoff, busy, pad>>
        /\ job' \in [Kinds -> Workers] /\ job["upload"].at = "rename" /\ job'["upload"].at = to
        /\ Uploader' = Uploader /\ Uploader \in Conns
        /\ ServerInv' /\ SocketInv' /\ ClaimInv'
    BY <2>1, <2>2, UploadMoves DEF Uploads
  <2>4. JobsTypeInv' BY <2>1, <2>3 DEF JobsTypeInv, Owner
  <2>5. FilmInv' BY <2>1, <2>3 DEF FilmInv, FilmIsWhole, Mine
  <2> QED BY <2>3, <2>4, <2>5
<1>5. CASE OpenLabel
  <2>1. PICK to \in {"write", "post"} :
                 /\ JobGoes("upload", to)
                 /\ UNCHANGED <<part, film, cast>> /\ label' \in Owner /\ torn' \in BOOLEAN
                 /\ to = "write" => label' = None
                 /\ to = "post" => torn'
    BY <1>5 DEF OpenLabel, Work, Owner, JobsTypeInv
  <2>2. Work("label") BY <1>5 DEF OpenLabel
  <2>3. /\ UNCHANGED <<conn, server, handoff, busy, pad>>
        /\ job' \in [Kinds -> Workers] /\ job["upload"].at = "label" /\ job'["upload"].at = to
        /\ Uploader' = Uploader /\ Uploader \in Conns
        /\ ServerInv' /\ SocketInv' /\ ClaimInv'
    BY <2>1, <2>2, UploadMoves DEF Uploads
  <2>4. JobsTypeInv' BY <2>1, <2>3 DEF JobsTypeInv, Owner
  <2>5. FilmInv' BY <2>1, <2>3 DEF FilmInv, FilmIsWhole, Mine
  <2> QED BY <2>3, <2>4, <2>5
<1>6. CASE WriteLabel
  <2>1. PICK to \in {"post"} :
                 /\ JobGoes("upload", to)
                 /\ label' = Uploader /\ torn' = FALSE /\ UNCHANGED <<part, film, cast>>
    BY <1>6 DEF WriteLabel, Work
  <2>2. Work("write") BY <1>6 DEF WriteLabel
  <2>3. /\ UNCHANGED <<conn, server, handoff, busy, pad>>
        /\ job' \in [Kinds -> Workers] /\ job["upload"].at = "write" /\ job'["upload"].at = to
        /\ Uploader' = Uploader /\ Uploader \in Conns
        /\ ServerInv' /\ SocketInv' /\ ClaimInv'
    BY <2>1, <2>2, UploadMoves DEF Uploads
  <2>4. JobsTypeInv' BY <2>1, <2>3 DEF JobsTypeInv, Owner
  <2>5. FilmInv' BY <2>1, <2>3 DEF FilmInv, FilmIsWhole, Mine
  <2> QED BY <2>3, <2>4, <2>5
<1>7. CASE PostFilm
  <2>1. PICK to \in {"end"} :
                 /\ JobGoes("upload", to)
                 /\ cast' = "posted" /\ UNCHANGED <<part, film, label, torn>>
    BY <1>7 DEF PostFilm, Work, disk
  <2>2. Work("post") BY <1>7 DEF PostFilm
  <2>3. /\ UNCHANGED <<conn, server, handoff, busy, pad>>
        /\ job' \in [Kinds -> Workers] /\ job["upload"].at = "post" /\ job'["upload"].at = to
        /\ Uploader' = Uploader /\ Uploader \in Conns
        /\ ServerInv' /\ SocketInv' /\ ClaimInv'
    BY <2>1, <2>2, UploadMoves DEF Uploads
  <2>4. JobsTypeInv' BY <2>1, <2>3 DEF JobsTypeInv, Owner
  <2>5. FilmInv' BY <2>1, <2>3 DEF FilmInv, FilmIsWhole, Mine
  <2> QED BY <2>3, <2>4, <2>5
<1> QED BY <1>1, <1>2, <1>3, <1>4, <1>5, <1>6, <1>7 DEF Uploading

LEMMA WorkerEndStep ==
  ASSUME JobsInv, NEW k \in Kinds, CloseOwn(k) \/ EndOf(k)
  PROVE  JobsInv'
<1> USE NoneIsNoConnection DEF JobsInv, disk
<1>1. CASE CloseOwn(k)
  <2>1. JobsTypeInv' BY <1>1 DEF CloseOwn, JobGoes, ClosedAgain, JobsTypeInv, Workers, JobStages
  <2>2. ServerInv' BY <1>1 DEF CloseOwn, ServerInv
  <2>3. SocketInv'
    BY <1>1 DEF CloseOwn, JobGoes, ClosedAgain, SocketInv, ServerHolds, JobHolds, JobsTypeInv, Kinds
  <2>4. ClaimInv' BY <1>1 DEF CloseOwn, JobGoes, ClaimInv, ServerStarts, PadBegins, Running
  <2>5. FilmInv' BY <1>1 DEF CloseOwn, JobGoes, FilmInv, FilmIsWhole, Uploader
  <2> QED BY <2>1, <2>2, <2>3, <2>4, <2>5
<1>2. CASE EndOf(k)
  <2>1. JobsTypeInv' BY <1>2 DEF EndOf, Gone, JobsTypeInv, Workers, JobStages, Owner
  <2>2. ServerInv' BY <1>2 DEF EndOf, ServerInv
  <2>3. SocketInv' BY <1>2 DEF EndOf, Gone, SocketInv, ServerHolds, JobHolds, JobsTypeInv, Kinds
  <2>4. ClaimInv' BY <1>2 DEF EndOf, Gone, ClaimInv, ServerStarts, PadBegins, Running, JobsTypeInv
  <2>5. FilmInv' BY <1>2 DEF EndOf, Gone, FilmInv, FilmIsWhole, JobsTypeInv, Kinds, Uploader
  <2> QED BY <2>1, <2>2, <2>3, <2>4, <2>5
<1> QED BY <1>1, <1>2

LEMMA OtherStep ==
  ASSUME JobsInv, Load \/ PadClaims \/ PadStarts \/ TakeFilm \/ Crash
  PROVE  JobsInv'
<1> USE NoneIsNoConnection DEF JobsInv, disk
<1>1. CASE Load
  <2>1. JobsTypeInv' BY <1>1 DEF Load, JobGoes, JobsTypeInv, Workers, JobStages
  <2>2. ServerInv' BY <1>1 DEF Load, ServerInv
  <2>3. SocketInv' BY <1>1 DEF Load, JobGoes, SocketInv, ServerHolds, JobHolds, JobsTypeInv, Kinds
  <2>4. ClaimInv' BY <1>1 DEF Load, JobGoes, ClaimInv, ServerStarts, PadBegins, Running, JobsTypeInv
  <2>5. FilmInv' BY <1>1 DEF Load, JobGoes, FilmInv, FilmIsWhole, Uploader
  <2> QED BY <2>1, <2>2, <2>3, <2>4, <2>5
<1>2. CASE PadClaims
  <2>1. JobsTypeInv' BY <1>2 DEF PadClaims, JobsTypeInv
  <2>2. ServerInv' BY <1>2 DEF PadClaims, ServerInv
  <2>3. SocketInv' BY <1>2 DEF PadClaims, SocketInv, ServerHolds, JobHolds
  <2>4. ClaimInv'
    <3>1. /\ pad' = "start" /\ ~busy["list"] /\ UNCHANGED <<server, job>>
          /\ \A k \in Kinds : busy'[k] <=> busy[k] \/ k = "list"
      BY <1>2 DEF PadClaims, JobsTypeInv, Kinds
    <3>2. \A k \in Kinds : ~PadBegins(k) /\ (PadBegins(k)' <=> k = "list")
      BY <1>2, <3>1 DEF PadClaims, PadBegins
    <3>3. \A k \in Kinds : (ServerStarts(k)' <=> ServerStarts(k)) /\ (Running(k)' <=> Running(k))
      BY <3>1 DEF ServerStarts, Running
    <3> QED BY <3>1, <3>2, <3>3 DEF ClaimInv
  <2>5. FilmInv' BY <1>2 DEF PadClaims, FilmInv, FilmIsWhole, Uploader
  <2> QED BY <2>1, <2>2, <2>3, <2>4, <2>5
<1>3. CASE PadStarts
  <2>1. /\ pad = "start" /\ pad' = "idle"
        /\ UNCHANGED <<conn, server, handoff, part, film, label, torn, cast>>
    BY <1>3 DEF PadStarts
  <2>2. job["list"].at = "gone" /\ "list" \in Kinds /\ ~ServerStarts("list")
    BY <2>1 DEF ClaimInv, ServerStarts, PadBegins, Running, Kinds
  <2>3. CASE Begin("list", None) /\ UNCHANGED busy
    <3>1. /\ job' \in [Kinds -> Workers]
          /\ job'["list"].at = "begin" /\ job'["list"].conn = None
          /\ job'["upload"] = job["upload"]
      BY <2>2, <2>3, JobBegins DEF Owner, Kinds
    <3>2. JobsTypeInv' BY <2>1, <2>3, <3>1 DEF JobsTypeInv
    <3>3. ServerInv' BY <2>1 DEF ServerInv
    <3>4. \A c \in Conns : ~JobHolds("list", c) /\ ~JobHolds("list", c)'
      BY <2>2, <3>1 DEF JobHolds
    <3>5. SocketInv'
      <4>1. \A c \in Conns : /\ ServerHolds(c)' <=> ServerHolds(c)
                             /\ JobHolds("upload", c)' <=> JobHolds("upload", c)
        BY <2>1, <3>1 DEF ServerHolds, JobHolds
      <4> QED BY <2>1, <3>4, <4>1 DEF SocketInv
    <3>6. ClaimInv'
      <4>1. \A k \in Kinds : ~PadBegins(k)' /\ (PadBegins(k) <=> k = "list")
        BY <2>1 DEF PadBegins
      <4>2. \A k \in Kinds : Running(k)' <=> Running(k) \/ k = "list" BY <3>1 DEF Running, Kinds
      <4>3. \A k \in Kinds : ServerStarts(k)' <=> ServerStarts(k) BY <2>1 DEF ServerStarts
      <4> QED BY <2>2, <2>3, <4>1, <4>2, <4>3 DEF ClaimInv
    <3>7. FilmInv' BY <2>1, <3>1 DEF FilmInv, FilmIsWhole, Uploader
    <3> QED BY <3>2, <3>3, <3>5, <3>6, <3>7
  <2>4. CASE busy' = [busy EXCEPT !["list"] = FALSE] /\ UNCHANGED job
    <3>1. JobsTypeInv' BY <2>1, <2>4 DEF JobsTypeInv
    <3>2. ServerInv' BY <2>1 DEF ServerInv
    <3>3. SocketInv' BY <2>1, <2>4 DEF SocketInv, ServerHolds, JobHolds
    <3>4. \A k \in Kinds : busy'[k] <=> busy[k] /\ k # "list" BY <2>4 DEF JobsTypeInv
    <3>5. ClaimInv'
      <4>1. \A k \in Kinds : ~PadBegins(k)' /\ (PadBegins(k) <=> k = "list")
        BY <2>1 DEF PadBegins
      <4>2. \A k \in Kinds : (ServerStarts(k)' <=> ServerStarts(k)) /\ (Running(k)' <=> Running(k))
        BY <2>1, <2>4 DEF ServerStarts, Running
      <4> QED BY <3>4, <4>1, <4>2 DEF ClaimInv
    <3>6. FilmInv' BY <2>1, <2>4 DEF FilmInv, FilmIsWhole, Uploader
    <3> QED BY <3>1, <3>2, <3>3, <3>5, <3>6
  <2> QED BY <1>3, <2>3, <2>4 DEF PadStarts
<1>4. CASE TakeFilm
  <2>1. JobsTypeInv' BY <1>4 DEF TakeFilm, threads, JobsTypeInv
  <2>2. ServerInv' BY <1>4 DEF TakeFilm, threads, ServerInv
  <2>3. SocketInv' BY <1>4 DEF TakeFilm, threads, SocketInv, ServerHolds, JobHolds
  <2>4. ClaimInv' BY <1>4 DEF TakeFilm, threads, ClaimInv, ServerStarts, PadBegins, Running
  <2>5. FilmInv' BY <1>4 DEF TakeFilm, threads, FilmInv, FilmIsWhole, Uploader
  <2> QED BY <2>1, <2>2, <2>3, <2>4, <2>5
<1>5. CASE Crash
  <2>1. JobsTypeInv'
    BY <1>5 DEF Crash, Idle, Gone, NoFile, JobsTypeInv, Servers, Workers, ServerStages, JobStages,
      Owner, Files
  <2>2. ServerInv' BY <1>5 DEF Crash, Idle, ServerInv
  <2>3. SocketInv' BY <1>5 DEF Crash, Idle, Gone, SocketInv, ServerHolds, JobHolds, JobsTypeInv, Kinds
  <2>4. ClaimInv' BY <1>5 DEF Crash, Idle, Gone, ClaimInv, ServerStarts, PadBegins, Running, Kinds
  <2>5. FilmInv' BY <1>5 DEF Crash, Gone, FilmInv, FilmIsWhole, Uploader, Kinds
  <2> QED BY <2>1, <2>2, <2>3, <2>4, <2>5
<1> QED BY <1>1, <1>2, <1>3, <1>4, <1>5

LEMMA JobsStep == ASSUME JobsInv, [JobsNext]_jobsVars PROVE JobsInv'
<1>1. CASE Accept \/ Serving BY <1>1, ServingStep, FilesStep DEF Serving
<1>2. CASE Working BY <1>2, UploadingStep, OtherStep, WorkerEndStep DEF Working, Uploading
<1>3. CASE PadClaims \/ PadStarts \/ TakeFilm \/ Crash BY <1>3, OtherStep
<1>4. CASE UNCHANGED jobsVars
  BY <1>4 DEF jobsVars, JobsInv, JobsTypeInv, ServerInv, SocketInv, ServerHolds, JobHolds, ClaimInv,
    ServerStarts, PadBegins, Running, FilmInv, FilmIsWhole, Uploader
<1> QED BY <1>1, <1>2, <1>3, <1>4 DEF JobsNext

LEMMA OneHolder == ASSUME SocketInv PROVE SocketsHaveOneHolder
<1> SUFFICES ASSUME NEW c \in Conns
             PROVE  /\ conn[c] = "open" <=> Holders(c) # {}
                    /\ \A h, i \in Holders(c) : h = i
  BY DEF SocketsHaveOneHolder
<1>1. \A h : h \in Holders(c) <=> \/ h = "upload" /\ JobHolds("upload", c)
                                  \/ h = "list" /\ JobHolds("list", c)
                                  \/ h = "server" /\ ServerHolds(c)
  BY DEF Holders, Kinds
<1> QED BY <1>1 DEF SocketInv

\* JobsInv is inductive.
THEOREM JobsInvariant == JobsSpec => []JobsInv
BY JobsInitially, JobsStep, PTL DEF JobsSpec

\* Every socket is closed once, whoever ends up with it; a claim of an upload or a list has one
\* holder that gives it back; the film on the disk is whole and its name its own, whatever
\* requests, the pad and the death of the process do between any two steps.
THEOREM JobsLeaveNothing == JobsSpec => []JobsAreSound
<1>1. ASSUME JobsInv PROVE JobsAreSound
  <2>1. SocketsHaveOneHolder BY <1>1, OneHolder DEF JobsInv
  <2>2. ClaimsHaveHolder
    BY <1>1 DEF JobsInv, JobsTypeInv, ClaimInv, ServerStarts, PadBegins, Running, ClaimsHaveHolder
  <2>3. FilmIsWhole BY <1>1 DEF JobsInv, FilmInv
  <2> QED BY <2>1, <2>2, <2>3 DEF JobsAreSound
<1> QED BY <1>1, JobsInvariant, PTL

-----------------------------------------------------------------------------
\* The subtitles.

Tracks == Embedded \cup Renditions \cup {External, Off}
Known == Sources \cup {NoSource}
Orders ==
  {NoWork} \cup {Order("hls", t) : t \in Renditions} \cup {Order("external", s) : s \in Sources}
Works == [gen : Nat, order : Orders]
Fetches == [at : {"idle", "busy"}, gen : Nat, order : Orders, done : Nat]

SubtitleTypeInv ==
  /\ source \in Known /\ later \in Known /\ up \in BOOLEAN
  /\ cur \in Tracks /\ pick \in Tracks /\ live \subseteq Embedded \cup Renditions
  /\ route \in Embedded \cup {Off} /\ cue \in Embedded \cup {Off}
  /\ work \in Works /\ fetch \in Fetches

\* An order is for what is chosen and for what plays.
OrderInv ==
  /\ work.order.kind = "hls" => work.order.of = cur
  /\ work.order.kind = "external" => work.order.of = source

\* Generations only grow, and what the fetcher does under the present one was ordered.
GenerationInv ==
  /\ fetch.gen <= work.gen
  /\ fetch.at = "busy" /\ fetch.gen = work.gen => fetch.order = work.order

SubtitlesInv == SubtitleTypeInv /\ OrderInv /\ GenerationInv /\ CuesAreOfTheTrack /\ RenditionIsFetched

-----------------------------------------------------------------------------
LEMMA TracksAreNames ==
  /\ Embedded \subseteq Tracks /\ Renditions \subseteq Tracks
  /\ External \in Tracks /\ Off \in Tracks
  /\ External \notin Embedded \cup Renditions /\ Off \notin Embedded \cup Renditions \cup {External}
  /\ \A t \in Embedded : t \notin Renditions
BY DEF Tracks, Embedded, Renditions, External, Off

LEMMA OrdersAreOrders ==
  /\ NoWork \in Orders /\ NoWork.kind = "none"
  /\ \A t \in Renditions : /\ Order("hls", t) \in Orders
                          /\ Order("hls", t).kind = "hls" /\ Order("hls", t).of = t
  /\ \A s \in Sources : /\ Order("external", s) \in Orders
                       /\ Order("external", s).kind = "external" /\ Order("external", s).of = s
BY DEF Orders, NoWork, Order

\* A new order has a new generation, so that the fetcher's work is out of date.
LEMMA NewOrders ==
  ASSUME NEW w \in Works, NEW order \in Orders
  PROVE  /\ NewOrder(w, order) \in Works
         /\ NewOrder(w, order).gen = w.gen + 1 /\ NewOrder(w, order).order = order
BY DEF NewOrder, Works

\* Choosing a track orders its rendition, and ends the order of the last one.
LEMMA ChosenOrders ==
  ASSUME NEW w \in Works, NEW track \in Tracks
  PROVE  /\ Chosen(w, track) \in Works
         /\ Chosen(w, track) = w \/ Chosen(w, track).gen = w.gen + 1
         /\ Chosen(w, track).order.kind = "hls" => Chosen(w, track).order.of = track
         /\ Chosen(w, track).order.kind = "external" => Chosen(w, track) = w
         /\ track \in Renditions => Chosen(w, track).order = Order("hls", track)
<1>1. CASE track \in Renditions
  <2>1. Chosen(w, track) = NewOrder(w, Order("hls", track)) BY <1>1 DEF Chosen
  <2> QED BY <1>1, <2>1, NewOrders, OrdersAreOrders
<1>2. CASE track \notin Renditions /\ w.order.kind = "hls"
  <2>1. Chosen(w, track) = NewOrder(w, NoWork) BY <1>2 DEF Chosen
  <2> QED BY <1>2, <2>1, NewOrders, OrdersAreOrders
<1>3. CASE track \notin Renditions /\ w.order.kind # "hls"
  BY <1>3 DEF Chosen
<1> QED BY <1>1, <1>2, <1>3

\* What a choice leaves, whoever makes it.
LEMMA Selecting ==
  ASSUME SubtitlesInv, NEW track \in Tracks, Select(work, track), UNCHANGED <<source, fetch>>
  PROVE  /\ cur' = track /\ live' = {} /\ work' \in Works
         /\ OrderInv' /\ GenerationInv' /\ RenditionIsFetched'
<1> USE DEF SubtitlesInv
<1>1. cur' = track /\ live' = {} /\ work' = Chosen(work, track) BY DEF Select
<1>2. work \in Works /\ work.gen \in Nat /\ fetch.gen \in Nat BY DEF SubtitleTypeInv, Works, Fetches
<1>3. work' \in Works BY <1>1, <1>2, ChosenOrders
<1>4. OrderInv' BY <1>1, <1>2, ChosenOrders DEF OrderInv
<1>5. GenerationInv' BY <1>1, <1>2, ChosenOrders DEF GenerationInv
<1>6. RenditionIsFetched' BY <1>1, <1>2, ChosenOrders DEF RenditionIsFetched
<1> QED BY <1>1, <1>3, <1>4, <1>5, <1>6

LEMMA SubtitlesInitially == ASSUME SubtitlesInit PROVE SubtitlesInv
<1> USE SubtitlesAssumption, TracksAreNames, OrdersAreOrders DEF SubtitlesInit
<1>1. SubtitleTypeInv BY DEF SubtitleTypeInv, Known, Works, Fetches
<1>2. OrderInv BY DEF OrderInv
<1>3. GenerationInv BY DEF GenerationInv
<1>4. CuesAreOfTheTrack BY DEF CuesAreOfTheTrack
<1>5. RenditionIsFetched BY DEF RenditionIsFetched
<1> QED BY <1>1, <1>2, <1>3, <1>4, <1>5 DEF SubtitlesInv

-----------------------------------------------------------------------------
LEMMA OpenedStep == ASSUME SubtitlesInv, Opened PROVE SubtitlesInv'
<1> USE SubtitlesAssumption, TracksAreNames, OrdersAreOrders DEF SubtitlesInv
<1> DEFINE Ended(s) == IF s # source /\ work.order.kind = "external" THEN NewOrder(work, NoWork)
                       ELSE work
           Kept(s) == IF s = source THEN file ELSE NoSource
<1>1. PICK s \in Sources, track \in Tracks :
        /\ source' = s /\ file' = Kept(s) /\ cur' = track /\ live' = {}
        /\ pick' = (IF s = source THEN pick ELSE Off)
        /\ track = External => s = source /\ Kept(s) # NoSource
        /\ work' = IF later = s THEN NewOrder(Chosen(Ended(s), track), Order("external", s))
                   ELSE Chosen(Ended(s), track)
        /\ later' = IF later = s THEN NoSource ELSE later
        /\ route' = (IF track \in Embedded THEN track ELSE Off)
  BY DEF Opened, SubtitleTypeInv
<1>2. up' = TRUE /\ UNCHANGED <<fetch, cue>> BY DEF Opened
<1>3. work \in Works /\ work.gen \in Nat /\ fetch.gen \in Nat BY DEF SubtitleTypeInv, Works, Fetches
<1>4. /\ Ended(s) \in Works
      /\ Ended(s) = work \/ Ended(s).gen = work.gen + 1
      /\ Ended(s).order.kind = "external" => s = source /\ Ended(s) = work
  BY <1>3, NewOrders
<1> HIDE DEF Ended
<1>5. /\ Chosen(Ended(s), track) \in Works
      /\ Chosen(Ended(s), track) = work \/ Chosen(Ended(s), track).gen > work.gen
  <2>1. /\ Chosen(Ended(s), track) \in Works
        /\ \/ Chosen(Ended(s), track) = Ended(s)
           \/ Chosen(Ended(s), track).gen = Ended(s).gen + 1
    BY <1>4, ChosenOrders
  <2>2. CASE Ended(s) = work BY <1>3, <2>1, <2>2
  <2>3. CASE Ended(s).gen = work.gen + 1 BY <1>3, <2>1, <2>3
  <2> QED BY <1>4, <2>2, <2>3
<1>6. /\ work' \in Works
      /\ work' = work \/ work'.gen > work.gen
      /\ work'.order.kind = "hls" => work'.order.of = track
      /\ work'.order.kind = "external" => work'.order.of = s
      /\ track \in Renditions => work'.order = Order("hls", track) \/ work'.order.kind = "external"
  <2>1. CASE later = s
    <3>1. work' = NewOrder(Chosen(Ended(s), track), Order("external", s)) BY <1>1, <2>1
    <3>2. Chosen(Ended(s), track).gen \in Nat BY <1>5 DEF Works
    <3> QED BY <1>3, <1>5, <3>1, <3>2, NewOrders
  <2>2. CASE later # s
    <3>1. work' = Chosen(Ended(s), track) BY <1>1, <2>2
    <3>2. work'.order.kind = "external" => work' = work /\ s = source
      BY <1>4, <3>1, ChosenOrders
    <3> QED BY <1>4, <1>5, <3>1, <3>2, ChosenOrders DEF OrderInv
  <2> QED BY <2>1, <2>2
<1>7. SubtitleTypeInv' BY <1>1, <1>2, <1>6 DEF SubtitleTypeInv, Known
<1>8. OrderInv' BY <1>1, <1>6 DEF OrderInv
<1>9. GenerationInv'
  <2>1. work'.gen \in Nat BY <1>6 DEF Works
  <2> QED BY <1>2, <1>3, <1>6, <2>1 DEF GenerationInv
<1>10. CuesAreOfTheTrack' BY <1>1 DEF CuesAreOfTheTrack
<1>11. RenditionIsFetched' BY <1>1, <1>6 DEF RenditionIsFetched
<1> QED BY <1>7, <1>8, <1>9, <1>10, <1>11

LEMMA ViewerStep ==
  ASSUME SubtitlesInv, Closed \/ ChooseTrack \/ LoadText \/ LoadUrl
  PROVE  SubtitlesInv'
<1> USE SubtitlesAssumption, TracksAreNames, OrdersAreOrders DEF SubtitlesInv
<1>0. work \in Works /\ work.gen \in Nat /\ fetch.gen \in Nat BY DEF SubtitleTypeInv, Works, Fetches
<1>1. CASE Closed
  <2>1. /\ work' \in Works
        /\ work' = work \/ work'.gen = work.gen + 1
        /\ work'.order.kind # "hls" /\ (work'.order.kind = "external" => work' = work)
    BY <1>0, <1>1, NewOrders DEF Closed
  <2>2. SubtitleTypeInv' BY <1>1, <2>1 DEF Closed, SubtitleTypeInv
  <2>3. OrderInv' BY <1>1, <2>1 DEF Closed, OrderInv
  <2>4. GenerationInv' BY <1>0, <1>1, <2>1 DEF Closed, GenerationInv
  <2>5. CuesAreOfTheTrack' BY <1>1 DEF Closed, CuesAreOfTheTrack
  <2>6. RenditionIsFetched' BY <1>1 DEF Closed, RenditionIsFetched
  <2> QED BY <2>2, <2>3, <2>4, <2>5, <2>6
<1>2. CASE ChooseTrack
  <2>1. PICK t \in Tracks : Listed(t) /\ pick' = t /\ Select(work, t)
    BY <1>2 DEF ChooseTrack, Tracks
  <2>2. UNCHANGED <<source, up, file, fetch, later, decoder>> BY <1>2 DEF ChooseTrack
  <2>3. /\ cur' = t /\ live' = {} /\ work' \in Works
        /\ OrderInv' /\ GenerationInv' /\ RenditionIsFetched'
    BY <2>1, <2>2, Selecting
  <2>4. SubtitleTypeInv' BY <2>1, <2>2, <2>3 DEF SubtitleTypeInv, decoder
  <2>5. t = External => file # NoSource BY <2>1 DEF Listed
  <2>6. CuesAreOfTheTrack' BY <2>2, <2>3, <2>5 DEF CuesAreOfTheTrack
  <2> QED BY <2>3, <2>4, <2>6
<1>3. CASE LoadText
  <2>1. /\ source # NoSource /\ file' = source /\ pick' = External /\ Select(work, External)
        /\ UNCHANGED <<source, up, fetch, later, decoder>>
    BY <1>3 DEF LoadText
  <2>2. /\ cur' = External /\ live' = {} /\ work' \in Works
        /\ OrderInv' /\ GenerationInv' /\ RenditionIsFetched'
    BY <2>1, Selecting
  <2>3. SubtitleTypeInv' BY <2>1, <2>2 DEF SubtitleTypeInv, decoder
  <2>4. CuesAreOfTheTrack' BY <2>1, <2>2 DEF CuesAreOfTheTrack
  <2> QED BY <2>2, <2>3, <2>4
<1>4. CASE LoadUrl
  <2>1. UNCHANGED <<source, up, cur, pick, live, file, fetch, decoder>> BY <1>4 DEF LoadUrl
  <2>2. PICK s \in Sources :
          \/ s = source /\ work' = NewOrder(work, Order("external", s)) /\ later' = later
          \/ later' = s /\ work' = work
    BY <1>4 DEF LoadUrl
  <2>3. later' \in Known BY <2>2 DEF SubtitleTypeInv, Known
  <2>4. \/ work' = work
        \/ /\ work' \in Works /\ work'.gen = work.gen + 1
           /\ work'.order.kind = "external" /\ work'.order.of = source
    BY <1>0, <2>2, NewOrders
  <2>5. SubtitleTypeInv' BY <2>1, <2>3, <2>4 DEF SubtitleTypeInv, decoder
  <2>6. OrderInv' BY <2>1, <2>4 DEF OrderInv
  <2>7. GenerationInv' BY <1>0, <2>1, <2>4 DEF GenerationInv
  <2>8. CuesAreOfTheTrack' BY <2>1 DEF CuesAreOfTheTrack
  <2>9. RenditionIsFetched' BY <2>1, <2>4 DEF RenditionIsFetched
  <2> QED BY <2>5, <2>6, <2>7, <2>8, <2>9
<1> QED BY <1>1, <1>2, <1>3, <1>4

LEMMA FetchingStep == ASSUME SubtitlesInv, Fetching PROVE SubtitlesInv'
<1> USE SubtitlesAssumption, TracksAreNames, OrdersAreOrders DEF SubtitlesInv
<1>0. work \in Works /\ work.gen \in Nat /\ fetch.gen \in Nat BY DEF SubtitleTypeInv, Works, Fetches
<1>1. CASE Take
  <2>1. UNCHANGED <<source, up, cur, pick, live, file, work, later, decoder>> BY <1>1 DEF Take
  <2>2. /\ fetch' \in Fetches
        /\ \/ fetch'.at = "idle" /\ fetch'.gen = fetch.gen
           \/ fetch'.at = "busy" /\ fetch'.gen = work.gen /\ fetch'.order = work.order
    BY <1>1 DEF Take, SubtitleTypeInv, Works, Fetches
  <2>3. SubtitleTypeInv' BY <2>1, <2>2 DEF SubtitleTypeInv, decoder
  <2>4. OrderInv' BY <2>1 DEF OrderInv
  <2>5. GenerationInv' BY <1>0, <2>1, <2>2 DEF GenerationInv
  <2>6. CuesAreOfTheTrack' /\ RenditionIsFetched' BY <2>1 DEF CuesAreOfTheTrack, RenditionIsFetched
  <2> QED BY <2>3, <2>4, <2>5, <2>6
<1>2. CASE FileArrives
  <2>1. /\ fetch.at = "busy" /\ fetch.order.kind = "external" /\ fetch' = Finished
        /\ UNCHANGED <<source, up, later, decoder>>
    BY <1>2 DEF FileArrives
  <2>2. fetch' \in Fetches /\ fetch'.at = "idle" /\ fetch'.gen = fetch.gen
    BY <2>1 DEF Finished, SubtitleTypeInv, Fetches
  <2>3. CASE Live /\ file' = fetch.order.of /\ pick' = External /\ Select(work, External)
    <3>1. file' = source BY <2>1, <2>3 DEF Live, GenerationInv, OrderInv
    <3>2. cur' = External /\ live' = {} /\ work' = Chosen(work, External) BY <2>3 DEF Select
    <3>3. /\ work' \in Works /\ work'.gen >= work.gen
          /\ work'.order.kind = "hls" => work'.order.of = External
          /\ work'.order.kind = "external" => work' = work
      BY <1>0, <3>2, ChosenOrders
    <3>4. SubtitleTypeInv' BY <2>1, <2>2, <2>3, <3>2, <3>3 DEF SubtitleTypeInv, decoder
    <3>5. OrderInv' BY <2>1, <3>2, <3>3 DEF OrderInv
    <3>6. GenerationInv' BY <1>0, <2>2, <3>3 DEF GenerationInv, Works
    <3>7. CuesAreOfTheTrack' BY <2>1, <3>1, <3>2 DEF CuesAreOfTheTrack
    <3>8. RenditionIsFetched' BY <3>2 DEF RenditionIsFetched
    <3> QED BY <3>4, <3>5, <3>6, <3>7, <3>8
  <2>4. CASE UNCHANGED <<cur, live, turn, work, pick, file>>
    <3>1. SubtitleTypeInv' BY <2>1, <2>2, <2>4 DEF SubtitleTypeInv, decoder
    <3>2. OrderInv' BY <2>1, <2>4 DEF OrderInv
    <3>3. GenerationInv' BY <1>0, <2>2, <2>4 DEF GenerationInv
    <3>4. CuesAreOfTheTrack' /\ RenditionIsFetched'
      BY <2>1, <2>4 DEF CuesAreOfTheTrack, RenditionIsFetched
    <3> QED BY <3>1, <3>2, <3>3, <3>4
  <2> QED BY <1>2, <2>3, <2>4 DEF FileArrives
<1>3. CASE Rendition
  <2>1. /\ fetch.at = "busy" /\ fetch.order.kind = "hls"
        /\ live' = IF Live THEN live \cup {fetch.order.of} ELSE live
        /\ UNCHANGED <<source, up, cur, pick, file, work, fetch, later, decoder>>
    BY <1>3 DEF Rendition
  <2>2. fetch.order.of \in Renditions
    <3>1. fetch.order \in Orders BY DEF SubtitleTypeInv, Fetches
    <3> QED BY <2>1, <3>1 DEF Orders, NoWork, Order
  <2>3. Live => fetch.order.of = cur BY <2>1 DEF Live, GenerationInv, OrderInv
  <2>4. live' \subseteq live \cup {cur} /\ live' \subseteq Embedded \cup Renditions
    BY <2>1, <2>2, <2>3 DEF SubtitleTypeInv
  <2>5. SubtitleTypeInv' BY <2>1, <2>4 DEF SubtitleTypeInv, decoder
  <2>6. OrderInv' /\ GenerationInv' /\ RenditionIsFetched'
    BY <2>1 DEF OrderInv, GenerationInv, RenditionIsFetched
  <2>7. CuesAreOfTheTrack' BY <2>1, <2>4 DEF CuesAreOfTheTrack
  <2> QED BY <2>5, <2>6, <2>7
<1>4. CASE RenditionEnds
  <2>1. /\ fetch' = Finished
        /\ UNCHANGED <<source, up, cur, pick, live, file, work, later, decoder>>
    BY <1>4 DEF RenditionEnds
  <2>2. fetch' \in Fetches /\ fetch'.at = "idle" /\ fetch'.gen = fetch.gen
    BY <2>1 DEF Finished, SubtitleTypeInv, Fetches
  <2>3. SubtitleTypeInv' BY <2>1, <2>2 DEF SubtitleTypeInv, decoder
  <2>4. OrderInv' BY <2>1 DEF OrderInv
  <2>5. GenerationInv' BY <1>0, <2>1, <2>2 DEF GenerationInv
  <2>6. CuesAreOfTheTrack' /\ RenditionIsFetched' BY <2>1 DEF CuesAreOfTheTrack, RenditionIsFetched
  <2> QED BY <2>3, <2>4, <2>5, <2>6
<1> QED BY <1>1, <1>2, <1>3, <1>4 DEF Fetching

LEMMA DecoderStep ==
  ASSUME SubtitlesInv, ApplyPending \/ Packet \/ AddLive \/ SeekClears
  PROVE  SubtitlesInv'
<1> USE DEF SubtitlesInv
<1>1. UNCHANGED <<source, up, cur, pick, file, work, fetch, later>>
  BY DEF ApplyPending, Packet, AddLive, SeekClears, DecoderKeeps
<1>2. OrderInv' /\ GenerationInv' /\ RenditionIsFetched'
  BY <1>1 DEF OrderInv, GenerationInv, RenditionIsFetched
<1>3. /\ \/ live' = live \/ live' = {}
         \/ cue \in Embedded /\ cur \in Embedded /\ live' = live \cup {cue}
      /\ route' \in Embedded \cup {Off} /\ cue' \in Embedded \cup {Off}
  BY DEF ApplyPending, Packet, AddLive, SeekClears, SubtitleTypeInv
<1>4. SubtitleTypeInv' BY <1>1, <1>3 DEF SubtitleTypeInv
<1>5. CuesAreOfTheTrack' BY <1>1, <1>3 DEF CuesAreOfTheTrack
<1> QED BY <1>2, <1>4, <1>5

LEMMA SubtitlesStep == ASSUME SubtitlesInv, [SubtitlesNext]_subtitlesVars PROVE SubtitlesInv'
<1>1. CASE SubtitlesNext
  BY <1>1, OpenedStep, ViewerStep, FetchingStep, DecoderStep DEF SubtitlesNext
<1>2. CASE UNCHANGED subtitlesVars
  BY <1>2 DEF subtitlesVars, decoder, SubtitlesInv, SubtitleTypeInv, OrderInv, GenerationInv,
    CuesAreOfTheTrack, RenditionIsFetched
<1> QED BY <1>1, <1>2

\* Cues and files on the screen are those of the chosen track and of the source that plays, and a
\* rendition that is shown is being fetched, although downloads come back after any number of
\* choices and openings: an order is thrown away by its generation.
THEOREM SubtitlesStayRight == SubtitlesSpec => []SubtitlesAreRight
<1>1. SubtitlesInv => SubtitlesAreRight BY DEF SubtitlesInv, SubtitlesAreRight
<1> QED BY <1>1, SubtitlesInitially, SubtitlesStep, PTL DEF SubtitlesSpec

-----------------------------------------------------------------------------
(* The channel list.                                                         *)

Entries == [url : Urls, group : Groups \cup {NoGroup}, fav : BOOLEAN, key : Nat]
SaverStages == {"idle", "copy", "open", "write"}
OnFile == {"open", "write"}

\* What is shown is built from this list.
Shows(ix, l) ==
  /\ DOMAIN ix = {"groups", "row", "filt"} /\ ix.groups = GroupsOf(l)
  /\ ix.row \in 0 .. 1 + Len(ix.groups) /\ ix.filt = Filtered(l, ix.groups, ix.row)

ListInv ==
  /\ chans \in Seq(Entries) /\ onDisk \in Seq(Entries) /\ current \in 0 .. Len(chans)
  /\ edits \in Nat /\ drifted \in BOOLEAN /\ unsaved \in BOOLEAN

\* Of the savers, unless the file is spoilt: one at most is at the file, with the list as it is
\* if no other save is to come, and it is the only one to write into it.
SaverInv ==
  /\ saver \in [Writers -> [at : SaverStages, copy : Seq(Entries)]]
  /\ ~unsaved =>
       /\ \A t, u \in Writers : saver[t].at \in OnFile /\ saver[u].at \in OnFile => t = u
       /\ \A t \in Writers : saver[t].at = "write" => onDisk = <<>>
       /\ (\A t \in Writers : saver[t].at # "copy") =>
            \/ \A t \in Writers : saver[t].at = "idle" /\ onDisk = chans
            \/ \E t \in Writers : saver[t].at \in OnFile /\ saver[t].copy = chans

ListedInv == ListInv /\ Shows(index, chans) /\ CurrentIsTuned /\ SaverInv

\* The groups are a sequence, and only the groups of the channels count.
LEMMA GroupsAreListed ==
  ASSUME NEW l \in Seq(Entries)
  PROVE  Len(GroupsOf(l)) \in Nat
<1> DEFINE named  == [i \in 1 .. Len(l) |-> l[i].group]
           firsts == {i \in DOMAIN named : /\ named[i] # NoGroup
                                           /\ \A j \in 1 .. i - 1 : named[j] # named[i]}
           Nth(k) == CHOOSE i \in firsts : Cardinality({j \in firsts : j <= i}) = k
           n == Cardinality(firsts)
           groups == [k \in 1 .. n |-> named[Nth(k)]]
<1>1. IsFiniteSet(1 .. Len(l))
  BY LenProperties, FS_Interval
<1>2. firsts \in SUBSET (1 .. Len(l))
  OBVIOUS
<1> HIDE DEF firsts
<1>3. n \in Nat
  BY <1>1, <1>2, FS_Subset, FS_CardinalityType
<1> HIDE DEF named, Nth, n
<1>4. groups \in Seq({groups[k] : k \in 1 .. n})
  BY <1>3
<1>5. GroupsOf(l) = groups
  BY DEF GroupsOf, InTurn, named, firsts, Nth, n
<1> HIDE DEF groups
<1> QED BY <1>4, <1>5, LenProperties

LEMMA SameGroups ==
  ASSUME NEW l, NEW r, Len(l) = Len(r), \A i \in 1 .. Len(l) : l[i].group = r[i].group
  PROVE  GroupsOf(l) = GroupsOf(r)
<1>1. [i \in 1 .. Len(l) |-> l[i].group] = [i \in 1 .. Len(r) |-> r[i].group]
  OBVIOUS
<1> QED BY <1>1, Zenon DEF GroupsOf

LEMMA BecomesShows ==
  ASSUME NEW l \in Seq(Entries), Shows(index, chans), Becomes(l)
  PROVE  Shows(index', chans')
<1>1. index' = Rebuilt(l) /\ chans' = l
  BY DEF Becomes
<1>2. index.row \in Int
  <2>1. Len(index.groups) \in Int \/ index.row \in Int
    BY DEF Shows
  <2> QED BY DEF Shows
<1> DEFINE groups == GroupsOf(l)
           row == RailRow(index.row, groups)
<1>3. Len(groups) \in Nat
  BY GroupsAreListed
<1>4. row \in 0 .. 1 + Len(groups)
  <2>1. index.row \in Nat
    BY <1>2 DEF Shows
  <2> HIDE DEF groups
  <2> QED BY <1>3, <2>1 DEF RailRow
<1>5. index' = [groups |-> groups, row |-> row, filt |-> Filtered(l, groups, row)]
  BY <1>1 DEF Rebuilt
<1> HIDE DEF groups, row
<1>6. /\ DOMAIN index' = {"groups", "row", "filt"} /\ index'.groups = groups
      /\ index'.row = row /\ index'.filt = Filtered(l, groups, row)
  BY <1>5
<1> QED BY <1>1, <1>4, <1>6 DEF Shows, groups

\* A channel that keeps its place keeps its mark.
LEMMA GrownKeeps ==
  ASSUME ListInv, CurrentIsTuned, chans' \in Seq(Entries), Len(chans') >= Len(chans),
         \A i \in 1 .. Len(chans) : chans'[i].key = chans[i].key,
         UNCHANGED <<current, tuned, drifted>>
  PROVE  current' \in 0 .. Len(chans') /\ CurrentIsTuned'
<1>1. Len(chans) \in Nat /\ Len(chans') \in Nat /\ current \in 0 .. Len(chans)
  BY LenProperties DEF ListInv
<1>2. current # NoCur => current \in 1 .. Len(chans)
  BY <1>1 DEF NoCur
<1> QED BY <1>1, <1>2 DEF CurrentIsTuned

LEMMA PutKeeps ==
  ASSUME NEW l \in Seq(Entries), NEW e, e[1] \in Urls, e[2] \in Groups \cup {NoGroup},
         NEW skip, NEW key \in Nat
  PROVE  LET r == Put(l, e, skip, key)
         IN  /\ r \in Seq(Entries) /\ Len(r) >= Len(l) /\ Len(r) \in Nat
             /\ \A i \in 1 .. Len(l) : r[i] = l[i]
<1> DEFINE r == Put(l, e, skip, key)
           c == Channel(e[1], e[2], key + Len(l))
<1>1. Len(l) \in Nat
  BY LenProperties
<1>2. c \in Entries
  BY <1>1 DEF Channel, Entries
<1> HIDE DEF c
<1>3. /\ Append(l, c) \in Seq(Entries) /\ Len(Append(l, c)) = Len(l) + 1
      /\ \A i \in 1 .. Len(l) : Append(l, c)[i] = l[i]
  BY <1>2, AppendProperties
<1>4. r = l \/ r = Append(l, c)
  BY DEF Put, c
<1> HIDE DEF r
<1>5. /\ r \in Seq(Entries) /\ Len(r) >= Len(l) /\ Len(r) \in Nat
      /\ \A i \in 1 .. Len(l) : r[i] = l[i]
  BY <1>1, <1>3, <1>4
<1> QED BY <1>5 DEF r

LEMMA ExtendedKeeps ==
  ASSUME NEW l \in Seq(Entries), NEW p \in Playlists, NEW skip, NEW key \in Nat
  PROVE  LET r == Extended(l, p, skip, key)
         IN  /\ r \in Seq(Entries) /\ Len(r) >= Len(l)
             /\ \A i \in 1 .. Len(l) : r[i] = l[i]
<1> DEFINE a == Put(l, p[1], skip, key)
           r == Put(a, p[2], skip, key)
<1>1. /\ p[1][1] \in Urls /\ p[1][2] \in Groups \cup {NoGroup}
      /\ p[2][1] \in Urls /\ p[2][2] \in Groups \cup {NoGroup}
  BY DEF Playlists
<1>2. /\ a \in Seq(Entries) /\ Len(a) >= Len(l) /\ Len(a) \in Nat
      /\ \A i \in 1 .. Len(l) : a[i] = l[i]
  BY <1>1, PutKeeps
<1> HIDE DEF a
<1>3. /\ r \in Seq(Entries) /\ Len(r) >= Len(a) /\ Len(r) \in Nat
      /\ \A i \in 1 .. Len(a) : r[i] = a[i]
  BY <1>1, <1>2, PutKeeps
<1> HIDE DEF r
<1>4. Len(l) \in Nat
  BY LenProperties
<1>5. r \in Seq(Entries) /\ Len(r) >= Len(l) /\ \A i \in 1 .. Len(l) : r[i] = l[i]
  BY <1>2, <1>3, <1>4
<1> QED BY <1>5 DEF r, a, Extended

LEMMA KeyFacts ==
  ASSUME ListInv
  PROVE  NextKey(edits) \in Nat
<1>1. edits + 1 \in Nat /\ MaxChan + 1 \in Nat
  BY ChannelsAssumption DEF ListInv
<1>2. \A a, b \in Nat : a * b \in Nat
  OBVIOUS
<1> QED BY <1>1, <1>2 DEF NextKey

-----------------------------------------------------------------------------
(* The savers.                                                               *)

LEMMA SaverWaits ==
  ASSUME SaverInv, NEW t \in Writers, Saves(t), UNCHANGED <<onDisk, unsaved>>
  PROVE  SaverInv'
<1>1. /\ saver[t].at = "idle" /\ saver' = [saver EXCEPT ![t].at = "copy"]
      /\ saver \in [Writers -> [at : SaverStages, copy : Seq(Entries)]]
  BY DEF Saves, SaverInv
<1>2. saver' \in [Writers -> [at : SaverStages, copy : Seq(Entries)]]
  BY <1>1 DEF SaverStages
<1>3. saver'[t].at = "copy" /\ \A u \in Writers : u # t => saver'[u] = saver[u]
  BY <1>1
<1> QED BY <1>2, <1>3 DEF SaverInv, OnFile

LEMMA SaverCopies ==
  ASSUME ListInv, SaverInv, NEW t \in Writers, CopyList(t)
  PROVE  SaverInv'
<1>1. /\ saver[t].at = "copy" /\ onDisk' = onDisk /\ chans' = chans
      /\ saver \in [Writers -> [at : SaverStages, copy : Seq(Entries)]] /\ chans \in Seq(Entries)
  BY DEF CopyList, SaverInv, ListInv, stored
<1>2. CASE saver' = [saver EXCEPT ![t] = [at |-> "open", copy |-> chans]] /\ unsaved' = OthersSave(t)
  <2>1. saver' \in [Writers -> [at : SaverStages, copy : Seq(Entries)]]
    BY <1>1, <1>2 DEF SaverStages
  <2>2. /\ saver'[t].at = "open" /\ saver'[t].copy = chans
        /\ \A u \in Writers : u # t => saver'[u] = saver[u]
    BY <1>1, <1>2
  <2>3. ~unsaved' => \A u \in Writers : saver'[u].at \in OnFile => u = t
    BY <1>2, <2>2 DEF OthersSave, OnFile
  <2> QED BY <1>1, <1>2, <2>1, <2>2, <2>3 DEF SaverInv, OnFile
<1>3. CASE saver' = [saver EXCEPT ![t] = NotSaving] /\ unsaved' = TRUE
  <2>1. saver' \in [Writers -> [at : SaverStages, copy : Seq(Entries)]]
    BY <1>1, <1>3 DEF SaverStages, NotSaving
  <2> QED BY <1>3, <2>1 DEF SaverInv
<1> QED BY <1>2, <1>3 DEF CopyList

LEMMA SaverTruncates ==
  ASSUME SaverInv, NEW t \in Writers, Truncate(t)
  PROVE  SaverInv'
<1>1. /\ saver[t].at = "open" /\ chans' = chans
      /\ saver \in [Writers -> [at : SaverStages, copy : Seq(Entries)]]
  BY DEF Truncate, SaverInv, stored
<1>2. CASE onDisk' = <<>> /\ saver' = [saver EXCEPT ![t].at = "write"] /\ unsaved' = unsaved
  <2>1. saver' \in [Writers -> [at : SaverStages, copy : Seq(Entries)]]
    BY <1>1, <1>2 DEF SaverStages
  <2>2. /\ saver'[t].at = "write" /\ saver'[t].copy = saver[t].copy
        /\ \A u \in Writers : u # t => saver'[u] = saver[u]
    BY <1>1, <1>2
  <2> QED BY <1>1, <1>2, <2>1, <2>2 DEF SaverInv, OnFile
<1>3. CASE saver' = [saver EXCEPT ![t] = NotSaving] /\ unsaved' = TRUE
  <2>1. saver' \in [Writers -> [at : SaverStages, copy : Seq(Entries)]]
    BY <1>1, <1>3 DEF SaverStages, NotSaving
  <2> QED BY <1>3, <2>1 DEF SaverInv
<1> QED BY <1>2, <1>3 DEF Truncate

\* Into an empty file the copy is written as it is.
LEMMA WrittenAlone ==
  ASSUME NEW copy \in Seq(Entries), NEW cut \in {0, 1}
  PROVE  Over(copy, <<>>, cut) = copy
<1>1. Len(copy) \in Nat /\ <<>> \in Seq(Entries) /\ Len(<<>>) = 0
  BY LenProperties
<1>2. SubSeq(<<>>, Len(copy) + 1 + cut, Len(<<>>)) = <<>>
  <2>1. Len(copy) + 1 + cut \in Int /\ Len(copy) + 1 + cut > 0
    BY <1>1
  <2> QED BY <1>1, <2>1
<1> QED BY <1>2, ConcatEmptySeq DEF Over

LEMMA SaverWrites ==
  ASSUME SaverInv, ListInv, NEW t \in Writers, Write(t)
  PROVE  SaverInv'
<1>1. PICK n \in 0 .. Len(saver[t].copy), cut \in {0, 1} :
        /\ onDisk' = Over(SubSeq(saver[t].copy, 1, n), onDisk, cut)
        /\ unsaved' = (unsaved \/ n < Len(saver[t].copy))
  BY DEF Write
<1>2. /\ saver[t].at = "write" /\ saver' = [saver EXCEPT ![t] = NotSaving] /\ chans' = chans
      /\ saver \in [Writers -> [at : SaverStages, copy : Seq(Entries)]]
  BY DEF Write, SaverInv, stored
<1>3. saver' \in [Writers -> [at : SaverStages, copy : Seq(Entries)]]
  BY <1>2 DEF SaverStages, NotSaving
<1>4. saver'[t].at = "idle" /\ \A u \in Writers : u # t => saver'[u] = saver[u]
  BY <1>2 DEF NotSaving
<1>5. ASSUME ~unsaved'
      PROVE  /\ \A u \in Writers : saver'[u].at \notin OnFile
             /\ (\A u \in Writers : saver'[u].at # "copy") => onDisk' = chans
  <2>0. ~unsaved /\ n = Len(saver[t].copy) /\ SubSeq(saver[t].copy, 1, n) = saver[t].copy
    <3>1. saver[t].copy \in Seq(Entries) /\ Len(saver[t].copy) \in Nat
      BY <1>2, LenProperties
    <3>2. ~unsaved /\ n = Len(saver[t].copy)
      <4>1. ~unsaved /\ ~(n < Len(saver[t].copy))
        BY <1>1, <1>5, Zenon
      <4>2. n = Len(saver[t].copy)
        BY <3>1, <4>1
      <4> QED BY <4>1, <4>2
    <3>3. SubSeq(saver[t].copy, 1, Len(saver[t].copy)) = saver[t].copy
      BY <3>1, SubSeqFull, Zenon
    <3> QED BY <3>2, <3>3
  <2>1. \A u \in Writers : saver[u].at \in OnFile => u = t
    BY <1>2, <2>0 DEF SaverInv, OnFile
  <2>2. onDisk' = saver[t].copy
    BY <1>1, <1>2, <2>0, WrittenAlone DEF SaverInv
  <2>3. ASSUME \A u \in Writers : saver'[u].at # "copy"
        PROVE  saver[t].copy = chans
    <3>1. \A u \in Writers : saver[u].at # "copy"
      BY <1>2, <1>4, <2>3
    <3> QED BY <1>2, <2>0, <2>1, <3>1 DEF SaverInv
  <2> QED BY <1>4, <2>1, <2>2, <2>3 DEF OnFile
<1>6. \A u \in Writers : saver'[u].at \in SaverStages
  BY <1>3
<1> QED BY <1>2, <1>3, <1>5, <1>6 DEF SaverInv, OnFile, SaverStages

LEMMA SaverRests ==
  ASSUME SaverInv, UNCHANGED <<saver, chans, onDisk, unsaved>>
  PROVE  SaverInv'
BY DEF SaverInv

-----------------------------------------------------------------------------
(* The changes of the list.                                                  *)

\* What a change keeps: the file, the savers but the one that is to save it.
Filed == \E t \in Writers : Saves(t) /\ UNCHANGED <<onDisk, unsaved>>

LEMMA ChangeKeeps ==
  ASSUME ListedInv, Filed, chans' \in Seq(Entries), Shows(index', chans'), edits' \in Nat,
         drifted' = drifted, current' \in 0 .. Len(chans'), CurrentIsTuned'
  PROVE  ListedInv'
<1>1. SaverInv'
  BY SaverWaits DEF ListedInv, Filed
<1>2. ListInv'
  BY DEF ListedInv, ListInv, Filed
<1> QED BY <1>1, <1>2 DEF ListedInv

LEMMA EditsCount ==
  ASSUME ListInv, Edits
  PROVE  edits' \in Nat
BY DEF ListInv, Edits

LEMMA AddKeeps ==
  ASSUME ListedInv, AddChannel
  PROVE  ListedInv'
<1>1. /\ Edits /\ Saves("server") /\ UNCHANGED <<current, tuned, drifted, onDisk, unsaved>>
      /\ ListInv /\ Shows(index, chans) /\ CurrentIsTuned
  BY DEF AddChannel, HttpKeeps, ListedInv
<1>2. PICK url \in Urls, group \in Groups \cup {NoGroup} :
        Becomes(IF Len(chans) >= MaxChan THEN chans
                ELSE Append(chans, Channel(url, group, NextKey(edits))))
  BY DEF AddChannel
<1> DEFINE c == Channel(url, group, NextKey(edits))
<1>3. c \in Entries
  BY <1>1, KeyFacts DEF Channel, Entries
<1> HIDE DEF c
<1>4. /\ chans \in Seq(Entries) /\ Len(chans) \in Nat /\ Append(chans, c) \in Seq(Entries)
      /\ Len(Append(chans, c)) = Len(chans) + 1
      /\ \A i \in 1 .. Len(chans) : Append(chans, c)[i] = chans[i]
  BY <1>1, <1>3, AppendProperties, LenProperties DEF ListInv
<1>5. Becomes(chans) \/ Becomes(Append(chans, c))
  BY <1>2 DEF c
<1>6. Shows(index', chans')
  BY <1>1, <1>4, <1>5, BecomesShows
<1>7. /\ chans' \in Seq(Entries) /\ Len(chans') >= Len(chans)
      /\ \A i \in 1 .. Len(chans) : chans'[i].key = chans[i].key
  BY <1>4, <1>5 DEF Becomes
<1>8. current' \in 0 .. Len(chans') /\ CurrentIsTuned'
  BY <1>1, <1>7, GrownKeeps
<1> QED BY <1>1, <1>6, <1>7, <1>8, EditsCount, ChangeKeeps DEF Filed, Writers

\* Only fields other than the key are changed, at one place.
LEMMA ChangedKeeps ==
  ASSUME chans \in Seq(Entries), NEW n \in 1 .. Len(chans), NEW c \in Entries, c.key = chans[n].key
  PROVE  LET l == [chans EXCEPT ![n] = c]
         IN  /\ l \in Seq(Entries) /\ Len(l) = Len(chans)
             /\ \A i \in 1 .. Len(chans) : l[i].key = chans[i].key
<1>1. /\ [chans EXCEPT ![n] = c] \in Seq(Entries) /\ Len([chans EXCEPT ![n] = c]) = Len(chans)
      /\ \A i \in 1 .. Len(chans) : [chans EXCEPT ![n] = c][i] = IF i = n THEN c ELSE chans[i]
  BY ExceptSeq
<1> QED BY <1>1

LEMMA EditKeeps ==
  ASSUME ListedInv, EditChannel
  PROVE  ListedInv'
<1>1. /\ Edits /\ Saves("server") /\ UNCHANGED <<current, tuned, drifted, onDisk, unsaved>>
      /\ ListInv /\ Shows(index, chans) /\ CurrentIsTuned /\ chans \in Seq(Entries)
  BY DEF EditChannel, HttpKeeps, ListedInv, ListInv
<1>2. PICK n \in 1 .. MaxChan, url \in Urls, group \in Groups \cup {NoGroup} :
        IF InList(n) THEN Becomes([chans EXCEPT ![n].url = url, ![n].group = group])
        ELSE UNCHANGED <<chans, index>>
  BY DEF EditChannel
<1>3. CASE InList(n)
  <2> DEFINE c == [chans[n] EXCEPT !.url = url, !.group = group]
  <2>1. n \in 1 .. Len(chans) /\ chans[n] \in Entries
    BY <1>1, <1>3, ElementOfSeq DEF InList
  <2>2. c \in Entries /\ c.key = chans[n].key
    BY <2>1 DEF Entries
  <2>3. [chans EXCEPT ![n].url = url, ![n].group = group] = [chans EXCEPT ![n] = c]
    BY <1>1, <2>1
  <2> HIDE DEF c
  <2>4. Becomes([chans EXCEPT ![n] = c])
    BY <1>2, <1>3, <2>3
  <2>5. /\ [chans EXCEPT ![n] = c] \in Seq(Entries) /\ Len([chans EXCEPT ![n] = c]) = Len(chans)
        /\ \A i \in 1 .. Len(chans) : [chans EXCEPT ![n] = c][i].key = chans[i].key
    BY <1>1, <2>1, <2>2, ChangedKeeps
  <2>6. Shows(index', chans')
    BY <1>1, <2>4, <2>5, BecomesShows
  <2>7. /\ chans' \in Seq(Entries) /\ Len(chans') >= Len(chans)
        /\ \A i \in 1 .. Len(chans) : chans'[i].key = chans[i].key
    BY <1>1, <2>4, <2>5, LenProperties DEF Becomes
  <2>8. current' \in 0 .. Len(chans') /\ CurrentIsTuned'
    BY <1>1, <2>7, GrownKeeps
  <2> QED BY <1>1, <2>6, <2>7, <2>8, EditsCount, ChangeKeeps DEF Filed, Writers
<1>4. CASE ~InList(n)
  <2>1. UNCHANGED <<chans, index>>
    BY <1>2, <1>4
  <2>2. /\ chans' \in Seq(Entries) /\ Shows(index', chans') /\ current' \in 0 .. Len(chans')
        /\ CurrentIsTuned'
    BY <1>1, <2>1 DEF ListInv, CurrentIsTuned
  <2> QED BY <1>1, <2>2, EditsCount, ChangeKeeps DEF Filed, Writers
<1> QED BY <1>3, <1>4

\* Without a place: the mark moves up with its channel, or goes with it.
LEMMA DeleteKeeps ==
  ASSUME ListedInv, DeleteChannel
  PROVE  ListedInv'
<1>1. /\ Edits /\ Saves("server") /\ UNCHANGED <<tuned, drifted, onDisk, unsaved>>
      /\ ListInv /\ Shows(index, chans) /\ CurrentIsTuned /\ chans \in Seq(Entries)
  BY DEF DeleteChannel, HttpKeeps, ListedInv, ListInv
<1>2. PICK n \in 1 .. MaxChan :
        /\ Becomes(IF InList(n) THEN SubSeq(chans, 1, n - 1) \o SubSeq(chans, n + 1, Len(chans))
                   ELSE chans)
        /\ current' = IF InList(n) THEN CurAfterDelete(n) ELSE current
  BY DEF DeleteChannel
<1>3. CASE InList(n)
  <2> DEFINE head == SubSeq(chans, 1, n - 1)
             tail == SubSeq(chans, n + 1, Len(chans))
             l == head \o tail
  <2>1. /\ n \in Nat /\ n >= 1 /\ n <= Len(chans) /\ Len(chans) \in Nat
        /\ \A i \in 1 .. Len(chans) : chans[i] \in Entries
    BY <1>1, <1>3, LenProperties, ElementOfSeq DEF InList
  <2>2. /\ head \in Seq(Entries) /\ Len(head) = n - 1
        /\ \A i \in 1 .. n - 1 : head[i] = chans[i]
    BY <1>1, <2>1, SubSeqProperties
  <2>3. /\ tail \in Seq(Entries) /\ Len(tail) = Len(chans) - n
        /\ \A i \in 1 .. Len(chans) - n : tail[i] = chans[n + i]
    <3>1. /\ tail \in Seq(Entries)
          /\ Len(tail) = IF n + 1 <= Len(chans) THEN Len(chans) - (n + 1) + 1 ELSE 0
          /\ \A i \in 1 .. Len(chans) - (n + 1) + 1 : tail[i] = chans[n + 1 + i - 1]
      <4>1. n + 1 \in Int /\ Len(chans) \in Int /\ \A i \in n + 1 .. Len(chans) : chans[i] \in Entries
        BY <2>1
      <4> QED BY <4>1, SubSeqProperties
    <3> HIDE DEF tail
    <3>2. Len(tail) = Len(chans) - n
      BY <2>1, <3>1
    <3>3. ASSUME NEW i \in 1 .. Len(chans) - n
          PROVE  tail[i] = chans[n + i]
      <4>1. i \in 1 .. Len(chans) - (n + 1) + 1 /\ n + 1 + i - 1 = n + i
        BY <2>1
      <4> QED BY <3>1, <4>1
    <3> QED BY <3>1, <3>2, <3>3
  <2> HIDE DEF head, tail
  <2>4. /\ l \in Seq(Entries) /\ Len(l) = n - 1 + (Len(chans) - n)
        /\ \A i \in 1 .. Len(l) :
             l[i] = IF i <= n - 1 THEN head[i] ELSE tail[i - (n - 1)]
    <3>1. /\ l \in Seq(Entries) /\ Len(l) = Len(head) + Len(tail)
          /\ \A i \in 1 .. Len(head) + Len(tail) :
               l[i] = IF i <= Len(head) THEN head[i] ELSE tail[i - Len(head)]
      BY <2>2, <2>3, ConcatProperties
    <3> HIDE DEF l
    <3> QED BY <2>2, <2>3, <3>1
  <2>5. Becomes(l) /\ current' = CurAfterDelete(n)
    BY <1>2, <1>3 DEF head, tail
  <2> HIDE DEF l
  <2>6. Len(l) = Len(chans) - 1
    BY <2>1, <2>4
  <2>7. /\ \A i \in 1 .. n - 1 : l[i] = chans[i]
        /\ \A i \in n .. Len(l) : l[i] = chans[i + 1]
    <3>1. ASSUME NEW i \in 1 .. n - 1
          PROVE  l[i] = chans[i]
      <4>1. i \in 1 .. Len(l) /\ i <= n - 1
        BY <2>1, <2>4
      <4>2. l[i] = head[i]
        BY <2>4, <4>1
      <4> QED BY <2>2, <4>2
    <3>2. ASSUME NEW i \in n .. Len(l)
          PROVE  l[i] = chans[i + 1]
      <4>1. /\ i \in 1 .. Len(l) /\ ~(i <= n - 1) /\ i - (n - 1) \in 1 .. Len(chans) - n
            /\ n + (i - (n - 1)) = i + 1
        BY <2>1, <2>6
      <4>2. l[i] = tail[i - (n - 1)]
        BY <2>4, <4>1
      <4>3. tail[i - (n - 1)] = chans[n + (i - (n - 1))]
        BY <2>3, <4>1
      <4> QED BY <4>1, <4>2, <4>3
    <3> QED BY <3>1, <3>2
  <2>8. chans' = l
    BY <2>5 DEF Becomes
  <2>9. Shows(index', chans')
    BY <1>1, <2>4, <2>5, BecomesShows
  <2>10. current \in 0 .. Len(chans)
    BY <1>1 DEF ListInv
  <2>11. current' \in 0 .. Len(l)
    BY <2>1, <2>5, <2>6, <2>10 DEF CurAfterDelete, NoCur
  <2>12. ASSUME current' # NoCur
         PROVE  current # NoCur /\ l[current'] = chans[current]
    <3>1. CASE current > n
      <4>1. current' = current - 1 /\ current - 1 \in n .. Len(l) /\ current - 1 + 1 = current
        BY <2>1, <2>5, <2>6, <2>10, <3>1 DEF CurAfterDelete, NoCur
      <4> QED BY <2>1, <2>7, <3>1, <4>1 DEF NoCur
    <3>2. CASE ~(current > n)
      <4>1. current' = current /\ current \in 1 .. n - 1
        BY <2>1, <2>5, <2>10, <2>12, <3>2 DEF CurAfterDelete, NoCur
      <4> QED BY <2>7, <4>1 DEF NoCur
    <3> QED BY <3>1, <3>2
  <2>13. CurrentIsTuned'
    BY <1>1, <2>8, <2>12 DEF CurrentIsTuned
  <2> QED BY <1>1, <2>4, <2>8, <2>9, <2>11, <2>13, EditsCount, ChangeKeeps DEF Filed, Writers
<1>4. CASE ~InList(n)
  <2>1. Becomes(chans) /\ current' = current
    BY <1>2, <1>4
  <2>2. chans' = chans /\ Shows(index', chans')
    BY <1>1, <2>1, BecomesShows DEF Becomes
  <2>3. /\ chans' \in Seq(Entries) /\ current' \in 0 .. Len(chans') /\ CurrentIsTuned'
    BY <1>1, <2>1, <2>2 DEF ListInv, CurrentIsTuned
  <2> QED BY <1>1, <2>2, <2>3, EditsCount, ChangeKeeps DEF Filed, Writers
<1> QED BY <1>3, <1>4

LEMMA ToggleKeeps ==
  ASSUME ListedInv, NEW t \in Writers, NEW n, ToggleFav(t, n), edits' \in Nat
  PROVE  ListedInv'
<1>1. /\ Saves(t) /\ UNCHANGED <<current, tuned, drifted, onDisk, unsaved>> /\ chans' = Toggled(n)
      /\ ListInv /\ Shows(index, chans) /\ CurrentIsTuned /\ chans \in Seq(Entries)
      /\ index' = IF InList(n) THEN Refiltered(chans') ELSE index
  BY DEF ToggleFav, ListedInv, ListInv
<1>2. CASE InList(n)
  <2> DEFINE c == [chans[n] EXCEPT !.fav = ~@]
             l == [chans EXCEPT ![n] = c]
  <2>1. n \in 1 .. Len(chans) /\ chans[n] \in Entries
    BY <1>1, <1>2, ElementOfSeq DEF InList
  <2>2. c \in Entries /\ c.key = chans[n].key /\ c.group = chans[n].group
    BY <2>1 DEF Entries
  <2>3. [chans EXCEPT ![n].fav = ~@] = l
    BY <1>1, <2>1
  <2>4. chans' = l
    BY <1>1, <1>2, <2>3 DEF Toggled
  <2> HIDE DEF c
  <2>5. /\ l \in Seq(Entries) /\ Len(l) = Len(chans)
        /\ \A i \in 1 .. Len(chans) : l[i].key = chans[i].key
    BY <1>1, <2>1, <2>2, ChangedKeeps
  <2>6. \A i \in 1 .. Len(chans) : l[i].group = chans[i].group
    <3>1. \A i \in 1 .. Len(chans) : l[i] = IF i = n THEN c ELSE chans[i]
      BY <1>1, <2>1, <2>2, ExceptSeq
    <3> QED BY <2>2, <3>1
  <2> HIDE DEF l
  <2>7. GroupsOf(l) = GroupsOf(chans)
    BY <2>5, <2>6, SameGroups
  <2>8. index' = [index EXCEPT !.filt = Filtered(l, index.groups, index.row)]
    BY <1>1, <1>2, <2>4 DEF Refiltered
  <2>9. /\ DOMAIN index' = DOMAIN index /\ index'.groups = index.groups /\ index'.row = index.row
        /\ index'.filt = Filtered(l, index.groups, index.row)
    BY <1>1, <2>8 DEF Shows
  <2>10. Shows(index', chans')
    BY <1>1, <2>4, <2>7, <2>9 DEF Shows
  <2>11. /\ chans' \in Seq(Entries) /\ Len(chans') >= Len(chans)
         /\ \A i \in 1 .. Len(chans) : chans'[i].key = chans[i].key
    BY <1>1, <2>4, <2>5, LenProperties
  <2>12. current' \in 0 .. Len(chans') /\ CurrentIsTuned'
    BY <1>1, <2>11, GrownKeeps
  <2> QED BY <1>1, <2>10, <2>11, <2>12, ChangeKeeps DEF Filed
<1>3. CASE ~InList(n)
  <2>1. chans' = chans /\ index' = index
    BY <1>1, <1>3 DEF Toggled
  <2>2. /\ chans' \in Seq(Entries) /\ Shows(index', chans') /\ current' \in 0 .. Len(chans')
        /\ CurrentIsTuned'
    BY <1>1, <2>1 DEF ListInv, CurrentIsTuned
  <2> QED BY <1>1, <2>2, ChangeKeeps DEF Filed
<1> QED BY <1>2, <1>3

\* A list that takes the place of the old one, with no channel marked.
LEMMA ReplacedKeeps ==
  ASSUME ListedInv, Edits, NEW t \in Writers, Saves(t), NEW l \in Seq(Entries), Becomes(l),
         current' = NoCur, UNCHANGED <<tuned, drifted>>, UNCHANGED <<onDisk, unsaved>>
  PROVE  ListedInv'
<1>1. Shows(index', chans') /\ chans' = l
  BY BecomesShows DEF Becomes, ListedInv
<1>2. current' \in 0 .. Len(chans') /\ CurrentIsTuned'
  <2>1. Len(l) \in Nat
    BY LenProperties
  <2> QED BY <1>1, <2>1 DEF NoCur, CurrentIsTuned
<1>3. edits' \in Nat
  BY EditsCount DEF ListedInv
<1> QED BY <1>1, <1>2, <1>3, ChangeKeeps DEF Filed

LEMMA ListingKeeps ==
  ASSUME ListedInv, Listing
  PROVE  ListedInv'
<1>1. CASE AddChannel \/ EditChannel \/ DeleteChannel
  BY <1>1, AddKeeps, EditKeeps, DeleteKeeps
<1>2. CASE ClearChannels
  <2>1. /\ <<>> \in Seq(Entries) /\ Edits /\ Saves("server") /\ Becomes(<<>>) /\ current' = NoCur
        /\ UNCHANGED <<tuned, drifted>> /\ UNCHANGED <<onDisk, unsaved>>
    BY <1>2 DEF ClearChannels, HttpKeeps
  <2> QED BY <2>1, ReplacedKeeps DEF Writers
<1>3. CASE FavByPhone
  <2>1. PICK n \in 1 .. MaxChan : ToggleFav("server", n)
    BY <1>3 DEF FavByPhone
  <2>2. edits' \in Nat
    BY <1>3, EditsCount DEF FavByPhone, ListedInv
  <2> QED BY <2>1, <2>2, ToggleKeeps DEF Writers
<1>4. CASE LoadPlaylist
  <2>1. PICK p \in Playlists : Becomes(Extended(<<>>, p, FALSE, NextKey(edits)))
    BY <1>4 DEF LoadPlaylist
  <2>2. Extended(<<>>, p, FALSE, NextKey(edits)) \in Seq(Entries)
    <3>1. <<>> \in Seq(Entries) /\ NextKey(edits) \in Nat
      BY KeyFacts DEF ListedInv
    <3> QED BY <3>1, ExtendedKeeps
  <2> QED BY <1>4, <2>1, <2>2, ReplacedKeeps DEF LoadPlaylist, HttpKeeps, Writers
<1>5. CASE AddPlaylist
  <2>1. /\ Edits /\ UNCHANGED <<current, tuned, drifted, onDisk, unsaved>>
        /\ ListInv /\ Shows(index, chans) /\ CurrentIsTuned /\ chans \in Seq(Entries)
        /\ NextKey(edits) \in Nat
    BY <1>5, KeyFacts DEF AddPlaylist, HttpKeeps, ListedInv, ListInv
  <2>2. PICK p \in Playlists :
          Becomes(Extended(chans, p, TRUE, NextKey(edits))) /\ Saves("worker")
    BY <1>5 DEF AddPlaylist
  <2> DEFINE l == Extended(chans, p, TRUE, NextKey(edits))
  <2>3. l \in Seq(Entries) /\ Len(l) >= Len(chans) /\ \A i \in 1 .. Len(chans) : l[i] = chans[i]
    BY <2>1, ExtendedKeeps
  <2> HIDE DEF l
  <2>4. Becomes(l)
    BY <2>2 DEF l
  <2>5. Shows(index', chans') /\ chans' = l
    BY <2>1, <2>3, <2>4, BecomesShows DEF Becomes
  <2>6. current' \in 0 .. Len(chans') /\ CurrentIsTuned'
    BY <2>1, <2>3, <2>5, GrownKeeps
  <2> QED BY <2>1, <2>2, <2>3, <2>5, <2>6, EditsCount, ChangeKeeps DEF Filed, Writers
<1> QED BY <1>1, <1>2, <1>3, <1>4, <1>5 DEF Listing

-----------------------------------------------------------------------------
(* Tuning, the pad, the file, and the whole.                                 *)

LEMMA ChoosingKeeps ==
  ASSUME ListedInv, Choosing
  PROVE  ListedInv'
<1>1. ListInv /\ Shows(index, chans) /\ CurrentIsTuned /\ SaverInv
  BY DEF ListedInv
<1>2. Len(chans) \in Nat
  BY <1>1, LenProperties DEF ListInv
<1>3. CASE Tune
  <2>1. PICK n \in 1 .. Len(chans) : current' = n /\ tuned' = chans[n].key /\ drifted' = FALSE
    BY <1>3 DEF Tune
  <2>2. UNCHANGED <<chans, index, saver, onDisk, unsaved>> /\ edits' \in Nat
    BY <1>1, <1>3, EditsCount DEF Tune, HttpKeeps
  <2>3. SaverInv'
    BY <1>1, <2>2, SaverRests
  <2>5. Shows(index', chans')
    BY <1>1, <2>2
  <2>6. chans' \in Seq(Entries) /\ onDisk' \in Seq(Entries) /\ unsaved' \in BOOLEAN
    BY <1>1, <2>2 DEF ListInv
  <2>7. current' \in 0 .. Len(chans')
    BY <1>2, <2>1, <2>2
  <2>8. ListInv'
    BY <2>1, <2>2, <2>6, <2>7 DEF ListInv
  <2>9. CurrentIsTuned'
    BY <2>1, <2>2 DEF CurrentIsTuned
  <2> QED BY <2>3, <2>5, <2>8, <2>9 DEF ListedInv
<1>4. CASE CastClears
  <2>1. current' = NoCur /\ UNCHANGED <<chans, index, drifted, onDisk, saver, unsaved, edits>>
    BY <1>4 DEF CastClears
  <2>2. SaverInv'
    BY <1>1, <2>1, SaverRests
  <2>3. Shows(index', chans')
    BY <1>1, <2>1
  <2>4. ListInv' /\ CurrentIsTuned'
    BY <1>1, <1>2, <2>1 DEF ListInv, CurrentIsTuned, NoCur
  <2> QED BY <2>2, <2>3, <2>4 DEF ListedInv
<1>5. CASE PadSelectsRow
  <2>1. PICK row \in 0 .. 1 + Len(index.groups) :
          index' = [index EXCEPT !.row = row, !.filt = Filtered(chans, index.groups, row)]
    BY <1>5 DEF PadSelectsRow
  <2>2. /\ DOMAIN index' = DOMAIN index /\ index'.groups = index.groups /\ index'.row = row
        /\ index'.filt = Filtered(chans, index.groups, row)
    BY <1>1, <2>1 DEF Shows
  <2>3. UNCHANGED <<chans, current, tuned, drifted, saver, onDisk, unsaved>> /\ edits' \in Nat
    BY <1>1, <1>5, EditsCount DEF PadSelectsRow, HttpKeeps
  <2>4. Shows(index', chans')
    BY <1>1, <2>2, <2>3 DEF Shows
  <2>5. SaverInv' /\ ListInv' /\ CurrentIsTuned'
    BY <1>1, <2>3, SaverRests DEF ListInv, CurrentIsTuned
  <2> QED BY <2>4, <2>5 DEF ListedInv
<1>6. CASE PadLooks \/ PadGets
  <2>1. UNCHANGED <<chans, index, current, tuned, drifted, saver, onDisk, unsaved>> /\ edits' \in Nat
    BY <1>1, <1>6, EditsCount DEF PadLooks, PadGets, stored, ListInv
  <2> QED BY <1>1, <2>1, SaverRests DEF ListedInv, ListInv, CurrentIsTuned
<1>7. CASE PadToggles
  <2>1. ToggleFav("main", hand.n) /\ edits' \in Nat
    BY <1>1, <1>7 DEF PadToggles, ListInv
  <2> QED BY <2>1, ToggleKeeps DEF Writers
<1>8. CASE PadMarks
  <2>1. /\ UNCHANGED <<chans, index, onDisk, saver, unsaved, edits>>
        /\ \/ /\ hand.n \in 1 .. Len(chans) /\ current' = hand.n /\ tuned' = hand.key
              /\ drifted' = (chans[hand.n].key # hand.key)
           \/ UNCHANGED <<current, tuned, drifted>>
    BY <1>8 DEF PadMarks, InList
  <2>2. SaverInv'
    BY <1>1, <2>1, SaverRests
  <2>3. Shows(index', chans')
    BY <1>1, <2>1
  <2>4. /\ chans' \in Seq(Entries) /\ onDisk' \in Seq(Entries) /\ unsaved' \in BOOLEAN
        /\ edits' \in Nat
    BY <1>1, <2>1 DEF ListInv
  <2>5. CASE UNCHANGED <<current, tuned, drifted>>
    <3>1. ListInv' /\ CurrentIsTuned'
      BY <1>1, <2>1, <2>4, <2>5 DEF ListInv, CurrentIsTuned
    <3> QED BY <2>2, <2>3, <3>1 DEF ListedInv
  <2>6. CASE /\ hand.n \in 1 .. Len(chans) /\ current' = hand.n /\ tuned' = hand.key
             /\ drifted' = (chans[hand.n].key # hand.key)
    <3>1. current' \in 0 .. Len(chans')
      BY <1>2, <2>1, <2>6
    <3>2. drifted' \in BOOLEAN
      BY <2>6
    <3>3. drifted' \/ chans[hand.n].key = hand.key
      BY <2>6
    <3>4. CurrentIsTuned'
      BY <2>1, <2>6, <3>3 DEF CurrentIsTuned
    <3>5. ListInv'
      BY <2>4, <3>1, <3>2 DEF ListInv
    <3> QED BY <2>2, <2>3, <3>4, <3>5 DEF ListedInv
  <2> QED BY <2>1, <2>5, <2>6
<1> QED BY <1>3, <1>4, <1>5, <1>6, <1>7, <1>8 DEF Choosing

LEMMA SavingKeeps ==
  ASSUME ListedInv, Saving
  PROVE  ListedInv'
<1>1. PICK t \in Writers : CopyList(t) \/ Truncate(t) \/ Write(t)
  BY DEF Saving
<1>2. ListInv /\ Shows(index, chans) /\ CurrentIsTuned /\ SaverInv
  BY DEF ListedInv
<1>3. SaverInv'
  BY <1>1, <1>2, SaverCopies, SaverTruncates, SaverWrites
<1>4. UNCHANGED <<chans, index, current, tuned, drifted, edits>>
  BY <1>1 DEF CopyList, Truncate, Write, stored
<1>5. onDisk' \in Seq(Entries) /\ unsaved' \in BOOLEAN
  <2>1. CASE CopyList(t)
    <3>1. /\ onDisk' = onDisk
          /\ unsaved' = (\E u \in Writers \ {t} : saver[u].at \in {"open", "write"}) \/ unsaved' = TRUE
      BY <2>1 DEF CopyList, OthersSave
    <3>2. (\E u \in Writers \ {t} : saver[u].at \in {"open", "write"}) \in BOOLEAN
      BY Zenon
    <3> QED BY <1>2, <3>1, <3>2 DEF ListInv
  <2>2. CASE Truncate(t)
    <3>1. \/ onDisk' = <<>> /\ unsaved' = unsaved
          \/ onDisk' = onDisk /\ unsaved' = TRUE
      BY <2>2 DEF Truncate
    <3>2. <<>> \in Seq(Entries)
      OBVIOUS
    <3> QED BY <1>2, <3>1, <3>2 DEF ListInv
  <2>3. CASE Write(t)
    <3>1. PICK n \in 0 .. Len(saver[t].copy), cut \in {0, 1} :
            /\ onDisk' = Over(SubSeq(saver[t].copy, 1, n), onDisk, cut)
            /\ unsaved' = (unsaved \/ n < Len(saver[t].copy))
      BY <2>3 DEF Write
    <3>2. saver[t].copy \in Seq(Entries) /\ onDisk \in Seq(Entries) /\ Len(saver[t].copy) \in Nat
      BY <1>2, <2>3, LenProperties DEF SaverInv, ListInv, Write
    <3> DEFINE written == SubSeq(saver[t].copy, 1, n)
    <3>3. written \in Seq(Entries) /\ Len(written) \in Nat
      <4>1. \A i \in 1 .. n : saver[t].copy[i] \in Entries
        BY <3>2, ElementOfSeq
      <4> QED BY <3>2, <4>1, SubSeqProperties, LenProperties
    <3> HIDE DEF written
    <3>4. SubSeq(onDisk, Len(written) + 1 + cut, Len(onDisk)) \in Seq(Entries)
      <4>1. Len(onDisk) \in Nat
        BY <3>2, LenProperties
      <4>2. \A i \in Len(written) + 1 + cut .. Len(onDisk) : onDisk[i] \in Entries
        <5> TAKE i \in Len(written) + 1 + cut .. Len(onDisk)
        <5>1. i \in 1 .. Len(onDisk)
          BY <3>3, <4>1
        <5> QED BY <3>2, <5>1, ElementOfSeq
      <4>3. Len(written) + 1 + cut \in Int /\ Len(onDisk) \in Int
        BY <3>3, <4>1
      <4> QED BY <3>2, <4>2, <4>3, SubSeqProperties
    <3>5. onDisk' = Over(written, onDisk, cut) /\ unsaved' \in BOOLEAN
      BY <1>2, <3>1 DEF written, ListInv
    <3> QED BY <3>3, <3>4, <3>5, ConcatProperties DEF Over
  <2> QED BY <1>1, <2>1, <2>2, <2>3
<1> QED BY <1>2, <1>3, <1>4, <1>5 DEF ListedInv, ListInv, CurrentIsTuned

\* The rail of a list that has just been read.
LEMMA LoadedShows ==
  ASSUME NEW l \in Seq(Entries)
  PROVE  Shows(Loaded(l), l)
<1>1. Len(GroupsOf(l)) \in Nat
  BY GroupsAreListed
<1>2. 0 \in 0 .. 1 + Len(GroupsOf(l))
  BY <1>1
<1> DEFINE ix == Loaded(l)
<1>3. /\ DOMAIN ix = {"groups", "row", "filt"} /\ ix.groups = GroupsOf(l) /\ ix.row = 0
      /\ ix.filt = Filtered(l, GroupsOf(l), 0)
  BY DEF Loaded
<1> HIDE DEF ix
<1>4. Shows(ix, l)
  BY <1>2, <1>3 DEF Shows
<1> QED BY <1>4 DEF ix

LEMMA RestartKeeps ==
  ASSUME ListedInv, Restart
  PROVE  ListedInv'
<1>1. /\ chans' = onDisk /\ current' = NoCur /\ onDisk' = onDisk /\ onDisk \in Seq(Entries)
      /\ drifted' = FALSE /\ unsaved' = FALSE /\ edits' \in Nat
      /\ saver' = [t \in Writers |-> NotSaving] /\ index' = Loaded(onDisk)
  BY EditsCount DEF Restart, ListedInv, ListInv
<1>2. SaverInv'
  BY <1>1 DEF SaverInv, NotSaving, SaverStages, OnFile
<1>3. ListInv' /\ CurrentIsTuned'
  <2>1. Len(onDisk) \in Nat
    BY <1>1, LenProperties
  <2>2. current' \in 0 .. Len(chans')
    BY <1>1, <2>1 DEF NoCur
  <2> QED BY <1>1, <2>2 DEF ListInv, CurrentIsTuned
<1>4. Shows(index', chans')
  BY <1>1, LoadedShows
<1> QED BY <1>2, <1>3, <1>4 DEF ListedInv

\* Whatever the pad, the phone and the worker do at the same time, the rail is that of the
\* list, the mark is at the channel that was tuned, and an unspoilt file is either the list
\* or about to become it.
THEOREM ListInvariant == ChannelsSpec => []ListedInv
<1>1. ChannelsInit => ListedInv
  <2> SUFFICES ASSUME ChannelsInit PROVE ListedInv
    OBVIOUS
  <2>1. /\ chans = <<>> /\ onDisk = <<>> /\ current = 0 /\ edits = 0 /\ drifted = FALSE
        /\ unsaved = FALSE /\ saver = [t \in Writers |-> NotSaving] /\ index = Loaded(<<>>)
    BY DEF ChannelsInit, NoCur
  <2>2. <<>> \in Seq(Entries) /\ Len(<<>>) = 0
    OBVIOUS
  <2>3. ListInv /\ CurrentIsTuned
    <3>1. chans \in Seq(Entries) /\ onDisk \in Seq(Entries) /\ Len(chans) = 0
      BY <2>1, <2>2
    <3>2. current \in 0 .. Len(chans)
      BY <2>1, <3>1
    <3> QED BY <2>1, <3>1, <3>2 DEF ListInv, CurrentIsTuned, NoCur
  <2>4. Shows(index, chans)
    BY <2>1, <2>2, LoadedShows
  <2>5. SaverInv
    BY <2>1, <2>2 DEF SaverInv, NotSaving, SaverStages, OnFile
  <2> QED BY <2>3, <2>4, <2>5 DEF ListedInv
<1>2. ListedInv /\ [ChannelsNext]_channelsVars => ListedInv'
  <2> SUFFICES ASSUME ListedInv, [ChannelsNext]_channelsVars PROVE ListedInv'
    OBVIOUS
  <2>1. CASE UNCHANGED channelsVars
    <3>1. UNCHANGED <<chans, index, current, onDisk, saver, tuned, drifted, unsaved, edits>>
      BY <2>1 DEF channelsVars
    <3>2. ListInv' /\ CurrentIsTuned'
      BY <3>1 DEF ListedInv, ListInv, CurrentIsTuned
    <3>3. Shows(index', chans')
      BY <3>1 DEF ListedInv
    <3>4. SaverInv'
      BY <3>1, SaverRests DEF ListedInv
    <3> QED BY <3>2, <3>3, <3>4 DEF ListedInv
  <2> QED BY <2>1, ListingKeeps, SavingKeeps, ChoosingKeeps, RestartKeeps DEF ChannelsNext
<1> QED BY <1>1, <1>2, PTL DEF ChannelsSpec

\* Screen, mark and file are those of the list as it is.
THEOREM ChannelsStaySound == ChannelsSpec => []ChannelsAreSound
<1>1. ListedInv => ChannelsAreSound
  <2> SUFFICES ASSUME ListedInv PROVE ChannelsAreSound
    OBVIOUS
  <2>1. ShownIsListed
    <3>1. Len(GroupsOf(chans)) \in Nat
      BY GroupsAreListed DEF ListedInv, ListInv
    <3> QED BY <3>1 DEF ListedInv, Shows, ShownIsListed
  <2>2. FileFollows
    <3> SUFFICES ASSUME \A t \in Writers : saver[t].at = "idle", ~unsaved
                 PROVE  onDisk = chans
      BY DEF FileFollows
    <3>1. "main" \in Writers
      BY DEF Writers
    <3> QED BY <3>1 DEF ListedInv, SaverInv, OnFile
  <2>3. CurrentIsListed
    BY DEF ListedInv, ListInv, CurrentIsListed, InList, NoCur
  <2> QED BY <2>1, <2>2, <2>3 DEF ListedInv, ChannelsAreSound
<1> QED BY <1>1, ListInvariant, PTL

-----------------------------------------------------------------------------
(* The address the receiver believes in.                                    *)

Places == Addresses \cup {NoAddress}
AddressTypes ==
  /\ ReachTypeOK
  /\ watch \in [ip : Places, cand : Places, candSeen : Nat, missing : Nat]
  /\ monitor \in [at : {"poll", "publish", "count", "tell"},
                  event : {"none", "up", "down", "changed"}]
  /\ screen \in [at : {"frame", "read"}, gen : Int, ip : Places]
  /\ shared \in [ip : Places, gen : Nat]
  /\ ssdp \in [up : BOOLEAN, pend : Places, dirty : BOOLEAN, at : {"wait", "say"},
               ip : Places, says : Places]
  /\ recent \in Seq(Places) /\ before \in Places

\* The last n observations were x, and the one before them was not.
RunOf(n, x) == Held(n, x) /\ ~Held(n + 1, x)

\* The counters of the watch are counts of the last observations: of the candidate,
\* which is another than the address, or of nothing at all.
CountsAreTrue ==
  /\ watch.candSeen = 0 <=> watch.cand = NoAddress
  /\ watch.ip = NoAddress =>
       /\ watch.missing = 0 /\ watch.candSeen = 0
       /\ \A x \in Addresses : ~Held(1, x)
  /\ watch.ip # NoAddress => RunOf(watch.missing, NoAddress)
  /\ watch.cand # NoAddress =>
       watch.missing = 0 /\ watch.cand # watch.ip /\ RunOf(watch.candSeen, watch.cand)
  /\ watch.ip # NoAddress /\ watch.cand = NoAddress /\ watch.missing = 0 => Held(1, watch.ip)

WatchInv == AddressTypes /\ CountsAreTrue /\ Debounced

LEMMA MemoryReaches == Memory \in Nat /\ Confirm <= Memory /\ Loss <= Memory
BY ReachabilityAssumption DEF Memory

\* One observation more: it is x, and so were the n before it.
LEMMA Observed ==
  ASSUME WatchInv, Poll, NEW x, NEW n \in Nat
  PROVE  /\ Held(0, x)'
         /\ n < Memory => (Held(n + 1, x)' <=> x = address /\ Held(n, x))
<1> DEFINE a == address
           all == <<a>> \o recent
           k == IF Len(recent) < Memory THEN Len(recent) + 1 ELSE Memory
<1>1. /\ recent \in Seq(Places) /\ Len(recent) \in Nat /\ a \in Places /\ recent' = SubSeq(all, 1, k)
  BY DEF WatchInv, AddressTypes, ReachTypeOK, Places, Poll
<1>2. /\ all \in Seq(Places) /\ Len(all) = Len(recent) + 1
      /\ \A i \in 1 .. Len(all) : all[i] = IF i = 1 THEN a ELSE recent[i - 1]
  BY <1>1
<1>3. k \in Nat /\ k <= Len(all)
  BY <1>1, <1>2, MemoryReaches
<1> HIDE DEF all
<1>4. /\ Len(recent') = k /\ \A i \in 1 .. k : recent'[i] = all[i]
  BY <1>1, <1>2, <1>3
<1>5. Held(0, x)'
  BY <1>3, <1>4 DEF Held
<1>6. ASSUME n < Memory
      PROVE  Held(n + 1, x)' <=> x = a /\ Held(n, x)
  <2>1. k >= n + 1 <=> Len(recent) >= n
    BY <1>1, <1>6, MemoryReaches
  <2>2. ASSUME k >= n + 1
        PROVE  (\A i \in 1 .. n + 1 : recent'[i] = x) <=> x = a /\ \A i \in 1 .. n : recent[i] = x
    <3>1. \A i \in 1 .. n + 1 : recent'[i] = IF i = 1 THEN a ELSE recent[i - 1]
      BY <1>2, <1>3, <1>4, <2>2
    <3>2. ASSUME \A i \in 1 .. n + 1 : recent'[i] = x
          PROVE  x = a /\ \A i \in 1 .. n : recent[i] = x
      <4>1. x = a
        BY <3>1, <3>2
      <4>2. ASSUME NEW i \in 1 .. n PROVE recent[i] = x
        <5>1. i + 1 \in 1 .. n + 1 /\ i + 1 # 1 /\ (i + 1) - 1 = i
          OBVIOUS
        <5> QED BY <3>1, <3>2, <5>1
      <4> QED BY <4>1, <4>2
    <3>3. ASSUME x = a, \A i \in 1 .. n : recent[i] = x
          PROVE  \A i \in 1 .. n + 1 : recent'[i] = x
      <4> TAKE i \in 1 .. n + 1
      <4>1. i # 1 => i - 1 \in 1 .. n
        OBVIOUS
      <4> QED BY <3>1, <3>3, <4>1
    <3> QED BY <3>2, <3>3
  <2> QED BY <1>4, <2>1, <2>2 DEF Held
<1> QED BY <1>5, <1>6

LEMMA HeldShorter ==
  ASSUME NEW m \in Nat, NEW n \in Nat, m <= n, NEW x, Held(n, x), recent \in Seq(Places)
  PROVE  Held(m, x)
BY DEF Held

LEMMA HeldOnce ==
  ASSUME NEW x, NEW y, NEW n \in Nat \ {0}, Held(n, x), Held(1, y), recent \in Seq(Places)
  PROVE  x = y
BY DEF Held

\* What netwatch_feed makes of a watch w and an observation a, field by field.
FedTo(w, a, v) ==
  \/ /\ a = NoAddress /\ v.cand = NoAddress /\ v.candSeen = 0
     /\ \/ w.ip = NoAddress /\ v.ip = w.ip /\ v.missing = w.missing
        \/ /\ w.ip # NoAddress /\ w.missing + 1 < Loss
           /\ v.ip = w.ip /\ v.missing = w.missing + 1
        \/ w.ip # NoAddress /\ w.missing + 1 >= Loss /\ v.ip = NoAddress /\ v.missing = 0
  \/ /\ a # NoAddress /\ v.missing = 0
     /\ \/ w.ip = NoAddress /\ v.ip = a /\ v.cand = NoAddress /\ v.candSeen = 0
        \/ w.ip = a /\ v.ip = a /\ v.cand = NoAddress /\ v.candSeen = 0
        \/ /\ w.ip # NoAddress /\ w.ip # a
           /\ \E n \in Nat :
                /\ \/ a = w.cand /\ n = w.candSeen + 1
                   \/ a # w.cand /\ n = 1
                /\ \/ n < Confirm /\ v.ip = w.ip /\ v.cand = a /\ v.candSeen = n
                   \/ n >= Confirm /\ v.ip = a /\ v.cand = NoAddress /\ v.candSeen = 0

LEMMA Fed ==
  ASSUME WatchInv, Poll
  PROVE  /\ watch' \in [ip : Places, cand : Places, candSeen : Nat, missing : Nat]
         /\ before' = watch.ip /\ FedTo(watch, address, watch')
<1> DEFINE w == watch
           Watches == [ip : Places, cand : Places, candSeen : Nat, missing : Nat]
<1> USE DEF FedTo
<1>1. /\ w \in Watches /\ address \in Places /\ before' = w.ip
      /\ watch' = Feed(w, address).w /\ NoAddress \in Places
  BY DEF WatchInv, AddressTypes, ReachTypeOK, Places, Poll
<1>2. CASE address = NoAddress
  <2>1. Feed(w, address) = Missing(w)
    BY <1>2 DEF Feed
  <2> DEFINE v == NoCandidate(w)
  <2>2. v \in Watches /\ v.ip = w.ip /\ v.cand = NoAddress /\ v.candSeen = 0 /\ v.missing = w.missing
    BY <1>1 DEF NoCandidate
  <2> HIDE DEF v
  <2>3. CASE w.ip = NoAddress
    <3>1. watch' = v
      BY <1>1, <2>1, <2>2, <2>3 DEF Missing, v
    <3> QED BY <1>1, <1>2, <2>2, <2>3, <3>1
  <2>4. CASE w.ip # NoAddress /\ w.missing + 1 < Loss
    <3>1. watch' = [v EXCEPT !.missing = @ + 1]
      BY <1>1, <2>1, <2>2, <2>4 DEF Missing, v
    <3>2. watch' \in Watches /\ watch'.ip = w.ip /\ watch'.cand = NoAddress /\ watch'.candSeen = 0
          /\ watch'.missing = w.missing + 1
      BY <2>2, <3>1
    <3> QED BY <1>1, <1>2, <2>4, <3>2
  <2>5. CASE w.ip # NoAddress /\ ~(w.missing + 1 < Loss)
    <3>1. watch' = [v EXCEPT !.ip = NoAddress, !.missing = 0]
      BY <1>1, <2>1, <2>2, <2>5 DEF Missing, v
    <3>2. watch' \in Watches /\ watch'.ip = NoAddress /\ watch'.cand = NoAddress
          /\ watch'.candSeen = 0 /\ watch'.missing = 0
      BY <1>1, <2>2, <3>1
    <3> QED BY <1>1, <1>2, <2>5, <3>2, ReachabilityAssumption
  <2> QED BY <2>3, <2>4, <2>5
<1>3. CASE address # NoAddress
  <2> DEFINE v == [w EXCEPT !.missing = 0]
  <2>1. v \in Watches /\ v.ip = w.ip /\ v.cand = w.cand /\ v.candSeen = w.candSeen /\ v.missing = 0
    BY <1>1
  <2> HIDE DEF v
  <2>2. CASE w.ip = NoAddress
    <3>1. Feed(w, address).w = NoCandidate([v EXCEPT !.ip = address])
      BY <1>3, <2>1, <2>2 DEF Feed, v
    <3> QED BY <1>1, <1>3, <2>1, <2>2, <3>1 DEF NoCandidate
  <2>3. CASE w.ip # NoAddress /\ w.ip = address
    <3>1. Feed(w, address).w = NoCandidate(v)
      BY <1>3, <2>1, <2>3 DEF Feed, v
    <3> QED BY <1>1, <1>3, <2>1, <2>3, <3>1 DEF NoCandidate
  <2>4. CASE w.ip # NoAddress /\ w.ip # address
    <3>1. Feed(w, address) = Different(v, address)
      BY <1>3, <2>1, <2>4 DEF Feed, v
    <3> DEFINE n == IF address = w.cand THEN w.candSeen + 1 ELSE 1
               u == IF address = v.cand THEN [v EXCEPT !.candSeen = @ + 1]
                    ELSE [v EXCEPT !.cand = address, !.candSeen = 1]
    <3>2. n \in Nat /\ u \in Watches /\ u.ip = w.ip /\ u.cand = address /\ u.candSeen = n /\ u.missing = 0
      <4>1. CASE address = v.cand
        <5>1. u = [v EXCEPT !.candSeen = @ + 1] /\ n = v.candSeen + 1
          BY <2>1, <4>1
        <5> HIDE DEF u, n
        <5> QED BY <1>1, <2>1, <4>1, <5>1
      <4>2. CASE address # v.cand
        <5>1. u = [v EXCEPT !.cand = address, !.candSeen = 1] /\ n = 1
          BY <2>1, <4>2
        <5> HIDE DEF u, n
        <5> QED BY <1>1, <2>1, <4>2, <5>1
      <4> QED BY <4>1, <4>2
    <3>3. Different(v, address).w = IF u.candSeen < Confirm THEN u
                                    ELSE NoCandidate([u EXCEPT !.ip = address])
      BY DEF Different
    <3> HIDE DEF u
    <3>4. \/ address = w.cand /\ n = w.candSeen + 1
          \/ address # w.cand /\ n = 1
      OBVIOUS
    <3>5. CASE n < Confirm
      <4>1. watch' = u
        BY <1>1, <3>1, <3>2, <3>3, <3>5
      <4> HIDE DEF n
      <4> QED BY <1>1, <1>3, <2>4, <3>2, <3>5, <3>4, <4>1
    <3>6. CASE n >= Confirm
      <4>1. ~(u.candSeen < Confirm)
        BY <3>2, <3>6, ReachabilityAssumption
      <4>2. watch' = NoCandidate([u EXCEPT !.ip = address])
        BY <1>1, <3>1, <3>3, <4>1
      <4>3. watch' \in Watches /\ watch'.ip = address /\ watch'.cand = NoAddress
            /\ watch'.candSeen = 0 /\ watch'.missing = 0
        BY <1>1, <3>2, <4>2 DEF NoCandidate
      <4> HIDE DEF n
      <4> QED BY <1>1, <1>3, <2>4, <3>2, <3>6, <3>4, <4>3
    <3> QED BY <3>2, <3>5, <3>6, ReachabilityAssumption
  <2> QED BY <2>2, <2>3, <2>4
<1> QED BY <1>2, <1>3

\* What Poll leaves of the last address is what the counters say it must have been.
LEMMA PollKeeps ==
  ASSUME WatchInv, Poll
  PROVE  WatchInv'
<1> PICK a : a = address
  OBVIOUS
<1> PICK w : w = watch
  OBVIOUS
<1>1. /\ recent \in Seq(Places) /\ a \in Places /\ Confirm \in Nat \ {0} /\ Loss \in Nat \ {0}
      /\ w \in [ip : Places, cand : Places, candSeen : Nat, missing : Nat]
      /\ w.candSeen < Confirm /\ w.missing < Loss /\ NoAddress \notin Addresses
      /\ Memory \in Nat /\ Confirm <= Memory /\ Loss <= Memory
  BY MemoryReaches, ReachabilityAssumption DEF WatchInv, AddressTypes, ReachTypeOK, Places
<1>2. /\ w.candSeen = 0 <=> w.cand = NoAddress
      /\ w.ip = NoAddress => w.missing = 0 /\ w.candSeen = 0 /\ \A x \in Addresses : ~Held(1, x)
      /\ w.ip # NoAddress => RunOf(w.missing, NoAddress)
      /\ w.cand # NoAddress => w.missing = 0 /\ w.cand # w.ip /\ RunOf(w.candSeen, w.cand)
      /\ w.ip # NoAddress /\ w.cand = NoAddress /\ w.missing = 0 => Held(1, w.ip)
  BY DEF WatchInv, CountsAreTrue
<1>3. \A x : Held(0, x)'
  BY <1>1, Observed
<1>4. \A x, n : n \in Nat /\ n < Memory => (Held(n + 1, x)' <=> x = a /\ Held(n, x))
  BY <1>1, Observed
<1>5. \A x : Held(0, x)
  BY <1>1 DEF Held
<1>6. \A x : Held(1, x)' <=> x = a
  <2>1. 0 < Memory /\ 0 + 1 = 1
    BY <1>1
  <2> QED BY <1>4, <1>5, <2>1
<1> PICK v : v = watch'
  OBVIOUS
<1>7. /\ v \in [ip : Places, cand : Places, candSeen : Nat, missing : Nat] /\ before' = w.ip
      /\ FedTo(w, a, v)
  BY Fed
<1> DEFINE Counted ==
             /\ v.candSeen < Confirm /\ v.missing < Loss
             /\ v.candSeen = 0 <=> v.cand = NoAddress
             /\ v.ip = NoAddress =>
                  v.missing = 0 /\ v.candSeen = 0 /\ \A x \in Addresses : ~Held(1, x)'
             /\ v.ip # NoAddress => Held(v.missing, NoAddress)' /\ ~Held(v.missing + 1, NoAddress)'
             /\ v.cand # NoAddress =>
                  /\ v.missing = 0 /\ v.cand # v.ip
                  /\ Held(v.candSeen, v.cand)' /\ ~Held(v.candSeen + 1, v.cand)'
             /\ v.ip # NoAddress /\ v.cand = NoAddress /\ v.missing = 0 => Held(1, v.ip)'
           Justified ==
             v.ip # w.ip => \/ w.ip = NoAddress /\ Held(1, v.ip)'
                            \/ v.ip = NoAddress /\ Held(Loss, NoAddress)'
                            \/ v.ip # NoAddress /\ w.ip # NoAddress /\ Held(Confirm, v.ip)'
<1>8. Counted /\ Justified
  <2>1. CASE a = NoAddress /\ w.ip = NoAddress
    <3>1. v.ip = NoAddress /\ v.cand = NoAddress /\ v.candSeen = 0 /\ v.missing = 0
      BY <1>2, <1>7, <2>1 DEF FedTo
    <3> QED BY <1>1, <1>6, <2>1, <3>1
  <2>2. CASE a = NoAddress /\ w.ip # NoAddress /\ w.missing + 1 < Loss
    <3>1. v.ip = w.ip /\ v.cand = NoAddress /\ v.candSeen = 0 /\ v.missing = w.missing + 1
      BY <1>1, <1>7, <2>2 DEF FedTo
    <3>2. Held(w.missing + 1, NoAddress)' /\ ~Held((w.missing + 1) + 1, NoAddress)'
      <4>1. /\ w.missing \in Nat /\ w.missing + 1 \in Nat
            /\ w.missing < Memory /\ w.missing + 1 < Memory
        BY <1>1, <2>2
      <4>2. Held(w.missing, NoAddress) /\ ~Held(w.missing + 1, NoAddress)
        BY <1>2, <2>2 DEF RunOf
      <4> QED BY <1>4, <2>2, <4>1, <4>2
    <3>3. v.missing # 0
      BY <1>1, <3>1
    <3> QED BY <1>1, <2>2, <3>1, <3>2, <3>3
  <2>3. CASE a = NoAddress /\ w.ip # NoAddress /\ ~(w.missing + 1 < Loss)
    <3>1. v.ip = NoAddress /\ v.cand = NoAddress /\ v.candSeen = 0 /\ v.missing = 0
      BY <1>1, <1>7, <2>3 DEF FedTo
    <3>2. Held(Loss, NoAddress)'
      <4>1. w.missing \in Nat /\ w.missing < Memory /\ w.missing + 1 = Loss
        BY <1>1, <2>3
      <4>2. Held(w.missing, NoAddress)
        BY <1>2, <2>3 DEF RunOf
      <4> QED BY <1>4, <2>3, <4>1, <4>2
    <3> QED BY <1>1, <1>6, <2>3, <3>1, <3>2
  <2>4. CASE a # NoAddress /\ (w.ip = NoAddress \/ w.ip = a)
    <3>1. v.ip = a /\ v.cand = NoAddress /\ v.candSeen = 0 /\ v.missing = 0
      BY <1>7, <2>4 DEF FedTo
    <3>2. 0 + 1 = 1
      OBVIOUS
    <3> QED BY <1>1, <1>3, <1>6, <2>4, <3>1, <3>2
  <2>5. CASE a # NoAddress /\ w.ip # NoAddress /\ w.ip # a
    <3>1. PICK n \in Nat :
            /\ \/ a = w.cand /\ n = w.candSeen + 1
               \/ a # w.cand /\ n = 1
            /\ \/ n < Confirm /\ v.ip = w.ip /\ v.cand = a /\ v.candSeen = n
               \/ n >= Confirm /\ v.ip = a /\ v.cand = NoAddress /\ v.candSeen = 0
      BY <1>7, <2>5 DEF FedTo
    <3>2. v.missing = 0
      BY <1>7, <2>5 DEF FedTo
    <3>3. n # 0 /\ n <= Confirm
      BY <1>1, <3>1
    <3>4. ~Held(1, NoAddress)'
      BY <1>6, <2>5
    \* The candidate was seen n times now, and something else before.
    <3>5. Held(n, a)'
      <4>1. CASE a = w.cand
        <5>1. n = w.candSeen + 1 /\ w.candSeen \in Nat /\ w.candSeen < Memory
          BY <1>1, <3>1, <4>1
        <5>2. Held(w.candSeen, a)
          BY <1>2, <2>5, <4>1 DEF RunOf
        <5> QED BY <1>4, <5>1, <5>2
      <4>2. CASE a # w.cand
        BY <1>6, <3>1, <4>2
      <4> QED BY <4>1, <4>2
    <3>6. n < Confirm => ~Held(n + 1, a)'
      <4> SUFFICES ASSUME n < Confirm PROVE ~Held(n, a)
        BY <1>1, <1>4
      <4>1. CASE a = w.cand
        <5>1. ~Held(w.candSeen + 1, a)
          BY <1>2, <2>5, <4>1 DEF RunOf
        <5> QED BY <3>1, <4>1, <5>1
      <4>2. CASE a # w.cand
        <5>1. n = 1
          BY <3>1, <4>2
        <5>2. CASE w.cand # NoAddress
          <6>1. Held(w.candSeen, w.cand) /\ w.candSeen \in Nat \ {0}
            BY <1>1, <1>2, <5>2 DEF RunOf
          <6> QED BY <1>1, <4>2, <5>1, <6>1, HeldOnce
        <5>3. CASE w.cand = NoAddress /\ w.missing # 0
          <6>1. Held(w.missing, NoAddress) /\ w.missing \in Nat \ {0}
            BY <1>1, <1>2, <2>5, <5>3 DEF RunOf
          <6> QED BY <1>1, <2>5, <5>1, <6>1, HeldOnce
        <5>4. CASE w.cand = NoAddress /\ w.missing = 0
          <6>1. Held(1, w.ip)
            BY <1>2, <2>5, <5>4
          <6> QED BY <1>1, <2>5, <5>1, <6>1, HeldOnce
        <5> QED BY <5>2, <5>3, <5>4
      <4> QED BY <4>1, <4>2
    <3>7. 0 + 1 = 1
      OBVIOUS
    <3>8. CASE n < Confirm
      <4>1. v.ip = w.ip /\ v.cand = a /\ v.candSeen = n
        BY <1>1, <3>1, <3>8
      <4> QED BY <1>1, <1>3, <2>5, <3>2, <3>3, <3>4, <3>5, <3>6, <3>7, <3>8, <4>1
    <3>9. CASE ~(n < Confirm)
      <4>1. v.ip = a /\ v.cand = NoAddress /\ v.candSeen = 0 /\ n = Confirm
        BY <1>1, <3>1, <3>3, <3>9
      <4> QED BY <1>1, <1>3, <1>6, <2>5, <3>2, <3>4, <3>5, <3>7, <4>1
    <3> QED BY <3>8, <3>9
  <2> QED BY <2>1, <2>2, <2>3, <2>4, <2>5
<1>9. CountsAreTrue'
  BY <1>8 DEF CountsAreTrue, RunOf, Held
<1>10. AddressTypes'
  <2>1. UNCHANGED <<address, shared, screen, ssdp, flaps>>
    BY DEF Poll
  <2>2. monitor' \in [at : {"poll", "publish", "count", "tell"},
                      event : {"none", "up", "down", "changed"}]
    <3>1. Feed(watch, address).event \in {"none", "up", "down", "changed"}
      BY DEF Feed, Missing, Different
    <3> QED BY <3>1 DEF Poll
  <2>3. recent' \in Seq(Places)
    <3>1. <<address>> \o recent \in Seq(Places)
      BY <1>1
    <3>2. Len(<<address>> \o recent) = Len(recent) + 1 /\ Len(recent) \in Nat
      BY <1>1
    <3>3. (IF Len(recent) < Memory THEN Len(recent) + 1 ELSE Memory) \in 0 .. Len(recent) + 1
      BY <1>1, <3>2
    <3> QED BY <3>1, <3>2, <3>3, SubSeqProperties DEF Poll
  <2>4. v.candSeen \in 0 .. Confirm - 1 /\ v.missing \in 0 .. Loss - 1
    BY <1>1, <1>7, <1>8
  <2> QED BY <1>1, <1>7, <2>1, <2>2, <2>3, <2>4
          DEF WatchInv, AddressTypes, ReachTypeOK, Places
<1>11. Debounced'
  <2>1. recent' \in Seq(Places)
    BY <1>10 DEF AddressTypes
  <2>2. \A x : \A n, m \in Nat : m <= n /\ Held(n, x)' => Held(m, x)'
    BY <2>1 DEF Held
  <2>3. v.ip # NoAddress => ~Held(Loss, NoAddress)'
    <3> SUFFICES ASSUME v.ip # NoAddress, Held(Loss, NoAddress)' PROVE FALSE
      OBVIOUS
    <3>1. v.missing + 1 \in Nat /\ v.missing + 1 <= Loss
      BY <1>1, <1>7, <1>8
    <3> QED BY <1>1, <1>8, <2>2, <3>1
  <2>4. ASSUME NEW x \in Addresses, x # v.ip
        PROVE  ~Held(IF v.ip = NoAddress THEN 1 ELSE Confirm, x)'
    <3>1. CASE v.ip = NoAddress
      BY <1>8, <3>1
    <3>2. CASE v.ip # NoAddress
      <4> SUFFICES ASSUME Held(Confirm, x)' PROVE FALSE
        BY <3>2
      <4>1. Held(1, x)'
        BY <1>1, <2>2
      <4>2. x # NoAddress /\ v.missing \in Nat /\ v.candSeen \in Nat
        BY <1>1, <1>7
      <4>3. \A y, z, n : n \in Nat \ {0} /\ Held(n, y)' /\ Held(1, z)' => y = z
        BY <2>1 DEF Held
      <4>4. v.missing = 0
        BY <1>8, <3>2, <4>1, <4>2, <4>3
      <4>5. v.cand = x /\ v.candSeen # 0
        BY <1>8, <2>4, <3>2, <4>1, <4>2, <4>3, <4>4
      <4>6. v.candSeen + 1 \in Nat /\ v.candSeen + 1 <= Confirm
        BY <1>1, <1>8, <4>2
      <4>7. ~Held(v.candSeen + 1, x)'
        BY <1>8, <4>2, <4>5
      <4> QED BY <1>1, <2>2, <4>6, <4>7
    <3> QED BY <3>1, <3>2
  <2> QED BY <1>7, <1>8, <2>3, <2>4 DEF Debounced, Held
<1> QED BY <1>9, <1>10, <1>11 DEF WatchInv

LEMMA WatchKeeps ==
  ASSUME WatchInv, [ReachNext]_reachVars
  PROVE  WatchInv'
<1>1. CASE Poll
  BY <1>1, PollKeeps
<1>2. ASSUME UNCHANGED watched, AddressTypes'
      PROVE  WatchInv'
  BY <1>2 DEF WatchInv, watched, CountsAreTrue, Debounced, RunOf, Held
<1> USE DEF WatchInv, AddressTypes, ReachTypeOK
<1>3. CASE Flap
  <2>1. address' \in Addresses \cup {NoAddress} /\ flaps' \in 0 .. MaxFlaps
    BY <1>3, ReachabilityAssumption DEF Flap
  <2> QED BY <1>2, <1>3, <2>1 DEF Flap, watched
<1>4. CASE Publish
  <2>1. shared' \in [ip : Places, gen : Nat]
    BY <1>4 DEF Publish
  <2> QED BY <1>2, <1>4, <2>1 DEF Publish, MonitorGoes, watched
<1>5. CASE Count
  BY <1>2, <1>5 DEF Count, MonitorGoes, watched
<1>6. CASE TellDiscovery
  <2>1. ssdp' \in [up : BOOLEAN, pend : Places, dirty : BOOLEAN, at : {"wait", "say"},
                   ip : Places, says : Places]
    BY <1>6, ZenonT(40) DEF TellDiscovery, Moved
  <2> QED BY <1>2, <1>6, <2>1 DEF TellDiscovery, MonitorGoes, watched
<1>7. CASE TakeAddress \/ Announce
  <2>1. ssdp' \in [up : BOOLEAN, pend : Places, dirty : BOOLEAN, at : {"wait", "say"},
                   ip : Places, says : Places]
    BY <1>7, ZenonT(40) DEF TakeAddress, Announce, Announced
  <2> QED BY <1>2, <1>7, <2>1 DEF TakeAddress, Announce, SsdpKeeps, watched
<1>8. CASE SeesChange \/ ReadsAddress
  <2>1. screen' \in [at : {"frame", "read"}, gen : Int, ip : Places]
    <3>1. shared.gen \in Int /\ shared.ip \in Places
      OBVIOUS
    <3>2. CASE SeesChange
      BY <3>1, <3>2 DEF SeesChange
    <3>3. CASE ReadsAddress
      BY <3>1, <3>3 DEF ReadsAddress
    <3> QED BY <1>8, <3>2, <3>3
  <2> QED BY <1>2, <1>8, <2>1 DEF SeesChange, ReadsAddress, ScreenKeeps, watched
<1>9. CASE UNCHANGED reachVars
  BY <1>2, <1>9 DEF reachVars, watched
<1> QED BY <1>1, <1>3, <1>4, <1>5, <1>6, <1>7, <1>8, <1>9
        DEF ReachNext, Monitoring, Discovering, Showing

\* The counters of the watch count what was observed, for any addresses, thresholds and
\* changes of the network.
THEOREM AddressInvariant == ReachSpec => []WatchInv
<1>1. ReachInit => WatchInv
  <2> SUFFICES ASSUME ReachInit PROVE WatchInv
    OBVIOUS
  <2>1. AddressTypes
    <3>1. recent \in Seq(Places)
      BY DEF ReachInit
    <3> QED BY <3>1, ReachabilityAssumption DEF ReachInit, AddressTypes, ReachTypeOK, Places
  <2>2. /\ watch.ip = NoAddress /\ watch.cand = NoAddress /\ watch.candSeen = 0
        /\ watch.missing = 0 /\ before = NoAddress /\ recent = <<>> /\ Len(recent) = 0
    BY DEF ReachInit
  <2>3. \A x : \A n \in Nat \ {0} : ~Held(n, x)
    BY <2>2 DEF Held
  <2>4. 1 \in Nat \ {0}
    OBVIOUS
  <2> QED BY <2>1, <2>2, <2>3, <2>4, ReachabilityAssumption DEF WatchInv, CountsAreTrue, Debounced
<1> QED BY <1>1, WatchKeeps, PTL DEF ReachSpec

\* The receiver changes its address when, and as soon as, the console has named another,
\* or none, often enough in a row (netwatch_feed).
THEOREM AddressIsDebounced == ReachSpec => []Debounced
<1>1. WatchInv => Debounced
  BY DEF WatchInv
<1> QED BY <1>1, AddressInvariant, PTL

-----------------------------------------------------------------------------
(* The numbers of the events.                                               *)

EventTypes ==
  /\ shows \in {0, 1} \X {0, 1} /\ dirty \in BOOLEAN /\ changes \in 0 .. MaxChanges
  /\ subs \in [Slots -> [sid : Sids \cup {Nobody}, seq : Nat, expired : BOOLEAN]]
  /\ ev \in [at : {"look", "look2", "decide", "copy", "tell"}, saw : Int \X Int, last : Int \X Int]
  /\ copied \subseteq [sid : Sids, seq : Nat]
  /\ numbers \in [Sids -> Nat] /\ made \in 0 .. Cardinality(Sids)

\* A subscription has one place, and is in the thread's copy once; nobody has one
\* with a number that is still to be given out.
OnePlaceEach ==
  /\ \A i, j \in Slots : subs[i].sid = subs[j].sid /\ subs[i].sid # Nobody => i = j
  /\ \A c, d \in copied : c.sid = d.sid => c = d
  /\ \A i \in Slots : subs[i].sid <= made
  /\ \A c \in copied : c.sid <= made
  /\ \A s \in Sids : s > made => numbers[s] = 0

\* Between two rounds nothing is left of the copy.
CopyIsTold == copied # {} => ev.at = "tell"

EventsInv == EventTypes /\ OnePlaceEach /\ CopyIsTold /\ NumberedInTurn

LEMMA FirstIsVacant ==
  ASSUME NEW table, Vacant(table) # {}
  PROVE  FirstOf(Vacant(table)) \in Vacant(table)
<1> DEFINE Less == {ss \in Nat \X Nat : ss[1] < ss[2]}
<1>1. IsWellFoundedOn(Less, Nat)
  BY NatLessThanWellFounded, Zenon DEF OpToRel
<1>2. PICK i \in Vacant(table) : \A j \in Vacant(table) : <<j, i>> \notin Less
  <2>1. Vacant(table) \subseteq Nat
    BY EventsAssumption DEF Vacant
  <2> HIDE DEF Less
  <2> QED BY <1>1, <2>1, WFMin
<1>3. \A j \in Vacant(table) : i <= j
  <2> TAKE j \in Vacant(table)
  <2>1. i \in Nat /\ j \in Nat /\ ~(<<j, i>> \in Less)
    BY <1>2, EventsAssumption DEF Vacant
  <2> QED BY <2>1
<1> QED BY <1>2, <1>3 DEF FirstOf

\* A step that leaves the copy and the numbers, and of the table takes some places away,
\* or changes only when they expire.
LEMMA TableShrinks ==
  ASSUME EventsInv, UNCHANGED <<copied, numbers, made>>, EventTypes', CopyIsTold',
         \A i \in Slots : \/ subs'[i].sid = Nobody
                          \/ subs'[i].sid = subs[i].sid /\ subs'[i].seq = subs[i].seq
  PROVE  EventsInv'
<1>1. OnePlaceEach'
  <2>1. 0 <= made
    BY EventsAssumption, FS_CardinalityType DEF EventsInv, EventTypes
  <2> QED BY <2>1 DEF EventsInv, OnePlaceEach, Nobody
<1>2. NumberedInTurn'
  BY DEF EventsInv, NumberedInTurn
<1> QED BY <1>1, <1>2 DEF EventsInv

LEMMA PurgedIs ==
  ASSUME EventTypes
  PROVE  /\ Purged(subs) \in [Slots -> [sid : Sids \cup {Nobody}, seq : Nat, expired : BOOLEAN]]
         /\ \A i \in Slots : \/ Purged(subs)[i] = Free
                             \/ Purged(subs)[i] = subs[i]
BY DEF EventTypes, Purged, Free, Nobody

LEMMA SubscribeKeeps ==
  ASSUME EventsInv, Subscribe
  PROVE  EventsInv'
<1> DEFINE n == made + 1
<1>1. /\ made \in 0 .. Cardinality(Sids) /\ Cardinality(Sids) \in Nat /\ Sids = 1 .. Cardinality(Sids)
      /\ made < Cardinality(Sids)
  BY EventsAssumption, FS_CardinalityType DEF EventsInv, EventTypes, Subscribe
<1>2. n \in Sids /\ n # Nobody /\ Nobody \notin Sids
  BY <1>1 DEF Nobody
<1>3. UNCHANGED <<shows, ev, copied, told, missed, numbers, changes>> /\ dirty' \in {dirty, TRUE}
  BY DEF Subscribe, heard, SubscribeWakes
<1>4. PICK t : t = Purged(subs)
  OBVIOUS
<1>5. /\ t \in [Slots -> [sid : Sids \cup {Nobody}, seq : Nat, expired : BOOLEAN]]
      /\ \A i \in Slots : \/ t[i] = Free
                          \/ t[i] = subs[i]
  BY <1>4, PurgedIs DEF EventsInv
<1>6. CASE Vacant(t) = {}
  <2>1. subs' = t /\ made' = made
    BY <1>4, <1>6 DEF Subscribe
  <2>2. EventTypes' /\ CopyIsTold'
    BY <1>3, <1>5, <2>1 DEF EventsInv, EventTypes, CopyIsTold
  <2>3. \A i \in Slots : \/ subs'[i].sid = Nobody
                         \/ subs'[i].sid = subs[i].sid /\ subs'[i].seq = subs[i].seq
    BY <1>5, <2>1 DEF Free
  <2> QED BY <1>3, <2>1, <2>2, <2>3, TableShrinks
<1>7. CASE Vacant(t) # {}
  <2>1. PICK k \in Slots : t[k].sid = Nobody /\ subs' = [t EXCEPT ![k] = [Free EXCEPT !.sid = n]]
    <3>1. FirstOf(Vacant(t)) \in Slots /\ t[FirstOf(Vacant(t))].sid = Nobody
      BY <1>7, FirstIsVacant DEF Vacant
    <3> QED BY <1>4, <1>7, <3>1 DEF Subscribe
  <2>2. made' = n
    BY <1>4, <1>7 DEF Subscribe
  <2>3. /\ subs' \in [Slots -> [sid : Sids \cup {Nobody}, seq : Nat, expired : BOOLEAN]]
        /\ subs'[k].sid = n /\ subs'[k].seq = 0
        /\ \A i \in Slots \ {k} : subs'[i] = t[i]
    BY <1>2, <1>5, <2>1 DEF Free
  <2>4. EventTypes'
    <3>1. made' \in 0 .. Cardinality(Sids)
      BY <1>1, <2>2
    <3> QED BY <1>3, <2>3, <3>1 DEF EventsInv, EventTypes
  \* Nobody has had the number before.
  <2>5. /\ \A i \in Slots : subs[i].sid # n
        /\ \A c \in copied : c.sid # n
        /\ numbers[n] = 0
    <3>1. /\ \A i \in Slots : subs[i].sid <= made
          /\ \A c \in copied : c.sid <= made
          /\ \A s \in Sids : s > made => numbers[s] = 0
      BY DEF EventsInv, OnePlaceEach
    <3>2. n > made /\ ~(n <= made)
      BY <1>1
    <3> QED BY <1>2, <3>1, <3>2
  <2>6. \A i \in Slots \ {k} : \/ subs'[i].sid = Nobody
                               \/ subs'[i] = subs[i]
    BY <1>5, <2>3 DEF Free
  <2>7. OnePlaceEach'
    <3>1. \A i, j \in Slots : subs'[i].sid = subs'[j].sid /\ subs'[i].sid # Nobody => i = j
      <4> TAKE i, j \in Slots
      <4> HAVE subs'[i].sid = subs'[j].sid /\ subs'[i].sid # Nobody
      <4>1. CASE i # k /\ j # k
        BY <2>6, <4>1 DEF EventsInv, OnePlaceEach
      <4>2. CASE i = k \/ j = k
        BY <1>2, <2>3, <2>5, <2>6, <4>2
      <4> QED BY <4>1, <4>2
    <3>2. \A i \in Slots : subs'[i].sid <= made'
      <4> TAKE i \in Slots
      <4>1. CASE i = k
        BY <1>1, <2>2, <2>3, <4>1
      <4>2. CASE i # k
        <5>1. subs[i].sid <= made /\ subs[i].sid \in Sids \cup {Nobody}
          BY DEF EventsInv, OnePlaceEach, EventTypes
        <5>2. subs'[i].sid = Nobody \/ subs'[i].sid = subs[i].sid
          BY <2>6, <4>2
        <5> QED BY <1>1, <2>2, <5>1, <5>2 DEF Nobody
      <4> QED BY <4>1, <4>2
    <3>3. \A c \in copied' : c.sid <= made'
      <4> TAKE c \in copied'
      <4>1. c.sid <= made /\ c.sid \in Sids
        BY <1>3 DEF EventsInv, OnePlaceEach, EventTypes
      <4> QED BY <1>1, <2>2, <4>1
    <3>4. \A s \in Sids : s > made' => numbers'[s] = 0
      <4> TAKE s \in Sids
      <4>1. s > made + 1 => s > made
        BY <1>1
      <4> QED BY <1>3, <2>2, <4>1 DEF EventsInv, OnePlaceEach
    <3> QED BY <1>3, <3>1, <3>2, <3>3, <3>4 DEF EventsInv, OnePlaceEach
  <2>8. NumberedInTurn'
    <3>1. {c \in copied : c.sid = n} = {}
      BY <2>5
    <3>2. Cardinality({c \in copied : c.sid = n}) = 0
      BY <3>1, FS_EmptySet
    <3>3. ASSUME NEW i \in Slots, subs'[i].sid # Nobody
          PROVE  subs'[i].seq = numbers[subs'[i].sid]
                                + Cardinality({c \in copied : c.sid = subs'[i].sid})
      <4>1. CASE i = k
        <5>1. subs'[i].sid = n /\ subs'[i].seq = 0
          BY <2>3, <4>1
        <5> HIDE DEF n
        <5> QED BY <2>5, <3>2, <5>1
      <4>2. CASE i # k
        BY <2>6, <3>3, <4>2 DEF EventsInv, NumberedInTurn
      <4> QED BY <4>1, <4>2
    <3> QED BY <1>3, <3>3 DEF EventsInv, NumberedInTurn
  <2> QED BY <1>3, <2>4, <2>7, <2>8 DEF EventsInv, CopyIsTold
<1> QED BY <1>6, <1>7

\* The table is copied when nothing is left of the last copy: every number goes up by
\* one, and one event more is to be sent.
LEMMA CopyKeeps ==
  ASSUME EventsInv, Copy
  PROVE  EventsInv'
<1>1. Sids = 1 .. Cardinality(Sids) /\ Cardinality(Sids) \in Nat /\ Nobody \notin Sids
  BY EventsAssumption, FS_CardinalityType DEF Nobody
<1>2. copied = {} /\ ev'.at = "tell" /\ UNCHANGED <<shows, made, changes>> /\ dirty' = FALSE
  BY DEF EventsInv, EventTypes, CopyIsTold, Copy, CopyClears
<1>3. PICK t : t = Purged(subs)
  OBVIOUS
<1>4. /\ t \in [Slots -> [sid : Sids \cup {Nobody}, seq : Nat, expired : BOOLEAN]]
      /\ \A i \in Slots : \/ t[i] = Free
                          \/ t[i] = subs[i]
  BY <1>3, PurgedIs DEF EventsInv
<1>5. /\ copied' = {Numbered(t[i]) : i \in {j \in Slots : t[j].sid # Nobody}}
      /\ subs' = [i \in Slots |-> IF t[i].sid = Nobody THEN Free ELSE [t[i] EXCEPT !.seq = @ + 1]]
      /\ numbers' = [s \in Sids |-> IF InTable(t, s) THEN numbers[s] ELSE 0]
  BY <1>3 DEF Copy
<1>6. \A i \in Slots : t[i].sid # Nobody =>
        t[i].sid \in Sids /\ t[i].sid = subs[i].sid /\ t[i].seq = subs[i].seq /\ InTable(t, t[i].sid)
  BY <1>4 DEF Free, InTable
<1>7. \A i \in Slots : t[i].sid # Nobody => t[i].seq = numbers[t[i].sid]
  <2> TAKE i \in Slots
  <2> HAVE t[i].sid # Nobody
  <2>1. Cardinality({c \in copied : c.sid = subs[i].sid}) = 0
    <3>1. {c \in copied : c.sid = subs[i].sid} = {}
      BY <1>2
    <3> QED BY <3>1, FS_EmptySet
  <2>2. subs[i].seq = numbers[subs[i].sid] + Cardinality({c \in copied : c.sid = subs[i].sid})
    BY <1>6 DEF EventsInv, NumberedInTurn
  <2>3. numbers[subs[i].sid] \in Nat
    BY <1>6 DEF EventsInv, EventTypes
  <2> QED BY <1>6, <2>1, <2>2, <2>3
<1>8. \A i \in Slots : subs'[i].sid = t[i].sid /\ (t[i].sid # Nobody => subs'[i].seq = t[i].seq + 1)
  BY <1>4, <1>5 DEF Free, Nobody
<1>9. \A c \in copied' : \E i \in Slots :
        t[i].sid # Nobody /\ c.sid = t[i].sid /\ c.seq = t[i].seq /\ c \in [sid : Sids, seq : Nat]
  BY <1>4, <1>5, <1>6 DEF Numbered
<1>10. EventTypes'
  <2>1. subs' \in [Slots -> [sid : Sids \cup {Nobody}, seq : Nat, expired : BOOLEAN]]
    BY <1>4, <1>5 DEF Free
  <2>2. numbers' \in [Sids -> Nat]
    BY <1>5 DEF EventsInv, EventTypes
  <2>3. copied' \subseteq [sid : Sids, seq : Nat]
    BY <1>9
  <2>4. ev' \in [at : {"look", "look2", "decide", "copy", "tell"}, saw : Int \X Int, last : Int \X Int]
    BY DEF EventsInv, EventTypes, Copy
  <2> QED BY <1>2, <2>1, <2>2, <2>3, <2>4 DEF EventsInv, EventTypes
<1>11. OnePlaceEach'
  <2>1. \A i, j \in Slots : t[i].sid = t[j].sid /\ t[i].sid # Nobody => i = j
    BY <1>6 DEF EventsInv, OnePlaceEach
  <2>2. \A c, d \in copied' : c.sid = d.sid => c = d
    BY <1>9, <2>1
  <2>3. \A i \in Slots : t[i].sid <= made
    <3> TAKE i \in Slots
    <3>1. subs[i].sid <= made /\ made \in Nat
      BY <1>1 DEF EventsInv, OnePlaceEach, EventTypes
    <3>2. t[i].sid = Nobody \/ t[i].sid = subs[i].sid
      BY <1>6
    <3> QED BY <3>1, <3>2 DEF Nobody
  <2>4. \A c \in copied' : c.sid <= made
    BY <1>9, <2>3
  <2>5. \A s \in Sids : s > made => numbers'[s] = 0
    BY <1>5 DEF EventsInv, OnePlaceEach
  <2> QED BY <1>2, <1>8, <2>1, <2>2, <2>3, <2>4, <2>5 DEF OnePlaceEach
<1>12. NumberedInTurn'
  <2>1. \A i \in Slots : t[i].sid # Nobody => numbers'[t[i].sid] = t[i].seq
    BY <1>5, <1>6, <1>7
  <2>2. \A c \in copied' : c.seq = numbers'[c.sid]
    BY <1>9, <2>1
  <2>3. ASSUME NEW i \in Slots, t[i].sid # Nobody
        PROVE  Cardinality({c \in copied' : c.sid = t[i].sid}) = 1
    <3>1. Numbered(t[i]) \in copied' /\ Numbered(t[i]).sid = t[i].sid
      BY <1>5, <2>3 DEF Numbered
    <3>2. \A c, d \in copied' : c.sid = d.sid => c = d
      BY <1>11 DEF OnePlaceEach
    <3>3. {c \in copied' : c.sid = t[i].sid} = {Numbered(t[i])}
      BY <3>1, <3>2
    <3> QED BY <3>3, FS_Singleton
  <2>4. \A i \in Slots : subs'[i].sid # Nobody =>
          subs'[i].seq = numbers'[subs'[i].sid] + Cardinality({c \in copied' : c.sid = subs'[i].sid})
    BY <1>8, <2>1, <2>3
  <2> QED BY <2>2, <2>4 DEF NumberedInTurn
<1> QED BY <1>2, <1>10, <1>11, <1>12 DEF EventsInv, CopyIsTold

\* An event has gone out: one less in the copy, one more counted.
LEMMA TellKeeps ==
  ASSUME EventsInv, Tell
  PROVE  EventsInv'
<1>1. PICK e \in copied : copied' = copied \ {e} /\ numbers' = [numbers EXCEPT ![e.sid] = @ + 1]
  BY DEF Tell
<1>2. UNCHANGED <<dirty, ev, shows, subs, made, changes>> /\ ev.at = "tell"
  BY DEF Tell, EventsKeep
<1>3. e.sid \in Sids /\ numbers \in [Sids -> Nat] /\ copied \subseteq [sid : Sids, seq : Nat]
  BY DEF EventsInv, EventTypes
<1>4. /\ numbers' \in [Sids -> Nat] /\ numbers'[e.sid] = numbers[e.sid] + 1
      /\ \A s \in Sids : s # e.sid => numbers'[s] = numbers[s]
  BY <1>1, <1>3
<1>5. \A c, d \in copied : c.sid = d.sid => c = d
  BY DEF EventsInv, OnePlaceEach
<1>6. \A c \in copied' : c \in copied /\ c.sid # e.sid
  BY <1>1, <1>5
<1>7. EventTypes' /\ CopyIsTold'
  BY <1>1, <1>2, <1>4 DEF EventsInv, EventTypes, CopyIsTold
<1>8. OnePlaceEach'
  <2>1. \A s \in Sids : s > made => numbers'[s] = 0
    <3> TAKE s \in Sids
    <3> HAVE s > made
    <3>1. e.sid <= made /\ made \in Nat /\ s \in Int /\ e.sid \in Int
      BY <1>3, EventsAssumption, FS_CardinalityType DEF EventsInv, OnePlaceEach, EventTypes
    <3>2. s # e.sid
      BY <3>1
    <3> QED BY <1>4, <3>2 DEF EventsInv, OnePlaceEach
  <2> QED BY <1>2, <1>6, <2>1 DEF EventsInv, OnePlaceEach
<1>9. NumberedInTurn'
  <2>1. \A c \in copied' : c.seq = numbers'[c.sid]
    BY <1>3, <1>4, <1>6 DEF EventsInv, NumberedInTurn
  <2>2. ASSUME NEW i \in Slots, subs[i].sid # Nobody
        PROVE  subs[i].seq = numbers'[subs[i].sid] + Cardinality({c \in copied' : c.sid = subs[i].sid})
    <3>1. /\ subs[i].seq = numbers[subs[i].sid] + Cardinality({c \in copied : c.sid = subs[i].sid})
          /\ subs[i].sid \in Sids
      BY <2>2 DEF EventsInv, NumberedInTurn, EventTypes
    <3>2. CASE subs[i].sid = e.sid
      <4>1. Cardinality({c \in copied : c.sid = subs[i].sid}) = 1
        <5>1. {c \in copied : c.sid = subs[i].sid} = {e}
          BY <1>5, <3>2
        <5> QED BY <5>1, FS_Singleton
      <4>2. Cardinality({c \in copied' : c.sid = subs[i].sid}) = 0
        <5>1. {c \in copied' : c.sid = subs[i].sid} = {}
          BY <1>6, <3>2
        <5> QED BY <5>1, FS_EmptySet
      <4> QED BY <1>3, <1>4, <3>1, <3>2, <4>1, <4>2
    <3>3. CASE subs[i].sid # e.sid
      <4>1. {c \in copied' : c.sid = subs[i].sid} = {c \in copied : c.sid = subs[i].sid}
        BY <1>1, <3>3
      <4> QED BY <1>4, <3>1, <3>3, <4>1
    <3> QED BY <3>2, <3>3
  <2> QED BY <1>2, <2>1, <2>2 DEF NumberedInTurn
<1> QED BY <1>7, <1>8, <1>9 DEF EventsInv

LEMMA EventsKept ==
  ASSUME EventsInv, [EventsNext]_eventsVars
  PROVE  EventsInv'
<1> DEFINE Rows == [sid : Sids \cup {Nobody}, seq : Nat, expired : BOOLEAN]
<1>1. subs \in [Slots -> Rows]
  BY DEF EventsInv, EventTypes
<1>2. CASE Subscribe \/ Copy \/ Tell
  BY <1>2, SubscribeKeeps, CopyKeeps, TellKeeps
<1>3. CASE Renew \/ Unsubscribe \/ Expire
  <2>1. UNCHANGED <<shows, dirty, ev, copied, numbers, made, changes>>
    BY <1>3 DEF Renew, Unsubscribe, Expire, heard
  <2>2. /\ subs' \in [Slots -> Rows]
        /\ \A i \in Slots : \/ subs'[i].sid = Nobody
                            \/ subs'[i].sid = subs[i].sid /\ subs'[i].seq = subs[i].seq
    <3>1. CASE Unsubscribe
      BY <1>1, <3>1 DEF Unsubscribe, Free
    <3>2. CASE Renew \/ Expire
      <4>1. PICK i \in Slots, b \in BOOLEAN : subs' = [subs EXCEPT ![i].expired = b]
        BY <3>2 DEF Renew, Expire
      <4>2. /\ subs' \in [Slots -> Rows] /\ subs'[i].sid = subs[i].sid /\ subs'[i].seq = subs[i].seq
            /\ \A j \in Slots \ {i} : subs'[j] = subs[j]
        BY <1>1, <4>1
      <4> QED BY <4>2
    <3> QED BY <1>3, <3>1, <3>2
  <2>3. EventTypes' /\ CopyIsTold'
    BY <2>1, <2>2 DEF EventsInv, EventTypes, CopyIsTold
  <2> QED BY <2>1, <2>2, <2>3, TableShrinks
<1>4. CASE Change
  <2>1. shows' \in {0, 1} \X {0, 1}
    <3>1. shows \in {0, 1} \X {0, 1}
      BY DEF EventsInv, EventTypes
    <3> QED BY <1>4, <3>1 DEF Change
  <2>2. UNCHANGED <<subs, ev, copied, numbers, made>> /\ dirty' \in BOOLEAN /\ changes' \in 0 .. MaxChanges
    <3>1. changes \in 0 .. MaxChanges /\ dirty \in BOOLEAN /\ MaxChanges \in Nat
      BY EventsAssumption DEF EventsInv, EventTypes
    <3>2. changes < MaxChanges /\ changes' = changes + 1
      BY <1>4 DEF Change
    <3>3. UNCHANGED <<subs, ev, copied, numbers, made>> /\ dirty' \in {dirty, TRUE}
      BY <1>4 DEF Change, heard
    <3>4. changes' \in 0 .. MaxChanges
      BY <3>1, <3>2
    <3>5. dirty' \in BOOLEAN
      BY <3>1, <3>3
    <3> QED BY <3>3, <3>4, <3>5
  <2>3. EventTypes' /\ CopyIsTold'
    BY <2>1, <2>2 DEF EventsInv, EventTypes, CopyIsTold
  <2> QED BY <2>2, <2>3, TableShrinks
<1>5. CASE Look \/ LookAgain \/ Decide \/ Remember
  <2>1. UNCHANGED <<shows, subs, copied, numbers, made, changes>>
    BY <1>5 DEF Look, LookAgain, Decide, Remember, EventsKeep, heard
  <2>2. copied = {}
    BY <1>5 DEF EventsInv, CopyIsTold, Look, LookAgain, Decide, Remember
  <2>3. dirty' \in BOOLEAN
    BY <1>5 DEF EventsInv, EventTypes, Look, LookAgain, Decide, Remember, AfterTelling
  <2>4. ev' \in [at : {"look", "look2", "decide", "copy", "tell"}, saw : Int \X Int, last : Int \X Int]
    <3>1. ev \in [at : {"look", "look2", "decide", "copy", "tell"}, saw : Int \X Int, last : Int \X Int]
      BY DEF EventsInv, EventTypes
    <3>2. shows[1] \in Int /\ shows[2] \in Int /\ ev.saw[1] \in Int /\ ev.saw[2] \in Int
      <4>1. shows \in {0, 1} \X {0, 1} /\ ev.saw \in Int \X Int
        BY <3>1 DEF EventsInv, EventTypes
      <4> QED BY <4>1
    <3>3. <<shows[1], ev.saw[2]>> \in Int \X Int /\ <<ev.saw[1], shows[2]>> \in Int \X Int
      BY <3>2
    <3>4. CASE Look
      BY <3>1, <3>3, <3>4 DEF Look
    <3>5. CASE LookAgain
      BY <3>1, <3>3, <3>5 DEF LookAgain
    <3>6. CASE Decide \/ Remember
      BY <3>1, <3>6 DEF Decide, Remember
    <3> QED BY <1>5, <3>4, <3>5, <3>6
  <2>5. EventTypes' /\ CopyIsTold'
    BY <2>1, <2>2, <2>3, <2>4 DEF EventsInv, EventTypes, CopyIsTold
  <2> QED BY <2>1, <2>5, TableShrinks
<1>6. CASE UNCHANGED eventsVars
  <2>1. UNCHANGED <<shows, subs, dirty, ev, copied, numbers, made, changes>>
    BY <1>6 DEF eventsVars
  <2>2. EventTypes' /\ CopyIsTold'
    BY <2>1 DEF EventsInv, EventTypes, CopyIsTold
  <2> QED BY <2>1, <2>2, TableShrinks
<1> QED BY <1>2, <1>3, <1>4, <1>5, <1>6 DEF EventsNext, EventStep

\* The table, the thread's copy of it and what was sent agree, for any number of places,
\* subscriptions and changes.
THEOREM EventsInvariant == EventsSpec => []EventsInv
<1>1. EventsInit => EventsInv
  <2> SUFFICES ASSUME EventsInit PROVE EventsInv
    OBVIOUS
  <2>1. Sids = 1 .. Cardinality(Sids) /\ Cardinality(Sids) \in Nat
    BY EventsAssumption, FS_CardinalityType
  <2>2. EventTypes
    BY <2>1, EventsAssumption DEF EventsInit, EventTypes, Free, Untold
  <2> QED BY <2>1, <2>2 DEF EventsInit, EventsInv, OnePlaceEach, CopyIsTold, NumberedInTurn, Free, Nobody
<1> QED BY <1>1, EventsKept, PTL DEF EventsSpec

\* The events of a subscription go out under the numbers 0, 1, 2, ..., whoever
\* subscribes, leaves or expires while the thread is telling the others.
THEOREM EventsGoInTurn == EventsSpec => []NumberedInTurn
<1>1. EventsInv => NumberedInTurn
  BY DEF EventsInv
<1> QED BY <1>1, EventsInvariant, PTL

-----------------------------------------------------------------------------
(* The guide and its copy.                                                  *)

GuideStages ==
  {"wait", "decide", "cached", "download", "unlink", "rename", "meta", "install", "lastCopy",
   "good", "bad"}
GuideTypes ==
  /\ link \in Links \cup {NoLink} /\ again \in BOOLEAN
  /\ guide \in Links \cup {NoGuide} /\ cache \in Links \cup {NoLink}
  /\ meta \in [url : Links \cup {NoLink}, age : 0 .. Refresh]
  /\ age \in [{"net", "fail", "build"} -> Never .. Refresh] /\ lost \in BOOLEAN
  /\ th \in [at : GuideStages, url : Links \cup {NoLink}, want : Lists \cup {0}, forced : BOOLEAN]
  /\ last \in [url : Links \cup {NoLink}, sig : Lists \cup {0}, have : BOOLEAN, ver : Int]
  /\ list \in [is : Lists \cup {0}, ver : Nat]

\* The copy is of the link its meta file names.
CopyInv == ~lost /\ cache # NoLink /\ meta.url # NoLink => cache = meta.url

\* What the guide is while another one is built: the old one if it is of the same link.
\* The thread rests without a guide before its first attempt.
BuildInv ==
  /\ th.at # "wait" => th.url # NoLink
  /\ th.at \in {"cached", "lastCopy"} => meta.url = th.url
  /\ th.at = "meta" => cache = th.url
  /\ ~lost /\ guide # NoGuide /\ th.at \in {"wait", "decide"} => guide = last.url
  /\ ~lost /\ guide # NoGuide /\ th.at \notin {"wait", "decide", "install"} => guide = th.url
  /\ age.build = Never /\ th.at \in {"wait", "decide"} => guide = NoGuide

GuideInv == GuideTypes /\ CopyInv /\ BuildInv

\* What a stage of the thread leaves to the others: no step but its own touches it.
LEMMA GuideMoves ==
  ASSUME GuideTypes, NEW stage \in GuideStages
  PROVE  /\ [th EXCEPT !.at = stage] \in [at : GuideStages, url : Links \cup {NoLink},
                                          want : Lists \cup {0}, forced : BOOLEAN]
         /\ [th EXCEPT !.at = stage].at = stage /\ [th EXCEPT !.at = stage].url = th.url
BY DEF GuideTypes

LEMMA AgesGrow ==
  ASSUME NEW a \in Never .. Refresh
  PROVE  Older(a) \in Never .. Refresh /\ (Older(a) = Never => a = Never)
<1>1. Refresh \in Nat /\ Never = -1
  BY GuideAssumption DEF Never
<1> QED BY <1>1 DEF Older

\* User, list, network, time.
LEMMA OutsideKeeps ==
  ASSUME GuideInv, Turning \/ Tick
  PROVE  GuideInv'
<1>1. /\ UNCHANGED <<guide, cache, th, last, lost>> /\ meta'.url = meta.url
      /\ meta' \in [url : Links \cup {NoLink}, age : 0 .. Refresh]
      /\ age' \in [{"net", "fail", "build"} -> Never .. Refresh]
      /\ age'["build"] = Never => age["build"] = Never
  <2>1. CASE Turning
    BY <2>1 DEF Turning, SetLink, LoadList, NetTurns, AskAgain, Others, files, GuideInv, GuideTypes
  <2>2. CASE Tick
    <3>1. /\ age \in [{"net", "fail", "build"} -> Never .. Refresh]
          /\ meta \in [url : Links \cup {NoLink}, age : 0 .. Refresh]
      BY DEF GuideInv, GuideTypes
    <3>2. age' = [k \in {"net", "fail", "build"} |-> Older(age[k])]
      BY <2>2, <3>1 DEF Tick
    <3>3. meta' = [meta EXCEPT !.age = Older(@)] /\ UNCHANGED <<guide, cache, th, last, lost>>
      BY <2>2 DEF Tick
    <3>4. Older(meta.age) \in 0 .. Refresh
      BY <3>1, GuideAssumption DEF Older, Never
    <3> QED BY <3>1, <3>2, <3>3, <3>4, AgesGrow
  <2> QED BY <2>1, <2>2
<1>2. /\ link' \in Links \cup {NoLink} /\ again' \in BOOLEAN
      /\ list' \in [is : Lists \cup {0}, ver : Nat]
  <2>1. link \in Links \cup {NoLink} /\ again \in BOOLEAN /\ list \in [is : Lists \cup {0}, ver : Nat]
    BY DEF GuideInv, GuideTypes
  <2>2. CASE LoadList
    <3>1. PICK l \in Lists \cup {0} : list' = [is |-> l, ver |-> list.ver + 1]
      BY <2>2 DEF LoadList
    <3>2. list.ver + 1 \in Nat
      BY <2>1
    <3> QED BY <2>1, <2>2, <3>1, <3>2 DEF LoadList
  <2>4. CASE SetLink \/ NetTurns \/ AskAgain
    BY <2>1, <2>4 DEF SetLink, NetTurns, AskAgain, asked
  <2>3. CASE Tick
    BY <2>1, <2>3 DEF Tick, asked
  <2> QED BY <2>2, <2>3, <2>4 DEF Turning
<1>3. GuideTypes'
  BY <1>1, <1>2 DEF GuideInv, GuideTypes
<1> QED BY <1>1, <1>3 DEF GuideInv, CopyInv, BuildInv

LEMMA DeathKeeps ==
  ASSUME GuideInv, Dies
  PROVE  GuideInv'
<1>1. /\ UNCHANGED <<link, list, network, cache, meta, lost>>
      /\ guide' = NoGuide /\ again' = FALSE /\ th' = Resting /\ last' = Fresh /\ age' = NeverDone
  BY DEF Dies, asked, files
<1>2. /\ Resting \in [at : GuideStages, url : Links \cup {NoLink}, want : Lists \cup {0}, forced : BOOLEAN]
      /\ Fresh \in [url : Links \cup {NoLink}, sig : Lists \cup {0}, have : BOOLEAN, ver : Int]
      /\ Resting.at = "wait"
  BY DEF Resting, Fresh, GuideStages
<1>3. NeverDone \in [{"net", "fail", "build"} -> Never .. Refresh]
  BY GuideAssumption DEF NeverDone, Never
<1>4. GuideTypes'
  BY <1>1, <1>2, <1>3, ZenonT(40) DEF GuideInv, GuideTypes, NoGuide
<1> QED BY <1>1, <1>2, <1>4 DEF GuideInv, CopyInv, BuildInv

\* The thread looks what there is to do.
LEMMA RestingKeeps ==
  ASSUME GuideInv, NoLinkSet \/ NoChannels \/ Looks
  PROVE  GuideInv'
<1> USE DEF NoGuide
<1>1. /\ UNCHANGED <<link, list, network, again, cache, meta, lost>> /\ th.at = "wait"
  BY DEF NoLinkSet, NoChannels, Looks, asked, files
<1>2. GuideTypes
  BY DEF GuideInv
<1>3. CASE NoLinkSet
  <2>1. /\ UNCHANGED <<th, age>> /\ last' = [last EXCEPT !.url = NoLink, !.have = TRUE]
        /\ guide' = IF last.url # NoLink \/ ~last.have THEN NoGuide ELSE guide
    BY <1>3 DEF NoLinkSet
  <2>2. /\ last' \in [url : Links \cup {NoLink}, sig : Lists \cup {0}, have : BOOLEAN, ver : Int]
        /\ last'.url = NoLink
    BY <1>2, <2>1 DEF GuideTypes
  <2>3. GuideTypes'
    BY <1>1, <1>2, <2>1, <2>2 DEF GuideTypes
  <2> QED BY <1>1, <2>1, <2>2, <2>3 DEF GuideInv, CopyInv, BuildInv
<1>4. CASE NoChannels
  <2>1. /\ UNCHANGED th /\ last' = [last EXCEPT !.url = NoLink] /\ age' = [age EXCEPT !.build = Never]
        /\ guide' = IF age.build # Never THEN NoGuide ELSE guide
    BY <1>4 DEF NoChannels
  <2>2. last' \in [url : Links \cup {NoLink}, sig : Lists \cup {0}, have : BOOLEAN, ver : Int]
    BY <1>2, <2>1 DEF GuideTypes
  <2>3. age' \in [{"net", "fail", "build"} -> Never .. Refresh]
    BY <1>2, <2>1, GuideAssumption DEF GuideTypes, Never
  <2>4. guide' = NoGuide
    BY <1>1, <2>1 DEF GuideInv, BuildInv
  <2>5. GuideTypes'
    BY <1>1, <1>2, <2>1, <2>2, <2>3, <2>4 DEF GuideTypes
  <2> QED BY <1>1, <2>1, <2>4, <2>5 DEF GuideInv, CopyInv, BuildInv
<1>5. CASE Looks
  <2>1. /\ UNCHANGED <<guide, last, age>> /\ link # NoLink
        /\ th' = [th EXCEPT !.at = "decide", !.url = link]
    BY <1>5 DEF Looks
  <2>2. /\ th' \in [at : GuideStages, url : Links \cup {NoLink}, want : Lists \cup {0}, forced : BOOLEAN]
        /\ th'.at = "decide" /\ th'.url = link
    BY <1>2, <2>1 DEF GuideTypes, GuideStages
  <2>3. GuideTypes'
    BY <1>1, <1>2, <2>1, <2>2 DEF GuideTypes
  <2> QED BY <1>1, <2>1, <2>2, <2>3 DEF GuideInv, CopyInv, BuildInv
<1> QED BY <1>3, <1>4, <1>5

LEMMA DecidesKeeps ==
  ASSUME GuideInv, Decides
  PROVE  GuideInv'
<1> USE DEF NoGuide
<1>1. /\ UNCHANGED <<link, list, network, cache, meta, lost, age>> /\ th.at = "decide" /\ again' = FALSE
      /\ last' = [last EXCEPT !.ver = list.ver] /\ th.url # NoLink
  BY DEF Decides, asked, files, GuideInv, BuildInv
<1>2. GuideTypes
  BY DEF GuideInv
<1>3. /\ last' \in [url : Links \cup {NoLink}, sig : Lists \cup {0}, have : BOOLEAN, ver : Int]
      /\ last'.url = last.url
  BY <1>1, <1>2 DEF GuideTypes
<1>4. CASE ~Needed /\ Goes("wait") /\ UNCHANGED guide
  <2>1. /\ th' \in [at : GuideStages, url : Links \cup {NoLink}, want : Lists \cup {0}, forced : BOOLEAN]
        /\ th'.at = "wait"
    BY <1>2, <1>4, GuideMoves DEF Goes, GuideStages
  <2>2. GuideTypes'
    BY <1>1, <1>2, <1>3, <1>4, <2>1 DEF GuideTypes
  <2> QED BY <1>1, <1>3, <1>4, <2>1, <2>2 DEF GuideInv, CopyInv, BuildInv
<1>5. CASE /\ guide' = DropsOther(th.url)
           /\ th' = [th EXCEPT !.at = IF CacheOk(th.url) /\ ~again THEN "cached" ELSE "download",
                               !.want = IF list.ver # last.ver THEN Sig ELSE list.is]
  <2>1. PICK w : w = IF list.ver # last.ver THEN Sig ELSE list.is
    OBVIOUS
  <2>2. w \in Lists \cup {0}
    BY <1>2, <2>1 DEF Sig, GuideTypes
  <2>3. PICK stage \in {"cached", "download"} :
          /\ th' = [th EXCEPT !.at = stage, !.want = w]
          /\ stage = "cached" => meta.url = th.url
    BY <1>5, <2>1 DEF CacheOk
  <2>4. /\ th' \in [at : GuideStages, url : Links \cup {NoLink}, want : Lists \cup {0}, forced : BOOLEAN]
        /\ th'.at = stage /\ th'.url = th.url
    BY <1>2, <2>2, <2>3 DEF GuideTypes, GuideStages
  <2>5. guide' \in Links \cup {NoGuide}
    BY <1>2, <1>5 DEF DropsOther, GuideTypes
  <2>6. ~lost /\ guide' # NoGuide => guide' = th.url
    BY <1>1, <1>5 DEF DropsOther, GuideInv, BuildInv
  <2>7. GuideTypes'
    BY <1>1, <1>2, <1>3, <2>4, <2>5 DEF GuideTypes
  <2> QED BY <1>1, <2>3, <2>4, <2>6, <2>7 DEF GuideInv, CopyInv, BuildInv
<1> QED BY <1>4, <1>5 DEF Decides

\* From the copy, from the network; the copy is filed in three steps.
Building ==
  Cached \/ Download \/ Unlink \/ RenameCopy \/ WriteMeta \/ Install \/ LastCopy
LEMMA BuildingKeeps ==
  ASSUME GuideInv, Building
  PROVE  GuideInv'
<1> USE DEF NoGuide
<1>1. /\ UNCHANGED <<link, list, network, again, last>>
  BY DEF Building, Cached, Download, Unlink, RenameCopy, WriteMeta, Install, LastCopy, asked
<1>2. GuideTypes /\ th.url # NoLink
  BY DEF GuideInv, BuildInv, Building, Cached, Download, Unlink, RenameCopy, WriteMeta, Install, LastCopy
<1>3. \A stage \in GuideStages : Goes(stage) =>
        /\ th' \in [at : GuideStages, url : Links \cup {NoLink}, want : Lists \cup {0}, forced : BOOLEAN]
        /\ th'.at = stage /\ th'.url = th.url
  BY <1>2, GuideMoves DEF Goes
<1>4. CASE Cached
  <2>1. /\ UNCHANGED <<cache, meta, lost>> /\ th.at = "cached"
        /\ \/ cache # NoLink /\ guide' = cache /\ age' = [age EXCEPT !.net = meta.age] /\ Goes("good")
           \/ Goes("download") /\ UNCHANGED <<guide, age>>
    BY <1>4 DEF Cached, files
  <2>2. /\ th' \in [at : GuideStages, url : Links \cup {NoLink}, want : Lists \cup {0}, forced : BOOLEAN]
        /\ th'.at \in {"good", "download"} /\ th'.url = th.url
    BY <1>3, <2>1 DEF GuideStages
  <2>3. /\ age' \in [{"net", "fail", "build"} -> Never .. Refresh] /\ guide' \in Links \cup {NoLink}
    BY <1>2, <2>1, GuideAssumption DEF GuideTypes, Never
  <2>4. ~lost /\ guide' # NoLink => guide' = th.url
    BY <1>2, <2>1 DEF GuideInv, CopyInv, BuildInv
  <2>5. GuideTypes'
    BY <1>1, <1>2, <2>1, <2>2, <2>3 DEF GuideTypes
  <2> QED BY <1>2, <2>1, <2>2, <2>4, <2>5 DEF GuideInv, CopyInv, BuildInv
<1>5. CASE Download
  <2>1. /\ UNCHANGED <<guide, cache, meta, lost, age>> /\ th.at = "download"
        /\ \/ Goes("unlink") \/ Goes("install") \/ Goes("bad")
           \/ meta.url = th.url /\ Goes("lastCopy")
    BY <1>5 DEF Download, files
  <2>2. /\ th' \in [at : GuideStages, url : Links \cup {NoLink}, want : Lists \cup {0}, forced : BOOLEAN]
        /\ th'.at \in {"unlink", "install", "bad", "lastCopy"} /\ th'.url = th.url
        /\ th'.at = "lastCopy" => meta.url = th.url
    BY <1>3, <2>1 DEF GuideStages
  <2>3. GuideTypes'
    BY <1>1, <1>2, <2>1, <2>2 DEF GuideTypes
  <2> QED BY <1>2, <2>1, <2>2, <2>3 DEF GuideInv, CopyInv, BuildInv
<1>6. CASE Unlink
  <2>1. UNCHANGED <<guide, meta, lost, age>> /\ th.at = "unlink" /\ cache' = NoLink /\ Goes("rename")
    BY <1>6 DEF Unlink
  <2>2. /\ th' \in [at : GuideStages, url : Links \cup {NoLink}, want : Lists \cup {0}, forced : BOOLEAN]
        /\ th'.at = "rename" /\ th'.url = th.url
    BY <1>3, <2>1 DEF GuideStages
  <2>3. GuideTypes'
    BY <1>1, <1>2, <2>1, <2>2 DEF GuideTypes
  <2> QED BY <1>2, <2>1, <2>2, <2>3 DEF GuideInv, CopyInv, BuildInv
<1>7. CASE RenameCopy
  <2>1. /\ UNCHANGED <<guide, meta, age>> /\ th.at = "rename"
        /\ \/ cache' = th.url /\ Goes("meta") /\ lost' = (lost \/ meta.url # th.url)
           \/ cache' = cache /\ Goes("install") /\ lost' = lost
    BY <1>7 DEF RenameCopy
  <2>2. /\ th' \in [at : GuideStages, url : Links \cup {NoLink}, want : Lists \cup {0}, forced : BOOLEAN]
        /\ th'.at \in {"meta", "install"} /\ th'.url = th.url
        /\ th'.at = "meta" => cache' = th.url
    BY <1>3, <2>1 DEF GuideStages
  <2>3. cache' \in Links \cup {NoLink} /\ lost' \in BOOLEAN /\ (lost => lost')
    BY <1>2, <2>1 DEF GuideTypes
  <2>4. GuideTypes'
    BY <1>1, <1>2, <2>1, <2>2, <2>3 DEF GuideTypes
  <2>5. CopyInv'
    BY <2>1 DEF GuideInv, CopyInv
  <2> QED BY <1>2, <2>1, <2>2, <2>3, <2>4, <2>5 DEF GuideInv, BuildInv
<1>8. CASE WriteMeta
  <2>1. /\ UNCHANGED <<guide, cache, age>> /\ th.at = "meta" /\ Goes("install")
        /\ \/ meta' = [url |-> th.url, age |-> 0] /\ lost' = FALSE
           \/ meta' = NoMeta /\ lost' = FALSE
           \/ UNCHANGED <<meta, lost>>
    BY <1>8 DEF WriteMeta
  <2>2. /\ th' \in [at : GuideStages, url : Links \cup {NoLink}, want : Lists \cup {0}, forced : BOOLEAN]
        /\ th'.at = "install" /\ th'.url = th.url
    BY <1>3, <2>1 DEF GuideStages
  <2>3. meta' \in [url : Links \cup {NoLink}, age : 0 .. Refresh] /\ lost' \in BOOLEAN
    <3>1. /\ meta \in [url : Links \cup {NoLink}, age : 0 .. Refresh] /\ lost \in BOOLEAN
          /\ th.url \in Links \cup {NoLink} /\ 0 \in 0 .. Refresh
      BY <1>2, GuideAssumption DEF GuideTypes
    <3>2. /\ [url |-> th.url, age |-> 0] \in [url : Links \cup {NoLink}, age : 0 .. Refresh]
          /\ NoMeta \in [url : Links \cup {NoLink}, age : 0 .. Refresh]
      BY <3>1 DEF NoMeta
    <3>3. lost' \in BOOLEAN
      BY <2>1, <3>1
    <3>4. CASE meta' = [url |-> th.url, age |-> 0]
      BY <3>2, <3>3, <3>4
    <3>5. CASE meta' = NoMeta
      BY <3>2, <3>3, <3>5
    <3>6. CASE meta' = meta
      BY <3>1, <3>3, <3>6
    <3> QED BY <2>1, <3>4, <3>5, <3>6
  <2>4. GuideTypes'
    BY <1>1, <1>2, <2>1, <2>2, <2>3 DEF GuideTypes
  <2>5. CopyInv'
    <3>1. ~lost /\ cache # NoLink /\ meta.url # NoLink => cache = meta.url
      BY DEF GuideInv, CopyInv
    <3>2. CASE UNCHANGED <<meta, lost>>
      BY <2>1, <3>1, <3>2 DEF CopyInv
    <3>3. CASE meta' = NoMeta
      BY <3>3 DEF CopyInv, NoMeta
    <3>4. CASE meta' = [url |-> th.url, age |-> 0]
      <4>1. cache = th.url
        BY <2>1 DEF GuideInv, BuildInv
      <4> QED BY <2>1, <3>4, <4>1 DEF CopyInv
    <3> QED BY <2>1, <3>2, <3>3, <3>4
  <2> QED BY <1>2, <2>1, <2>2, <2>4, <2>5 DEF GuideInv, BuildInv
<1>9. CASE Install
  <2>1. /\ UNCHANGED <<cache, meta, lost>> /\ th.at = "install" /\ guide' = th.url
        /\ age' = [age EXCEPT !.net = 0] /\ Goes("good")
    BY <1>9 DEF Install, files
  <2>2. /\ th' \in [at : GuideStages, url : Links \cup {NoLink}, want : Lists \cup {0}, forced : BOOLEAN]
        /\ th'.at = "good" /\ th'.url = th.url
    BY <1>3, <2>1 DEF GuideStages
  <2>3. age' \in [{"net", "fail", "build"} -> Never .. Refresh] /\ guide' \in Links \cup {NoLink}
    BY <1>2, <2>1, GuideAssumption DEF GuideTypes, Never
  <2>4. GuideTypes'
    BY <1>1, <1>2, <2>1, <2>2, <2>3 DEF GuideTypes
  <2> QED BY <1>2, <2>1, <2>2, <2>4 DEF GuideInv, CopyInv, BuildInv
<1>10. CASE LastCopy
  <2>1. /\ UNCHANGED <<cache, meta, lost, age>> /\ th.at = "lastCopy" /\ guide' \in {cache, guide}
        /\ Goes("bad")
    BY <1>10 DEF LastCopy, files
  <2>2. /\ th' \in [at : GuideStages, url : Links \cup {NoLink}, want : Lists \cup {0}, forced : BOOLEAN]
        /\ th'.at = "bad" /\ th'.url = th.url
    BY <1>3, <2>1 DEF GuideStages
  <2>3. ~lost /\ guide' # NoLink => guide' = th.url
    BY <1>2, <2>1 DEF GuideInv, CopyInv, BuildInv
  <2>4. GuideTypes'
    BY <1>1, <1>2, <2>1, <2>2 DEF GuideTypes
  <2> QED BY <1>2, <2>1, <2>2, <2>3, <2>4 DEF GuideInv, CopyInv, BuildInv
<1> QED BY <1>4, <1>5, <1>6, <1>7, <1>8, <1>9, <1>10 DEF Building

\* The attempt is over, and the guide is of the link it was for.
LEMMA RemembersKeeps ==
  ASSUME GuideInv, Remembers
  PROVE  GuideInv'
<1>1. /\ UNCHANGED <<link, list, network, again, guide, cache, meta, lost>> /\ th.at \in {"good", "bad"}
      /\ th' = Resting
      /\ age' = [age EXCEPT !.fail = IF th.at = "good" THEN Never ELSE 0, !.build = 0]
      /\ last' = [last EXCEPT !.url = th.url, !.sig = th.want, !.have = TRUE]
  BY DEF Remembers, asked, files
<1>2. /\ Resting \in [at : GuideStages, url : Links \cup {NoLink}, want : Lists \cup {0}, forced : BOOLEAN]
      /\ Resting.at = "wait"
  BY DEF Resting, GuideStages
<1>3. GuideTypes
  BY DEF GuideInv
<1>4. /\ last' \in [url : Links \cup {NoLink}, sig : Lists \cup {0}, have : BOOLEAN, ver : Int]
      /\ last'.url = th.url
  BY <1>1, <1>3 DEF GuideTypes
<1>5. age' \in [{"net", "fail", "build"} -> Never .. Refresh] /\ age'["build"] # Never
  <2>1. PICK f : f = IF th.at = "good" THEN Never ELSE 0
    OBVIOUS
  <2>2. f \in Never .. Refresh /\ 0 \in Never .. Refresh /\ 0 # Never
    BY <2>1, GuideAssumption DEF Never
  <2> QED BY <1>1, <1>3, <2>1, <2>2 DEF GuideTypes
<1>6. GuideTypes'
  BY <1>1, <1>2, <1>3, <1>4, <1>5 DEF GuideTypes
<1> QED BY <1>1, <1>2, <1>4, <1>5, <1>6 DEF GuideInv, CopyInv, BuildInv

\* Copy, meta file and guide agree but for a copy left beside the meta file of another
\* link, for any links, lists, ages, failures and crashes.
THEOREM GuideInvariant == GuideSpec => []GuideInv
<1>1. GuideInit => GuideInv
  <2> SUFFICES ASSUME GuideInit PROVE GuideInv
    OBVIOUS
  <2>1. /\ Resting \in [at : GuideStages, url : Links \cup {NoLink}, want : Lists \cup {0}, forced : BOOLEAN]
        /\ Fresh \in [url : Links \cup {NoLink}, sig : Lists \cup {0}, have : BOOLEAN, ver : Int]
        /\ NoMeta \in [url : Links \cup {NoLink}, age : 0 .. Refresh]
        /\ Resting.at = "wait"
    BY GuideAssumption DEF Resting, Fresh, NoMeta, GuideStages
  <2>2. NeverDone \in [{"net", "fail", "build"} -> Never .. Refresh]
    BY GuideAssumption DEF NeverDone, Never
  <2>3. [is |-> 0, ver |-> 0] \in [is : Lists \cup {0}, ver : Nat]
    OBVIOUS
  <2>4. GuideTypes
    BY <2>1, <2>2, <2>3 DEF GuideInit, GuideTypes, NoGuide
  <2> QED BY <2>1, <2>4 DEF GuideInit, GuideInv, CopyInv, BuildInv, NoGuide
<1>2. GuideInv /\ [GuideNext]_guideVars => GuideInv'
  <2> SUFFICES ASSUME GuideInv, [GuideNext]_guideVars PROVE GuideInv'
    OBVIOUS
  <2>1. CASE UNCHANGED guideVars
    BY <2>1 DEF guideVars, asked, GuideInv, GuideTypes, CopyInv, BuildInv
  <2> QED BY <2>1, OutsideKeeps, DeathKeeps, RestingKeeps, DecidesKeeps, BuildingKeeps, RemembersKeeps
          DEF GuideNext, Guiding, Building
<1> QED BY <1>1, <1>2, PTL DEF GuideSpec

\* No guide is shown under a link it was not made for, whatever failed or died in between
\* (epg.c: "another guide's data would only mislead").
THEOREM GuideNamesItsLink == GuideSpec => []GuideIsOfItsLink
<1>1. GuideInv => GuideIsOfItsLink
  BY DEF GuideInv, BuildInv, GuideIsOfItsLink
<1> QED BY <1>1, GuideInvariant, PTL
=============================================================================
