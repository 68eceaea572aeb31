-------------------------------- MODULE Jobs --------------------------------
\* The jobs of httpd.c that outlive their request: the upload of a film and the
\* loading of a channel list each run on a thread of their own, which takes the
\* socket of the request over from server_main. One job of a kind at a time. The
\* list job can also be started from the pad, without a socket. The process may
\* die at any moment and start again; files stay.
EXTENDS Integers

CONSTANTS Conns,          \* the connections, as numbers in the order in which they come
          MaxCrashes      \* bound: how often the process dies

ASSUME JobsAssumption == Conns \subseteq Nat \ {0} /\ MaxCrashes \in Nat

Kinds == {"upload", "list"}
Requests == Kinds \cup {"replay", "delete"}
None == 0                 \* no connection, no upload
NoFile == [of |-> None, whole |-> TRUE]

VARIABLES
  conn,      \* conn[c]: "new", "open", "closed", or "again": closed a second time
  server,    \* server_main: where it is, the connection and the request it handles
  handoff,   \* g_upload_handoff
  busy,      \* busy["upload"] is g_upload_active, busy["list"] g_plist_active
  job,       \* job[k]: the worker thread of kind k and the connection it owns
  pad,       \* the main thread inside httpd_freetv_start
  part,      \* UPLOAD_TMP_PATH: whose upload, and whether all of it
  film,      \* PLAYER_LOCAL_UPLOAD_PATH: the same
  label,     \* UPLOAD_NAME_PATH: the upload whose name it holds, or "empty"
  cast,      \* the local file: "no", "posted" (g_player_pending) or "playing"
  torn,      \* history: a rename whose name was never saved
  crashes
jobsVars == <<conn, server, handoff, busy, job, pad, part, film, label, cast, torn, crashes>>
disk == <<part, film, label, torn>>
threads == <<conn, server, handoff, busy, job, pad>>

Idle == [at |-> "accept", conn |-> None, kind |-> "none"]
Gone == [at |-> "gone", conn |-> None]

JobsInit ==
  /\ conn = [c \in Conns |-> "new"] /\ server = Idle /\ handoff = FALSE
  /\ busy = [k \in Kinds |-> FALSE] /\ job = [k \in Kinds |-> Gone] /\ pad = "idle"
  /\ part = NoFile /\ film = NoFile /\ label = None /\ cast = "no"
  /\ torn = FALSE /\ crashes = 0

-----------------------------------------------------------------------------
\* server_main: one connection at a time.

ServerGoes(stage) == server' = [server EXCEPT !.at = stage]
ClosedAgain(c) == [conn EXCEPT ![c] = IF @ = "open" THEN "closed" ELSE "again"]

HandoffKept == handoff                                             \* Mutant
HandoffReset == FALSE

Accept ==
  \E c \in Conns, kind \in Requests :
    /\ server.at = "accept" /\ conn[c] = "new" /\ \A d \in Conns : d < c => conn[d] # "new"
    /\ conn' = [conn EXCEPT ![c] = "open"] /\ handoff' = HandoffReset
    /\ server' = [at |-> CASE kind \in Kinds -> "claim"
                           [] OTHER -> kind, conn |-> c, kind |-> kind]
    /\ UNCHANGED <<busy, job, pad, disk, cast, crashes>>

\* handle_local_upload and start_list_job claim their worker, or answer that it is
\* busy. An empty or chunked upload is turned away before: it claims nothing.
Claim ==
  /\ server.at = "claim"
  /\ \/ busy[server.kind] /\ ServerGoes("close") /\ UNCHANGED busy
     \/ ~busy[server.kind] /\ busy' = [busy EXCEPT ![server.kind] = TRUE] /\ ServerGoes("start")
  /\ UNCHANGED <<conn, handoff, job, pad, disk, cast, crashes>>

\* The worker runs from here on, and may be done with the socket before server_main
\* hears that it was handed over.
Begin(k, c) == job' = [job EXCEPT ![k] = [at |-> "begin", conn |-> c]]

StartFailed == "release"

Start ==
  /\ server.at = "start"
  /\ \/ Begin(server.kind, server.conn) /\ ServerGoes("handoff")
     \/ ServerGoes(StartFailed) /\ UNCHANGED job
  /\ UNCHANGED <<conn, handoff, busy, pad, disk, cast, crashes>>

ReleaseClaim ==
  /\ server.at = "release" /\ busy' = [busy EXCEPT ![server.kind] = FALSE]
  /\ ServerGoes("close") /\ UNCHANGED <<conn, handoff, job, pad, disk, cast, crashes>>

HandOver ==
  /\ server.at = "handoff" /\ handoff' = TRUE /\ ServerGoes("close")
  /\ UNCHANGED <<conn, busy, job, pad, disk, cast, crashes>>

CloseUnlessHandedOver ==
  /\ server.at = "close" /\ server' = Idle
  /\ conn' = IF handoff THEN conn ELSE ClosedAgain(server.conn)
  /\ UNCHANGED <<handoff, busy, job, pad, disk, cast, crashes>>

\* /upload/replay: only if there is a file.
Replay ==
  /\ server.at = "replay" /\ ServerGoes("close")
  /\ cast' = IF film.of = None THEN cast ELSE "posted"
  /\ UNCHANGED <<conn, handoff, busy, job, pad, disk, crashes>>

\* /upload/delete: takes back what was posted or plays, then removes the files one
\* by one, whatever an upload is doing.
Delete ==
  /\ server.at = "delete" /\ cast' = "no" /\ ServerGoes("unlinkFilm")
  /\ UNCHANGED <<conn, handoff, busy, job, pad, disk, crashes>>
UnlinkFilm ==
  /\ server.at = "unlinkFilm" /\ film' = NoFile /\ ServerGoes("unlinkLabel")
  /\ UNCHANGED <<conn, handoff, busy, job, pad, part, label, torn, cast, crashes>>
UnlinkLabel ==
  /\ server.at = "unlinkLabel" /\ label' = None /\ ServerGoes("unlinkPart")
  /\ UNCHANGED <<conn, handoff, busy, job, pad, part, film, torn, cast, crashes>>
UnlinkPart ==
  /\ server.at = "unlinkPart" /\ part' = NoFile /\ ServerGoes("close")
  /\ UNCHANGED <<conn, handoff, busy, job, pad, film, label, torn, cast, crashes>>

-----------------------------------------------------------------------------
\* upload_worker.

JobGoes(k, stage) == job' = [job EXCEPT ![k].at = stage]
Uploader == job["upload"].conn
Mine == part.of = Uploader       \* the part file is still there
Work(stage) == job["upload"].at = stage /\ UNCHANGED <<conn, server, handoff, busy, pad, crashes>>

\* A new part file; without one the client is told that there is no room.
CreatePart ==
  /\ Work("begin")
  /\ \/ part' = [of |-> Uploader, whole |-> FALSE] /\ JobGoes("upload", "receive")
     \/ part' = NoFile /\ JobGoes("upload", "end")
  /\ UNCHANGED <<film, label, torn, cast>>

\* The last byte arrives, or the client or the disk fails before: then the part goes.
\* A part file that was deleted meanwhile takes bytes as before, without a name.
ReceiveEnds == "discard"

Receive ==
  /\ Work("receive")
  /\ \/ part' = [part EXCEPT !.whole = TRUE] /\ JobGoes("upload", "rename")
     \/ part' = part /\ JobGoes("upload", ReceiveEnds)
  /\ UNCHANGED <<film, label, torn, cast>>

Discard ==
  /\ Work("discard") /\ part' = NoFile /\ JobGoes("upload", "end")
  /\ UNCHANGED <<film, label, torn, cast>>

\* The rename replaces a film that may be playing; it fails when the part file has
\* been deleted.
RenameFails == "discard"

Rename ==
  /\ Work("rename") /\ part' = NoFile
  /\ \/ Mine /\ film' = part /\ JobGoes("upload", "label")
     \/ film' = film /\ JobGoes("upload", RenameFails)
  /\ UNCHANGED <<label, torn, cast>>

\* upload_name_save: the file is emptied, then written. If it cannot be opened the
\* old name stays.
OpenLabel ==
  /\ Work("label")
  /\ \/ label' = None /\ torn' = torn /\ JobGoes("upload", "write")
     \/ label' = label /\ torn' = TRUE /\ JobGoes("upload", "post")
  /\ UNCHANGED <<part, film, cast>>
WriteLabel ==
  /\ Work("write") /\ label' = Uploader /\ torn' = FALSE /\ JobGoes("upload", "post")
  /\ UNCHANGED <<part, film, cast>>

PostFilm ==
  /\ Work("post") /\ cast' = "posted" /\ JobGoes("upload", "end") /\ UNCHANGED disk

\* playlist_worker: it fetches, publishes and answers; the store is not modelled here.
Load ==
  /\ job["list"].at = "begin" /\ JobGoes("list", "end")
  /\ UNCHANGED <<conn, server, handoff, busy, pad, disk, cast, crashes>>

\* Both workers close their socket, if there is one, and give the claim back.
CloseOwn(k) ==
  /\ job[k].at = "end" /\ JobGoes(k, "release")
  /\ conn' = IF job[k].conn = None THEN conn ELSE ClosedAgain(job[k].conn)
  /\ UNCHANGED <<server, handoff, busy, pad, disk, cast, crashes>>

EndOf(k) ==
  /\ job[k].at = "release" /\ job' = [job EXCEPT ![k] = Gone]
  /\ busy' = [busy EXCEPT ![k] = FALSE]
  /\ UNCHANGED <<conn, server, handoff, pad, disk, cast, crashes>>

-----------------------------------------------------------------------------
\* The main thread: a list job from the pad, and taking the posted film.

PadClaims ==
  /\ pad = "idle" /\ ~busy["list"] /\ pad' = "start" /\ busy' = [busy EXCEPT !["list"] = TRUE]
  /\ UNCHANGED <<conn, server, handoff, job, disk, cast, crashes>>

PadStarts ==
  /\ pad = "start"
  /\ \/ Begin("list", None) /\ pad' = "idle" /\ UNCHANGED busy
     \/ pad' = "idle" /\ busy' = [busy EXCEPT !["list"] = FALSE] /\ UNCHANGED job
  /\ UNCHANGED <<conn, server, handoff, disk, cast, crashes>>

TakeFilm ==
  /\ cast = "posted" /\ cast' \in {"playing", "no"}
  /\ UNCHANGED <<threads, disk, crashes>>

\* The process dies; the kernel closes its sockets. httpd_init removes the part file.
Crash ==
  /\ crashes < MaxCrashes /\ crashes' = crashes + 1
  /\ conn' = [c \in Conns |-> IF conn[c] = "open" THEN "closed" ELSE conn[c]]
  /\ server' = Idle /\ handoff' = FALSE /\ pad' = "idle" /\ cast' = "no"
  /\ busy' = [k \in Kinds |-> FALSE] /\ job' = [k \in Kinds |-> Gone]
  /\ torn' = (torn \/ job["upload"].at = "label")
  /\ part' = NoFile /\ UNCHANGED <<film, label>>

-----------------------------------------------------------------------------
Serving ==
  \/ Claim \/ Start \/ ReleaseClaim \/ HandOver \/ CloseUnlessHandedOver
  \/ Replay \/ Delete \/ UnlinkFilm \/ UnlinkLabel \/ UnlinkPart
Uploading ==
  CreatePart \/ Receive \/ Discard \/ Rename \/ OpenLabel \/ WriteLabel \/ PostFilm
Working == Uploading \/ Load \/ \E k \in Kinds : CloseOwn(k) \/ EndOf(k)

JobsNext == Accept \/ Serving \/ Working \/ PadClaims \/ PadStarts \/ TakeFilm \/ Crash
JobsSpec == JobsInit /\ [][JobsNext]_jobsVars

JobsTypeOK ==
  /\ conn \in [Conns -> {"new", "open", "closed", "again"}]
  /\ server.conn \in Conns \cup {None} /\ handoff \in BOOLEAN
  /\ busy \in [Kinds -> BOOLEAN] /\ pad \in {"idle", "start"}
  /\ \A k \in Kinds : job[k].conn \in Conns \cup {None}
  /\ part.of \in Conns \cup {None} /\ film.of \in Conns \cup {None} /\ label \in Conns \cup {None}
  /\ cast \in {"no", "posted", "playing"} /\ torn \in BOOLEAN /\ crashes \in 0 .. MaxCrashes

\* Who will still close the socket of connection c: "server_main must not touch that
\* socket again" once a worker has it, and closes it in every other case.
ServerHolds(c) == server.conn = c /\ server.at # "handoff" /\ ~handoff
JobHolds(k, c) == job[k].conn = c /\ job[k].at \notin {"gone", "release"}

Holders(c) == {k \in Kinds : JobHolds(k, c)} \cup {h \in {"server"} : ServerHolds(c)}

\* Every socket is closed once: an open one has exactly one holder, a closed one
\* none, also while worker and server_main hand it over.
SocketsHaveOneHolder ==
  \A c \in Conns :
    /\ conn[c] = "open" <=> Holders(c) # {}
    /\ \A h, i \in Holders(c) : h = i

\* A claim ends with its worker, or with the failure to start one: a claim without a
\* holder would turn every later upload or list away, a worker without a claim would
\* share its file and buffer with a second one.
ClaimsHaveHolder ==
  \A k \in Kinds :
    busy[k] = \/ job[k].at # "gone"
              \/ server.kind = k /\ server.at \in {"start", "release"}
              \/ k = "list" /\ pad = "start"

\* "Discard a partial upload left by power loss": the film on the disk was received to
\* its last byte, and the name beside it is its own, unless the process died between
\* the rename and the name.
FilmIsWhole ==
  /\ film.whole
  /\ film.of # None /\ ~torn /\ job["upload"].at # "label" => label \in {None, film.of}

\* The three together: jobs leave nothing behind that belongs to another one.
JobsAreSound == SocketsHaveOneHolder /\ ClaimsHaveHolder /\ FilmIsWhole
=============================================================================
