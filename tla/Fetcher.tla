------------------------------ MODULE Fetcher ------------------------------
(***************************************************************************)
(* One stream channel of the fetcher (aseg.c) with its slot of the         *)
(* console's own HTTP client (native_http.c): fetches one at a time over a *)
(* connection that is kept for the next, redirects, retries, and aborts    *)
(* and resumes that other threads raise at any moment. The channels share  *)
(* only the pinned host and the header policy, which others may change.    *)
(***************************************************************************)
EXTENDS Naturals

CONSTANTS Controllers,   \* threads that abort and resume
          Hosts, Tls,    \* servers, and those spoken to over TLS
          Fds,           \* descriptors a socket may get
          MaxHops,       \* requests of one fetch, redirects included (5 in aseg.c)
          MaxAborts,     \* bound on abort_ch calls
          None

ASSUME FetcherAssumption ==
  Tls \subseteq Hosts /\ None \notin Hosts \cup Fds /\ MaxHops \in Nat \ {0}

VARIABLES abort, abortGen,   \* the sticky flag, and how often it was raised
          sock,      \* the connection, or Closed
          kept,      \* what the last fetch left of it: kaAlive, kaGen, kaHost
          native,    \* the NhttpSlot
          f,         \* the fetch that holds the channel's lock
          k,         \* the abort or resume each controller is in
          pin,       \* g_nativeHost
          page,      \* urlopt_has_page_headers: would the stream send Referer or Origin?
          aborts     \* abort_ch calls so far

fetcherVars == <<abort, abortGen, sock, kept, native, f, k, pin, page, aborts>>
shared == <<pin, page>>
conn == <<sock, kept, native>>
flag == <<abort, abortGen>>

\* unread: bytes of an answer still on the wire; gen: of the last fetch that used it; cut:
\* SocketAbort has hit it, in an abort of that fetch ("meant") or in one from before it ("stray").
Closed == [fd |-> None, host |-> None, unread |-> FALSE, gen |-> 0, cut |-> "no"]
NotKept == [alive |-> FALSE, gen |-> 0, host |-> None]
NoFetch == [at |-> "idle", host |-> None, gen0 |-> 0, hops |-> 0, reuse |-> FALSE, why |-> "no"]
NoCall == [at |-> "idle", fd |-> None, gen |-> 0]

FetcherInit ==
  /\ abort = FALSE /\ abortGen = 0
  /\ sock = Closed /\ kept = NotKept
  /\ native = [host |-> None, drop |-> FALSE, req |-> FALSE, cut |-> FALSE]
  /\ f = NoFetch
  /\ k = [a \in Controllers |-> NoCall]
  /\ pin = None /\ page \in BOOLEAN /\ aborts = 0

----------------------------------------------------------------------------
(* A fetch, aseg_fetch_opts and aseg_fetch_inner. *)

Goes(stage) == f' = [f EXCEPT !.at = stage]

\* conn_close(c); c->kaAlive = 0
Drop == sock' = Closed /\ kept' = NotKept

\* The channel's lock is taken and the generation read, before the flag: who reads the new one
\* sees the abort too.
Begin ==
  /\ f.at = "idle"
  /\ \E h \in Hosts : f' = [NoFetch EXCEPT !.at = "flag", !.host = h, !.gen0 = abortGen]
  /\ UNCHANGED <<flag, conn, k, shared, aborts>>

Enter ==
  /\ f.at = "flag"
  /\ f' = IF abort THEN NoFetch
          ELSE IF pin = f.host THEN [f EXCEPT !.at = "native", !.why = "pinned"]
          ELSE [f EXCEPT !.at = "hop"]
  /\ UNCHANGED <<flag, conn, k, shared, aborts>>

\* Aborted, over its budget, a name that does not resolve, too many hops.
HopFails ==
  /\ f.at = "hop" /\ Drop /\ f' = NoFetch
  /\ UNCHANGED <<flag, native, k, shared, aborts>>

Hop ==
  /\ f.at = "hop" /\ ~abort /\ f.hops < MaxHops
  /\ Goes("choose")
  /\ UNCHANGED <<flag, conn, k, shared, aborts>>

ReusableMutant == kept.alive /\ sock # Closed /\ kept.host = f.host   \* whatever the generation

\* May the kept connection carry the next request?
Reusable == kept.alive /\ kept.gen = abortGen /\ sock # Closed /\ kept.host = f.host

Choose ==
  /\ f.at = "choose"
  /\ f' = [f EXCEPT !.reuse = Reusable, !.hops = @ + 1, !.at = IF Reusable THEN "send" ELSE "connect"]
  /\ sock' = IF Reusable THEN [sock EXCEPT !.gen = f.gen0] ELSE Closed
  /\ UNCHANGED <<flag, kept, native, k, shared, aborts>>

\* tcp_connect publishes the socket before it waits for the connection.
Connect ==
  /\ f.at = "connect"
  /\ IF abort THEN Goes("failed") /\ UNCHANGED sock
     ELSE /\ \E d \in Fds : sock' = [Closed EXCEPT !.fd = d, !.host = f.host, !.gen = f.gen0]
          /\ Goes("send")
  /\ UNCHANGED <<flag, kept, native, k, shared, aborts>>

\* Connected, agreed over TLS, and the request written.
Send ==
  /\ f.at = "send" /\ ~abort
  /\ Goes("header")
  /\ UNCHANGED <<flag, conn, k, shared, aborts>>

\* Refused, late, cut or aborted, before or after the request: do_request closes.
RequestFails ==
  /\ f.at \in {"send", "header"}
  /\ sock' = Closed /\ Goes("failed")
  /\ UNCHANGED <<flag, kept, native, k, shared, aborts>>

\* HTTPS is tried once through the console's client.
Natively(why) ==
  f' = IF f.host \in Tls THEN [f EXCEPT !.at = "native", !.why = why] ELSE NoFetch

\* A kept connection has gone stale: a fresh one, once. A clean retry has failed: its policy is
\* given up. Else a hard failure.
Failed ==
  /\ f.at = "failed" /\ Drop
  /\ IF f.reuse
     THEN f' = [f EXCEPT !.at = "connect", !.reuse = FALSE] /\ UNCHANGED page
     ELSE IF f.why = "clean"
     THEN Natively("denied") /\ page' = TRUE
     ELSE (IF abort THEN f' = NoFetch ELSE Natively("hard")) /\ UNCHANGED page
  /\ UNCHANGED <<flag, native, k, pin, aborts>>

\* 200 or 206, the body on the wire. A clean retry that wins keeps its policy.
Accepted ==
  /\ f.at = "header" /\ Goes("body")
  /\ sock' = [sock EXCEPT !.unread = TRUE]
  /\ UNCHANGED <<flag, kept, native, k, shared, aborts>>

RedirectedMutant ==   \* the connection stays kept
  /\ f.at = "header" /\ f.why # "clean"
  /\ sock' = [sock EXCEPT !.unread = TRUE]
  /\ \/ Goes("failed")
     \/ ~f.reuse /\ \E h \in Hosts : f' = [f EXCEPT !.host = h, !.at = "hop"]
  /\ UNCHANGED <<flag, kept, native, k, shared, aborts>>

\* A redirect is followed with its body unread; over a reused connection it counts as stale, and
\* without a Location as a failure.
Redirected ==
  /\ f.at = "header" /\ f.why # "clean"
  /\ sock' = [sock EXCEPT !.unread = TRUE]
  /\ \/ Goes("failed") /\ UNCHANGED kept
     \/ ~f.reuse /\ kept' = NotKept /\ \E h \in Hosts : f' = [f EXCEPT !.host = h, !.at = "hop"]
  /\ UNCHANGED <<flag, native, k, shared, aborts>>

\* 403: once more without Referer and Origin, if the stream sends them.
Forbidden ==
  /\ f.at = "header" /\ Drop
  /\ IF f.why # "clean" /\ page
     THEN /\ f' = [f EXCEPT !.at = "connect", !.why = "clean", !.reuse = FALSE]
          /\ page' = FALSE
     ELSE Natively("denied") /\ page' = (page \/ f.why = "clean")
  /\ UNCHANGED <<flag, native, k, pin, aborts>>

\* Any other status, and a redirect of the clean retry.
Refused ==
  /\ f.at = "header" /\ Drop /\ f' = NoFetch
  /\ page' = (page \/ f.why = "clean")
  /\ UNCHANGED <<flag, native, k, pin, aborts>>

\* The body is read up to its framing: by length, or chunk by chunk with the trailer.
Framed ==
  /\ f.at = "body" /\ Goes("keep")
  /\ sock' = [sock EXCEPT !.unread = FALSE]
  /\ UNCHANGED <<flag, kept, native, k, shared, aborts>>

\* Read to the end of the connection; or aborted, late, short, too large, only its head wanted,
\* stopped by the one who takes it, or media where a page was looked for.
Unframed ==
  /\ f.at = "body" /\ Drop /\ f' = NoFetch
  /\ UNCHANGED <<flag, native, k, shared, aborts>>

\* keep_alive: with the generation of the fetch, not that of now.
KeepAlive ==
  /\ f.at = "keep" /\ f' = NoFetch
  /\ kept' = [alive |-> TRUE, gen |-> f.gen0, host |-> f.host]
  /\ UNCHANGED <<flag, sock, native, k, shared, aborts>>

----------------------------------------------------------------------------
(* The console's client, native_http_fetch. *)

\* The connection is taken again unless an abort has hit it or it leads elsewhere.
NativeRequest ==
  /\ Goes("waiting")
  /\ native' = IF native.drop \/ native.host # f.host
               THEN [host |-> f.host, drop |-> FALSE, req |-> TRUE, cut |-> FALSE]
               ELSE [native EXCEPT !.req = TRUE]

NativeStartMutant ==   \* the flag is not looked at
  /\ f.at = "native"
  /\ NativeRequest \/ (Goes("unpin") /\ UNCHANGED native)
  /\ UNCHANGED <<flag, sock, kept, k, shared, aborts>>

\* Under g_reqLock: either this sees the abort, or the abort sees the request. The client may
\* be missing, or have no connection to give.
NativeStart ==
  /\ f.at = "native"
  /\ (~abort /\ NativeRequest) \/ (Goes("unpin") /\ UNCHANGED native)
  /\ UNCHANGED <<flag, sock, kept, k, shared, aborts>>

\* The request is withdrawn; its connection stays or, with unread data or an error, goes.
Withdraw ==
  \E h \in {None, f.host} :
    native' = [native EXCEPT !.req = FALSE, !.host = h, !.cut = @ /\ h # None]

NativeDone ==
  /\ f.at = "waiting" /\ Withdraw /\ f' = NoFetch
  /\ pin' = IF f.why = "pinned" THEN pin ELSE f.host
  /\ UNCHANGED <<flag, sock, kept, k, page, aborts>>

NativeFails ==
  /\ f.at = "waiting" /\ Withdraw /\ Goes("unpin")
  /\ UNCHANGED <<flag, sock, kept, k, shared, aborts>>

\* A pinned server that fails loses its pin, unless that was an abort, and is asked directly.
Unpin ==
  /\ f.at = "unpin"
  /\ pin' = IF f.why = "pinned" /\ ~abort THEN None ELSE pin
  /\ f' = IF f.why = "pinned" THEN [f EXCEPT !.at = "hop", !.why = "no"] ELSE NoFetch
  /\ UNCHANGED <<flag, conn, k, page, aborts>>

----------------------------------------------------------------------------
(* Aborts and resumes, abort_ch and resume_ch. *)

Calls(a, stage) == k[a].at = stage
Advances(a, stage) == k' = [k EXCEPT ![a].at = stage]

Abort(a) ==
  /\ Calls(a, "idle") /\ aborts < MaxAborts
  /\ abort' = TRUE /\ aborts' = aborts + 1
  /\ Advances(a, "generation")
  /\ UNCHANGED <<abortGen, conn, f, shared>>

NextGeneration(a) ==
  /\ Calls(a, "generation")
  /\ abortGen' = abortGen + 1
  /\ k' = [k EXCEPT ![a].at = "forget", ![a].gen = abortGen + 1]
  /\ UNCHANGED <<abort, conn, f, shared, aborts>>

Forget(a) ==
  /\ Calls(a, "forget")
  /\ kept' = NotKept
  /\ Advances(a, "read")
  /\ UNCHANGED <<flag, sock, native, f, shared, aborts>>

ReadSocket(a) ==
  /\ Calls(a, "read")
  /\ k' = [k EXCEPT ![a].fd = sock.fd, ![a].at = IF sock.fd = None THEN "native" ELSE "cut"]
  /\ UNCHANGED <<flag, conn, f, shared, aborts>>

\* By now the descriptor may be closed, or belong to a connection made since.
SocketAbort(a) ==
  /\ Calls(a, "cut")
  /\ sock' = IF sock.fd # k[a].fd THEN sock
             ELSE [sock EXCEPT !.cut = IF sock.gen < k[a].gen \/ @ = "meant" THEN "meant" ELSE "stray"]
  /\ Advances(a, "native")
  /\ UNCHANGED <<flag, kept, native, f, shared, aborts>>

\* native_http_abort
NativeAbort(a) ==
  /\ Calls(a, "native")
  /\ native' = [native EXCEPT !.drop = TRUE, !.cut = @ \/ native.req]
  /\ k' = [k EXCEPT ![a] = NoCall]
  /\ UNCHANGED <<flag, sock, kept, f, shared, aborts>>

\* resume_ch
Resume(a) ==
  /\ Calls(a, "idle") /\ abort
  /\ abort' = FALSE
  /\ Advances(a, "check")
  /\ UNCHANGED <<abortGen, conn, f, shared, aborts>>

\* Whether the open in progress is superseded is the player's to say: then the abort is raised again.
CheckSuperseded(a) ==
  /\ Calls(a, "check")
  /\ \/ k' = [k EXCEPT ![a] = NoCall] /\ UNCHANGED <<abort, aborts>>
     \/ /\ aborts < MaxAborts
        /\ abort' = TRUE /\ aborts' = aborts + 1
        /\ Advances(a, "generation")
  /\ UNCHANGED <<abortGen, conn, f, shared>>

\* The other channels pin and unpin, and try policies; urlopt_apply sets that of another stream.
Elsewhere ==
  /\ pin' \in {None} \cup Tls /\ page' \in BOOLEAN
  /\ UNCHANGED <<flag, conn, f, k, aborts>>

----------------------------------------------------------------------------
FetchStep ==
  \/ Enter \/ Hop \/ HopFails \/ Choose \/ Connect \/ Send \/ RequestFails \/ Failed
  \/ Accepted \/ Redirected \/ Forbidden \/ Refused \/ Framed \/ Unframed \/ KeepAlive
  \/ NativeStart \/ NativeDone \/ NativeFails \/ Unpin

CallStep(a) ==
  \/ NextGeneration(a) \/ Forget(a) \/ ReadSocket(a) \/ SocketAbort(a) \/ NativeAbort(a)
  \/ CheckSuperseded(a)

FetcherNext ==
  \/ Begin \/ FetchStep \/ Elsewhere
  \/ \E a \in Controllers : Abort(a) \/ Resume(a) \/ CallStep(a)

FetcherSpec == FetcherInit /\ [][FetcherNext]_fetcherVars

----------------------------------------------------------------------------

\* A request goes out over a connection to its own host on which nothing of an earlier answer is
\* left (reuse check and keep_alive of aseg_fetch_inner, aseg.c:828): else its reader would take
\* the rest of that answer for its own.
BodyIsOwn == f.at = "send" => sock # Closed /\ sock.host = f.host /\ ~sock.unread

\* A connection that the abort of an earlier fetch has hit carries no later one, even if that
\* fetch ended well after the abort and kept it (kaGen, aseg.c:321-337, 677).
AbortedNeverReused ==
  [][f.at = "choose" /\ f'.at = "send" => sock.cut # "meant"]_fetcherVars

\* While an abort stands and its calls are through, the console's client has no request out that
\* was not cut (g_reqLock, native_http.c:252-280): the stop of a stream would wait for it.
AbortReachesNative ==
  abort /\ native.req /\ (\A a \in Controllers : Calls(a, "idle")) => native.cut
=============================================================================
