----------------------------- MODULE EndsProofs ------------------------------
(***************************************************************************)
(* The fetcher, the playlists, the screen and the reorder buffer, each     *)
(* under its own specification.  What the fetcher promises about its       *)
(* connections holds for every number of threads that abort, servers,      *)
(* redirects and aborts.  A playlist is read as its lines say, whatever    *)
(* they are.  Nobody writes into a surface that is scanned out or waits    *)
(* for it, for any number of painters, pictures and openings.  Pictures    *)
(* leave the reorder buffer in the order of their stamps, for every size   *)
(* of it.                                                                  *)
(***************************************************************************)
EXTENDS Ends, FiniteSetTheorems, SequenceTheorems, WellFoundedInduction, TLAPS

\* The fetcher.

Before == {"idle", "flag", "native", "waiting", "unpin", "hop", "choose"}   \* no request out
During == {"send", "header", "body", "keep"}                               \* a request is out
Host == Hosts \cup {None}

Sockets == [fd : Fds \cup {None}, host : Host, unread : BOOLEAN, gen : Nat,
            cut : {"no", "meant", "stray"}]
Marks == [alive : BOOLEAN, gen : Nat, host : Host]
Clients == [host : Host, drop : BOOLEAN, req : BOOLEAN, cut : BOOLEAN]
Fetches == [at : Before \cup During \cup {"connect", "failed"}, host : Host, gen0 : Nat, hops : Nat,
            reuse : BOOLEAN, why : {"no", "pinned", "clean", "denied", "hard"}]
Aborts == [at : {"idle", "generation", "forget", "read", "cut", "native", "check"},
           fd : Fds \cup {None}, gen : Nat]

FetcherTypeOK ==
  /\ abort \in BOOLEAN /\ abortGen \in Nat
  /\ sock \in Sockets /\ kept \in Marks /\ native \in Clients /\ f \in Fetches
  /\ k \in [Controllers -> Aborts]

\* The request under way is on its own connection; when it goes out, and when its answer has been
\* read, nothing else is on the wire.
Carries ==
  /\ f.at # "idle" => f.host \in Hosts
  /\ f.at \in During => sock.host = f.host
  /\ f.at \in {"send", "keep"} => ~sock.unread
  /\ f.at \in During => sock.gen = f.gen0

\* What the kept mark says of the connection is true whenever it may be looked at.
KeptIsTrue ==
  f.at \in Before /\ kept.alive =>
    kept.gen = sock.gen /\ kept.host = sock.host /\ ~sock.unread

\* An abort hits what it means to before the generation of the next fetch.
CutIsOld ==
  /\ sock.cut = "meant" => sock.gen < abortGen
  /\ \A a \in Controllers : k[a].gen <= abortGen

\* An abort that has not got to the console's client yet is on its way to it.
NativeIsReached ==
  /\ native.req => f.at = "waiting"
  /\ abort /\ native.req /\ ~native.cut =>
       \E a \in Controllers : k[a].at \notin {"idle", "check"}

FetcherInv == FetcherTypeOK /\ Carries /\ KeptIsTrue /\ CutIsOld /\ NativeIsReached

LEMMA FetcherInitially == ASSUME FetcherInit PROVE FetcherInv
<1>1. Closed \in Sockets BY DEF Closed, Sockets, Host
<1>2. NotKept \in Marks BY DEF NotKept, Marks, Host
<1>3. NoFetch \in Fetches BY DEF NoFetch, Fetches, Host, Before
<1>4. NoCall \in Aborts BY DEF NoCall, Aborts
<1>5. native \in Clients BY DEF FetcherInit, Clients, Host
<1>6. FetcherTypeOK BY <1>1, <1>2, <1>3, <1>4, <1>5 DEF FetcherInit, FetcherTypeOK
<1>7. Carries /\ KeptIsTrue
  BY DEF FetcherInit, Carries, KeptIsTrue, NoFetch, NotKept, During
<1>8. CutIsOld /\ NativeIsReached
  BY DEF FetcherInit, CutIsOld, NativeIsReached, Closed, NoCall
<1>9. QED BY <1>6, <1>7, <1>8 DEF FetcherInv

----------------------------------------------------------------------------
(* The fetch. *)

LEMMA NativelyIsTyped ==
  ASSUME f \in Fetches, NEW w \in {"denied", "hard"}, Natively(w) PROVE f' \in Fetches
BY DEF Natively, NoFetch, Fetches, Before, Host

LEMMA NativelyGoes ==
  ASSUME f \in Fetches, NEW w, Natively(w)
  PROVE  f' = NoFetch \/ (f.host = f'.host /\ f'.at = "native")
BY DEF Natively, Fetches

LEMMA FetchIsTyped == ASSUME FetcherInv, FetchStep PROVE f' \in Fetches
<1> USE DEF FetcherInv, FetcherTypeOK, Carries, Fetches, Before, During, Host, Goes, NoFetch
<1>1. CASE Enter BY <1>1 DEF Enter
<1>2. CASE Hop BY <1>2 DEF Hop
<1>3. CASE HopFails BY <1>3 DEF HopFails
<1>4. CASE Choose
  <2>1. Reusable \in BOOLEAN BY DEF Reusable, Marks
  <2>2. PICK r \in BOOLEAN : r = Reusable BY <2>1
  <2>3. f' = [f EXCEPT !.reuse = r, !.hops = @ + 1, !.at = IF r THEN "send" ELSE "connect"]
    BY <1>4, <2>2 DEF Choose
  <2>4. f' = [at |-> IF r THEN "send" ELSE "connect", host |-> f.host, gen0 |-> f.gen0,
              hops |-> f.hops + 1, reuse |-> r, why |-> f.why]
    BY <2>3
  <2>5. QED BY <2>2, <2>4
<1>5. CASE Connect BY <1>5 DEF Connect
<1>6. CASE Send BY <1>6 DEF Send
<1>7. CASE RequestFails BY <1>7 DEF RequestFails
<1>8. CASE Failed
  <2>1. CASE f.reuse BY <1>8, <2>1 DEF Failed
  <2>2. CASE ~f.reuse /\ f.why = "clean" BY <1>8, <2>2, NativelyIsTyped DEF Failed
  <2>3. CASE ~f.reuse /\ f.why # "clean"
    <3>1. f' = NoFetch \/ Natively("hard") BY <1>8, <2>3 DEF Failed
    <3>2. NoFetch \in Fetches OBVIOUS
    <3>3. QED BY <3>1, <3>2, NativelyIsTyped
  <2>4. QED BY <2>1, <2>2, <2>3
<1>9. CASE Accepted BY <1>9 DEF Accepted
<1>10. CASE Redirected BY <1>10 DEF Redirected
<1>11. CASE Forbidden
  <2>1. CASE f.why # "clean" /\ page BY <1>11, <2>1, ZenonT(40) DEF Forbidden
  <2>2. CASE ~(f.why # "clean" /\ page) BY <1>11, <2>2, NativelyIsTyped DEF Forbidden
  <2>3. QED BY <2>1, <2>2
<1>12. CASE Refused BY <1>12 DEF Refused
<1>13. CASE Framed BY <1>13 DEF Framed
<1>14. CASE Unframed BY <1>14 DEF Unframed
<1>15. CASE KeepAlive BY <1>15 DEF KeepAlive
<1>16. CASE NativeStart BY <1>16 DEF NativeStart, NativeRequest
<1>17. CASE NativeDone BY <1>17 DEF NativeDone, Withdraw
<1>18. CASE NativeFails BY <1>18 DEF NativeFails, Withdraw
<1>19. CASE Unpin BY <1>19 DEF Unpin
<1>20. QED
  BY <1>1, <1>2, <1>3, <1>4, <1>5, <1>6, <1>7, <1>8, <1>9, <1>10, <1>11, <1>12, <1>13, <1>14,
     <1>15, <1>16, <1>17, <1>18, <1>19
     DEF FetchStep

LEMMA SocketIsTyped == ASSUME FetcherInv, FetchStep PROVE sock' \in Sockets
<1> USE DEF FetcherInv, FetcherTypeOK, Sockets, Fetches, Host, Carries, During, Drop, Closed,
            conn
<1>1. CASE HopFails BY <1>1 DEF HopFails
<1>2. CASE Choose BY <1>2 DEF Choose
<1>3. CASE Connect BY <1>3 DEF Connect
<1>4. CASE RequestFails BY <1>4 DEF RequestFails
<1>5. CASE Failed BY <1>5 DEF Failed, Natively
<1>6. CASE Accepted BY <1>6 DEF Accepted
<1>7. CASE Redirected BY <1>7 DEF Redirected
<1>8. CASE Forbidden BY <1>8 DEF Forbidden, Natively
<1>9. CASE Refused BY <1>9 DEF Refused
<1>10. CASE Framed BY <1>10 DEF Framed
<1>11. CASE Unframed BY <1>11 DEF Unframed
<1>12. CASE Enter \/ Hop \/ Send \/ KeepAlive \/ NativeStart \/ NativeDone \/ NativeFails \/ Unpin
  BY <1>12 DEF Enter, Hop, Send, KeepAlive, NativeStart, NativeDone, NativeFails, Unpin
<1>13. QED
  BY <1>1, <1>2, <1>3, <1>4, <1>5, <1>6, <1>7, <1>8, <1>9, <1>10, <1>11, <1>12
     DEF FetchStep

LEMMA MarkIsTyped == ASSUME FetcherInv, FetchStep PROVE kept' \in Marks
<1> USE DEF FetcherInv, FetcherTypeOK, Marks, Fetches, Host, Drop, NotKept, conn
<1>1. CASE HopFails BY <1>1 DEF HopFails
<1>2. CASE Failed BY <1>2 DEF Failed, Natively
<1>3. CASE Redirected
  <2>1. kept' = kept \/ kept' = NotKept BY <1>3 DEF Redirected
  <2>2. NotKept \in Marks OBVIOUS
  <2>3. QED BY <2>1, <2>2
<1>4. CASE Forbidden BY <1>4 DEF Forbidden, Natively
<1>5. CASE Refused BY <1>5 DEF Refused
<1>6. CASE Unframed BY <1>6 DEF Unframed
<1>7. CASE KeepAlive BY <1>7 DEF KeepAlive
<1>8. CASE Enter \/ Hop \/ Choose \/ Connect \/ Send \/ RequestFails \/ Accepted \/ Framed \/
           NativeStart \/ NativeDone \/ NativeFails \/ Unpin
  BY <1>8 DEF Enter, Hop, Choose, Connect, Send, RequestFails, Accepted, Framed, NativeStart,
     NativeDone, NativeFails, Unpin
<1>9. QED
  BY <1>1, <1>2, <1>3, <1>4, <1>5, <1>6, <1>7, <1>8
     DEF FetchStep

LEMMA ClientIsTyped == ASSUME FetcherInv, FetchStep PROVE native' \in Clients
<1> USE DEF FetcherInv, FetcherTypeOK, Clients, Fetches, Host, Carries, conn
<1>1. CASE NativeStart
  <2>1. f.host \in Hosts BY <1>1 DEF NativeStart
  <2>2. CASE native' = native BY <2>2
  <2>3. CASE NativeRequest BY <2>1, <2>3 DEF NativeRequest
  <2>4. QED BY <1>1, <2>2, <2>3 DEF NativeStart
<1>2. CASE NativeDone BY <1>2 DEF NativeDone, Withdraw
<1>3. CASE NativeFails BY <1>3 DEF NativeFails, Withdraw
<1>4. CASE Enter \/ Hop \/ HopFails \/ Choose \/ Connect \/ Send \/ RequestFails \/ Failed \/
           Accepted \/ Redirected \/ Forbidden \/ Refused \/ Framed \/ Unframed \/
           KeepAlive \/ Unpin
  BY <1>4 DEF Enter, Hop, HopFails, Choose, Connect, Send, RequestFails, Failed, Accepted,
     Redirected, Forbidden, Refused, Framed, Unframed, KeepAlive, Unpin
<1>5. QED
  BY <1>1, <1>2, <1>3, <1>4
     DEF FetchStep

LEMMA FetchKeepsTypes == ASSUME FetcherInv, FetchStep PROVE FetcherTypeOK'
<1>1. UNCHANGED <<flag, k>>
  BY DEF FetchStep, Enter, Hop, HopFails, Choose, Connect, Send, RequestFails, Failed,
     Accepted, Redirected, Forbidden, Refused, Framed, Unframed, KeepAlive, NativeStart,
     NativeDone, NativeFails, Unpin, flag
<1>2. QED
  BY <1>1, FetchIsTyped, SocketIsTyped, MarkIsTyped, ClientIsTyped
     DEF FetcherInv, FetcherTypeOK, flag

LEMMA FetchCarries == ASSUME FetcherInv, FetchStep PROVE Carries'
<1> USE DEF FetcherInv, FetcherTypeOK, Carries, KeptIsTrue, Sockets, Marks, Fetches, Before,
            During, Goes, Drop, Closed, NotKept, NoFetch, conn
<1>1. CASE Enter BY <1>1 DEF Enter
<1>2. CASE Hop BY <1>2 DEF Hop
<1>3. CASE HopFails BY <1>3 DEF HopFails
<1>4. CASE Choose BY <1>4 DEF Choose, Reusable
<1>5. CASE Connect
  <2>1. CASE abort BY <1>5, <2>1 DEF Connect
  <2>2. CASE ~abort
    <3>1. PICK d \in Fds : sock' = [Closed EXCEPT !.fd = d, !.host = f.host, !.gen = f.gen0]
      BY <1>5, <2>2 DEF Connect
    <3>2. sock'.host = f.host /\ sock'.gen = f.gen0 /\ sock'.unread = FALSE BY <3>1
    <3>3. f.host \in Hosts BY <1>5 DEF Connect
    <3>4. f' = [f EXCEPT !.at = "send"] BY <1>5, <2>2 DEF Connect
    <3>5. QED BY <3>2, <3>3, <3>4
  <2>3. QED BY <2>1, <2>2
<1>6. CASE Send BY <1>6 DEF Send
<1>7. CASE RequestFails BY <1>7 DEF RequestFails
<1>8. CASE Failed
  <2>1. f' = NoFetch \/ (f.host = f'.host /\ f'.at \in {"connect", "native"})
    BY <1>8, NativelyGoes DEF Failed
  <2>2. f.host \in Hosts BY <1>8 DEF Failed
  <2>3. QED BY <2>1, <2>2
<1>9. CASE Accepted BY <1>9 DEF Accepted
<1>10. CASE Redirected BY <1>10 DEF Redirected
<1>11. CASE Forbidden
  <2>1. f' = NoFetch \/ (f.host = f'.host /\ f'.at \in {"connect", "native"})
    BY <1>11, NativelyGoes DEF Forbidden
  <2>2. f.host \in Hosts BY <1>11 DEF Forbidden
  <2>3. QED BY <2>1, <2>2
<1>12. CASE Refused BY <1>12 DEF Refused
<1>13. CASE Framed BY <1>13 DEF Framed
<1>14. CASE Unframed BY <1>14 DEF Unframed
<1>15. CASE KeepAlive BY <1>15 DEF KeepAlive
<1>16. CASE NativeStart BY <1>16 DEF NativeStart, NativeRequest
<1>17. CASE NativeDone BY <1>17 DEF NativeDone, Withdraw
<1>18. CASE NativeFails BY <1>18 DEF NativeFails, Withdraw
<1>19. CASE Unpin BY <1>19 DEF Unpin
<1>20. QED
  BY <1>1, <1>2, <1>3, <1>4, <1>5, <1>6, <1>7, <1>8, <1>9, <1>10, <1>11, <1>12, <1>13, <1>14,
     <1>15, <1>16, <1>17, <1>18, <1>19
     DEF FetchStep

LEMMA FetchKeepsMark == ASSUME FetcherInv, FetchStep PROVE KeptIsTrue'
<1> USE DEF FetcherInv, FetcherTypeOK, Carries, KeptIsTrue, Sockets, Marks, Fetches, Before,
            During, Goes, Drop, Closed, NotKept, NoFetch, conn
<1>1. CASE Enter BY <1>1 DEF Enter
<1>2. CASE Hop BY <1>2 DEF Hop
<1>3. CASE HopFails BY <1>3 DEF HopFails
<1>4. CASE Choose BY <1>4 DEF Choose, Reusable
<1>5. CASE Connect BY <1>5 DEF Connect
<1>6. CASE Send BY <1>6 DEF Send
<1>7. CASE RequestFails BY <1>7 DEF RequestFails
<1>8. CASE Failed BY <1>8 DEF Failed, Natively
<1>9. CASE Accepted BY <1>9 DEF Accepted
<1>10. CASE Redirected
  <2>1. CASE f'.at = "failed" BY <2>1
  <2>2. CASE f'.at # "failed"
    <3>1. kept' = NotKept BY <1>10, <2>2 DEF Redirected
    <3>2. QED BY <3>1
  <2>3. QED BY <2>1, <2>2
<1>11. CASE Forbidden BY <1>11 DEF Forbidden, Natively
<1>12. CASE Refused BY <1>12 DEF Refused
<1>13. CASE Framed BY <1>13 DEF Framed
<1>14. CASE Unframed BY <1>14 DEF Unframed
<1>15. CASE KeepAlive BY <1>15 DEF KeepAlive
<1>16. CASE NativeStart BY <1>16 DEF NativeStart, NativeRequest
<1>17. CASE NativeDone BY <1>17 DEF NativeDone, Withdraw
<1>18. CASE NativeFails BY <1>18 DEF NativeFails, Withdraw
<1>19. CASE Unpin BY <1>19 DEF Unpin
<1>20. QED
  BY <1>1, <1>2, <1>3, <1>4, <1>5, <1>6, <1>7, <1>8, <1>9, <1>10, <1>11, <1>12, <1>13, <1>14,
     <1>15, <1>16, <1>17, <1>18, <1>19
     DEF FetchStep

LEMMA FetchKeepsCuts == ASSUME FetcherInv, FetchStep PROVE CutIsOld'
<1> USE DEF FetcherInv, FetcherTypeOK, Carries, CutIsOld, KeptIsTrue, Sockets, Marks, Fetches,
            Before, During, Goes, Drop, Closed, flag, conn
<1>1. CASE Enter BY <1>1 DEF Enter
<1>2. CASE Hop BY <1>2 DEF Hop
<1>3. CASE HopFails BY <1>3 DEF HopFails
<1>4. CASE Choose BY <1>4 DEF Choose, Reusable
<1>5. CASE Connect BY <1>5 DEF Connect
<1>6. CASE Send BY <1>6 DEF Send
<1>7. CASE RequestFails BY <1>7 DEF RequestFails
<1>8. CASE Failed BY <1>8 DEF Failed, Natively
<1>9. CASE Accepted BY <1>9 DEF Accepted
<1>10. CASE Redirected BY <1>10 DEF Redirected
<1>11. CASE Forbidden BY <1>11 DEF Forbidden, Natively
<1>12. CASE Refused BY <1>12 DEF Refused
<1>13. CASE Framed BY <1>13 DEF Framed
<1>14. CASE Unframed BY <1>14 DEF Unframed
<1>15. CASE KeepAlive BY <1>15 DEF KeepAlive
<1>16. CASE NativeStart BY <1>16 DEF NativeStart, NativeRequest
<1>17. CASE NativeDone BY <1>17 DEF NativeDone, Withdraw
<1>18. CASE NativeFails BY <1>18 DEF NativeFails, Withdraw
<1>19. CASE Unpin BY <1>19 DEF Unpin
<1>20. QED
  BY <1>1, <1>2, <1>3, <1>4, <1>5, <1>6, <1>7, <1>8, <1>9, <1>10, <1>11, <1>12, <1>13, <1>14,
     <1>15, <1>16, <1>17, <1>18, <1>19
     DEF FetchStep

LEMMA FetchKeepsClient == ASSUME FetcherInv, FetchStep PROVE NativeIsReached'
<1> USE DEF FetcherInv, FetcherTypeOK, Carries, NativeIsReached, Clients, Fetches, Goes,
            NoFetch, flag, conn
<1>1. CASE Enter BY <1>1 DEF Enter
<1>2. CASE Hop BY <1>2 DEF Hop
<1>3. CASE HopFails BY <1>3 DEF HopFails
<1>4. CASE Choose BY <1>4 DEF Choose, Reusable
<1>5. CASE Connect BY <1>5 DEF Connect
<1>6. CASE Send BY <1>6 DEF Send
<1>7. CASE RequestFails BY <1>7 DEF RequestFails
<1>8. CASE Failed BY <1>8 DEF Failed, Natively
<1>9. CASE Accepted BY <1>9 DEF Accepted
<1>10. CASE Redirected BY <1>10 DEF Redirected
<1>11. CASE Forbidden BY <1>11 DEF Forbidden, Natively
<1>12. CASE Refused BY <1>12 DEF Refused
<1>13. CASE Framed BY <1>13 DEF Framed
<1>14. CASE Unframed BY <1>14 DEF Unframed
<1>15. CASE KeepAlive BY <1>15 DEF KeepAlive
<1>16. CASE NativeStart BY <1>16 DEF NativeStart, NativeRequest
<1>17. CASE NativeDone BY <1>17 DEF NativeDone, Withdraw
<1>18. CASE NativeFails BY <1>18 DEF NativeFails, Withdraw
<1>19. CASE Unpin BY <1>19 DEF Unpin
<1>20. QED
  BY <1>1, <1>2, <1>3, <1>4, <1>5, <1>6, <1>7, <1>8, <1>9, <1>10, <1>11, <1>12, <1>13, <1>14,
     <1>15, <1>16, <1>17, <1>18, <1>19
     DEF FetchStep

----------------------------------------------------------------------------
(* Aborts, resumes, a new fetch and the other channels. *)

LEMMA CallIsTyped ==
  ASSUME FetcherInv, NEW a \in Controllers, Abort(a) \/ Resume(a) \/ CallStep(a)
  PROVE  k' \in [Controllers -> Aborts]
<1> USE DEF FetcherInv, FetcherTypeOK, Aborts, Sockets, Calls, Advances, NoCall, flag
<1>1. CASE Abort(a) BY <1>1 DEF Abort
<1>2. CASE Resume(a) BY <1>2 DEF Resume
<1>3. CASE NextGeneration(a)
  <2>1. abortGen + 1 \in Nat OBVIOUS
  <2>2. PICK g \in Nat : g = abortGen + 1 BY <2>1
  <2>3. k' = [k EXCEPT ![a].at = "forget", ![a].gen = g]
    BY <1>3, <2>2 DEF NextGeneration
  <2>4. QED BY <2>3, ZenonT(40)
<1>4. CASE Forget(a) BY <1>4 DEF Forget
<1>5. CASE ReadSocket(a) BY <1>5 DEF ReadSocket
<1>6. CASE SocketAbort(a) BY <1>6 DEF SocketAbort
<1>7. CASE NativeAbort(a) BY <1>7 DEF NativeAbort
<1>8. CASE CheckSuperseded(a) BY <1>8 DEF CheckSuperseded
<1>9. QED BY <1>1, <1>2, <1>3, <1>4, <1>5, <1>6, <1>7, <1>8 DEF CallStep

LEMMA CallKeepsTypes ==
  ASSUME FetcherInv, NEW a \in Controllers, Abort(a) \/ Resume(a) \/ CallStep(a)
  PROVE  FetcherTypeOK'
<1> USE DEF FetcherInv, FetcherTypeOK, Sockets, Marks, Clients, Host, NotKept, conn, flag
<1>1. CASE Abort(a) BY CallIsTyped, <1>1 DEF Abort
<1>2. CASE Resume(a) BY CallIsTyped, <1>2, ZenonT(40) DEF Resume
<1>3. CASE NextGeneration(a) BY CallIsTyped, <1>3 DEF NextGeneration
<1>4. CASE Forget(a) BY CallIsTyped, <1>4 DEF Forget
<1>5. CASE ReadSocket(a) BY CallIsTyped, <1>5 DEF ReadSocket
<1>6. CASE SocketAbort(a) BY CallIsTyped, <1>6 DEF SocketAbort
<1>7. CASE NativeAbort(a)
  <2>1. native' \in Clients BY <1>7 DEF NativeAbort
  <2>2. QED BY CallIsTyped, <1>7, <2>1 DEF NativeAbort
<1>8. CASE CheckSuperseded(a)
  <2>1. abort' \in BOOLEAN BY <1>8 DEF CheckSuperseded
  <2>2. QED BY CallIsTyped, <1>8, <2>1 DEF CheckSuperseded
<1>9. QED BY CallIsTyped, <1>1, <1>2, <1>3, <1>4, <1>5, <1>6, <1>7, <1>8 DEF CallStep

LEMMA CallKeepsConnection ==
  ASSUME FetcherInv, NEW a \in Controllers, Abort(a) \/ Resume(a) \/ CallStep(a)
  PROVE  Carries' /\ KeptIsTrue'
<1> USE DEF FetcherInv, FetcherTypeOK, Carries, KeptIsTrue, Sockets, NotKept, conn
<1>1. CASE Abort(a) BY <1>1 DEF Abort
<1>2. CASE Resume(a) BY <1>2 DEF Resume
<1>3. CASE NextGeneration(a) BY <1>3 DEF NextGeneration
<1>4. CASE Forget(a) BY <1>4 DEF Forget
<1>5. CASE ReadSocket(a) BY <1>5 DEF ReadSocket
<1>6. CASE SocketAbort(a) BY <1>6 DEF SocketAbort
<1>7. CASE NativeAbort(a) BY <1>7 DEF NativeAbort
<1>8. CASE CheckSuperseded(a) BY <1>8 DEF CheckSuperseded
<1>9. QED BY <1>1, <1>2, <1>3, <1>4, <1>5, <1>6, <1>7, <1>8 DEF CallStep

LEMMA CallKeepsCuts ==
  ASSUME FetcherInv, NEW a \in Controllers, Abort(a) \/ Resume(a) \/ CallStep(a)
  PROVE  CutIsOld'
<1> USE DEF FetcherInv, FetcherTypeOK, CutIsOld, Aborts, Sockets, Calls, Advances, NoCall, conn,
            flag
<1>1. CASE Abort(a) BY <1>1 DEF Abort
<1>2. CASE Resume(a) BY <1>2 DEF Resume
<1>3. CASE NextGeneration(a) BY <1>3 DEF NextGeneration
<1>4. CASE Forget(a) BY <1>4 DEF Forget
<1>5. CASE ReadSocket(a) BY <1>5 DEF ReadSocket
<1>6. CASE SocketAbort(a) BY <1>6 DEF SocketAbort
<1>7. CASE NativeAbort(a) BY <1>7 DEF NativeAbort
<1>8. CASE CheckSuperseded(a) BY <1>8 DEF CheckSuperseded
<1>9. QED BY <1>1, <1>2, <1>3, <1>4, <1>5, <1>6, <1>7, <1>8 DEF CallStep

LEMMA CallKeepsClient ==
  ASSUME FetcherInv, NEW a \in Controllers, Abort(a) \/ Resume(a) \/ CallStep(a)
  PROVE  NativeIsReached'
<1> USE DEF FetcherInv, FetcherTypeOK, NativeIsReached, Aborts, Clients, Calls, Advances,
            NoCall, conn, flag
<1>1. CASE Abort(a) BY <1>1 DEF Abort
<1>2. CASE Resume(a) BY <1>2 DEF Resume
<1>3. CASE NextGeneration(a) BY <1>3 DEF NextGeneration
<1>4. CASE Forget(a) BY <1>4 DEF Forget
<1>5. CASE ReadSocket(a) BY <1>5 DEF ReadSocket
<1>6. CASE SocketAbort(a) BY <1>6 DEF SocketAbort
<1>7. CASE NativeAbort(a) BY <1>7 DEF NativeAbort
<1>8. CASE CheckSuperseded(a) BY <1>8 DEF CheckSuperseded
<1>9. QED BY <1>1, <1>2, <1>3, <1>4, <1>5, <1>6, <1>7, <1>8 DEF CallStep

LEMMA CallsKeep ==
  ASSUME FetcherInv, NEW a \in Controllers, Abort(a) \/ Resume(a) \/ CallStep(a)
  PROVE  FetcherInv'
BY CallKeepsTypes, CallKeepsConnection, CallKeepsCuts, CallKeepsClient DEF FetcherInv

LEMMA BeginKeeps == ASSUME FetcherInv, Begin PROVE FetcherInv'
<1> USE DEF FetcherInv, Begin, flag, conn
<1>1. PICK h \in Hosts : f' = [NoFetch EXCEPT !.at = "flag", !.host = h, !.gen0 = abortGen]
  OBVIOUS
<1>2. f' = [at |-> "flag", host |-> h, gen0 |-> abortGen, hops |-> 0, reuse |-> FALSE, why |-> "no"]
  BY <1>1 DEF NoFetch
<1>3. FetcherTypeOK' BY <1>2 DEF FetcherTypeOK, Fetches, Before, Host
<1>4. Carries' /\ KeptIsTrue' BY <1>2 DEF Carries, KeptIsTrue, Before, During
<1>5. CutIsOld' /\ NativeIsReached' BY <1>2 DEF CutIsOld, NativeIsReached
<1>6. QED BY <1>3, <1>4, <1>5

LEMMA FetcherElsewhereKeeps == ASSUME FetcherInv, Elsewhere PROVE FetcherInv'
BY DEF FetcherInv, FetcherTypeOK, Carries, KeptIsTrue, CutIsOld, NativeIsReached, Elsewhere, flag, conn

LEMMA FetcherStutters == ASSUME FetcherInv, UNCHANGED fetcherVars PROVE FetcherInv'
BY DEF FetcherInv, FetcherTypeOK, Carries, KeptIsTrue, CutIsOld, NativeIsReached, fetcherVars

LEMMA FetcherKeeps == ASSUME FetcherInv, [FetcherNext]_fetcherVars PROVE FetcherInv'
<1>1. CASE Begin \/ Elsewhere BY <1>1, BeginKeeps, FetcherElsewhereKeeps
<1>2. CASE FetchStep
  BY <1>2, FetchKeepsTypes, FetchCarries, FetchKeepsMark, FetchKeepsCuts, FetchKeepsClient
     DEF FetcherInv
<1>3. CASE \E a \in Controllers : Abort(a) \/ Resume(a) \/ CallStep(a) BY <1>3, CallsKeep
<1>4. CASE UNCHANGED fetcherVars BY <1>4, FetcherStutters
<1>5. QED BY <1>1, <1>2, <1>3, <1>4 DEF FetcherNext

\* All of the invariant, for every instance.
THEOREM FetcherInvariant == FetcherSpec => []FetcherInv
<1>1. FetcherInit => FetcherInv BY FetcherInitially
<1>2. FetcherInv /\ [FetcherNext]_fetcherVars => FetcherInv' BY FetcherKeeps
<1>3. QED BY <1>1, <1>2, PTL DEF FetcherSpec

----------------------------------------------------------------------------
\* A request never meets the rest of another answer.
THEOREM RequestsAreClean == FetcherSpec => []BodyIsOwn
<1>1. FetcherInv => BodyIsOwn
  BY FetcherAssumption DEF FetcherInv, Carries, BodyIsOwn, During, Closed
<1>2. QED BY <1>1, FetcherInvariant, PTL

\* A connection that an abort has hit is never taken for a later fetch.
THEOREM AbortedIsDropped == FetcherSpec => AbortedNeverReused
<1> DEFINE Taken == f.at = "choose" /\ f'.at = "send" => sock.cut # "meant"
<1>1. ASSUME FetcherInv, [FetcherNext]_fetcherVars PROVE [Taken]_fetcherVars
  <2> SUFFICES ASSUME f.at = "choose", f'.at = "send" PROVE sock.cut # "meant"
    OBVIOUS
  <2>1. CASE Choose
    BY <1>1, <2>1
       DEF Choose, Reusable, FetcherInv, FetcherTypeOK, Fetches, Sockets, KeptIsTrue, CutIsOld, Before
  <2>2. CASE FetchStep /\ ~Choose
    BY <2>2
       DEF FetchStep, Enter, Hop, HopFails, Connect, Send, RequestFails, Failed, Accepted,
           Redirected, Forbidden, Refused, Framed, Unframed, KeepAlive, NativeStart, NativeDone,
           NativeFails, Unpin
  <2>3. CASE UNCHANGED f
    BY <2>3
  <2>4. CASE Begin
    BY <2>4 DEF Begin
  <2>5. CASE Elsewhere \/ (\E a \in Controllers : Abort(a) \/ Resume(a) \/ CallStep(a))
    BY <2>3, <2>5
       DEF Elsewhere, Abort, Resume, CallStep, NextGeneration, Forget, ReadSocket, SocketAbort,
           NativeAbort, CheckSuperseded
  <2>6. QED BY <1>1, <2>1, <2>2, <2>3, <2>4, <2>5 DEF FetcherNext, fetcherVars
<1>2. QED BY <1>1, FetcherInvariant, PTL DEF FetcherSpec, AbortedNeverReused

\* A request of the console's client never outlives an abort uncut.
THEOREM AbortsReachClient == FetcherSpec => []AbortReachesNative
<1>1. FetcherInv => AbortReachesNative
  BY DEF FetcherInv, FetcherTypeOK, NativeIsReached, AbortReachesNative, Calls
<1>2. QED BY <1>1, FetcherInvariant, PTL

-----------------------------------------------------------------------------
\* The screen.

\* Only the fields that the flips and the pool depend on are typed; a frame and a player
\* carry more of them.
FrameStages == {"top", "commit", "paint", "bands", "over", "flip", "wait"}
OutTypes ==
  [active : Surfaces, shown : 0 .. 3, scan : 0 .. 3, flips : Seq(0 .. 3),
   age : [Surfaces -> 0 .. 3], presents : 0 .. 3]
PoolTypes ==
  [up : BOOLEAN, to : 0 .. 3, fresh : SUBSET Painters, busy : SUBSET Painters, done : Nat]
FieldsInv ==
  /\ out \in OutTypes /\ pool \in PoolTypes
  /\ {"at", "drawn", "hw", "flip"} \subseteq DOMAIN frame
  /\ frame.at \in FrameStages /\ frame.hw \in BOOLEAN /\ frame.flip \in 0 .. 3
  /\ "at" \in DOMAIN player /\ player.at \in {"idle", "queued", "down"}

\* A flip is as old as there are flips after it: a surface younger than the flips not
\* shown yet is not scanned and does not wait.
AgeInv ==
  /\ \A pos \in 1 .. Len(out.flips) :
       out.flips[pos] \in Surfaces => out.age[out.flips[pos]] + pos <= Len(out.flips)
  /\ out.scan \in Surfaces => out.age[out.scan] <= Len(out.flips)

\* The target is free while it is drawn into, and afterwards unless it is the one flipped.
TargetInv ==
  frame.at # "wait" \/ frame.flip # out.active => out.active \notin InUse

\* The first frames take one surface after the other.
StartInv ==
  out.presents < 3 =>
    /\ \A j \in Surfaces : j > out.active => j \notin InUse
    /\ out.active <= out.presents /\ (frame.at = "wait" => out.active < out.presents)
    /\ out.shown \in Surfaces => out.shown <= out.active
    /\ frame.at \in {"flip", "wait"} /\ frame.flip \in Surfaces => frame.flip <= out.active

\* A picture is converted by the pool only while nothing opens, and its painters are
\* all counted before the frame goes on.
PoolInv ==
  /\ frame.hw => player.at = "idle" /\ frame.at \in {"commit", "paint", "bands", "over", "flip"}
  /\ frame.at = "bands" => frame.hw /\ pool.to = out.active
  /\ frame.at # "bands" => pool.fresh = {} /\ pool.busy = {}
  /\ frame.at = "bands" =>
       /\ pool.fresh \cap pool.busy = {}
       /\ pool.done + Cardinality(pool.fresh) + Cardinality(pool.busy) = Cardinality(Painters)

FlipInv == AgeInv /\ TargetInv /\ StartInv
ScreenInv == FieldsInv /\ FlipInv /\ PoolInv

-----------------------------------------------------------------------------
USE DEF ScreenInv, FlipInv

\* The painters can be counted.
LEMMA PainterFacts ==
  /\ IsFiniteSet(Painters) /\ Cardinality(Painters) \in Nat
  /\ \A S \in SUBSET Painters : IsFiniteSet(S) /\ Cardinality(S) \in Nat
  /\ \A S \in SUBSET Painters : Cardinality(S) = 0 => S = {}
  /\ Cardinality({}) = 0
BY ScreenAssumption, FS_Subset, FS_CardinalityType, FS_EmptySet

\* What does not touch the flips keeps what is said of them, if it composes or draws.
LEMMA Drawing ==
  ASSUME ScreenInv, out' = out,
         frame.at # "wait", frame'.at # "wait", frame'.at # "flip" \/ frame'.flip \in {out.active, out.shown}
  PROVE  FlipInv'
<1>1. AgeInv'
  BY DEF AgeInv
<1>2. TargetInv'
  BY DEF TargetInv, InUse
<1>3. StartInv'
  <2>1. out.active \in Int /\ InUse' = InUse
    BY DEF FieldsInv, OutTypes, Surfaces, InUse
  <2> QED BY <2>1 DEF StartInv
<1> QED BY <1>1, <1>2, <1>3

\* The decode thread and the opener worker.
LEMMA ElsewhereKeeps ==
  ASSUME ScreenInv, Decode \/ SizeChanges \/ TearDown \/ SetUp
  PROVE  ScreenInv'
<1>1. UNCHANGED <<out, frame>>
  BY DEF Decode, SizeChanges, TearDown, SetUp, surfaces
<1>2. FlipInv'
  BY <1>1 DEF AgeInv, TargetInv, StartInv, InUse
<1>3. FieldsInv'
  <2>1. pool' \in PoolTypes
    <3>1. \A up \in BOOLEAN : IdlePool(up) \in PoolTypes
      BY DEF IdlePool, PoolTypes, Nowhere
    <3>2. pool' = pool \/ \E up \in BOOLEAN : pool' = IdlePool(up)
      BY DEF Decode, SizeChanges, TearDown, SetUp
    <3> QED BY <3>1, <3>2 DEF FieldsInv
  <2>2. "at" \in DOMAIN player' /\ player'.at \in {"idle", "queued", "down"}
    BY DEF FieldsInv, Decode, SizeChanges, TearDown, SetUp
  <2> QED BY <1>1, <2>1, <2>2 DEF FieldsInv
<1>4. PoolInv'
  <2>1. CASE Decode \/ SizeChanges
    BY <1>1, <2>1 DEF Decode, SizeChanges, PoolInv, FieldsInv
  <2>2. CASE TearDown \/ SetUp
    <3>1. ~frame.hw /\ frame.at # "bands"
      BY <2>2 DEF TearDown, SetUp, PoolInv
    <3>2. PICK up \in BOOLEAN : pool' = IdlePool(up)
      BY <2>2 DEF TearDown, SetUp
    <3>3. pool'.fresh = {} /\ pool'.busy = {}
      BY <3>2 DEF IdlePool
    <3> QED BY <1>1, <3>1, <3>3 DEF PoolInv
  <2> QED BY <2>1, <2>2
<1> QED BY <1>2, <1>3, <1>4

\* Main composes a frame: from the top to the commit.
LEMMA ComposingKeeps ==
  ASSUME ScreenInv, Composing
  PROVE  ScreenInv'
<1>1. frame.at = "top" /\ UNCHANGED <<out, pool>>
  BY DEF Composing, Open, DrawScreen, DrawNothing, DrawPanelOnly, ShowHw, ShowSw, Hold,
     CanRender, Rendering, surfaces
<1>2. CASE Open
  <2>1. ~frame.hw /\ frame' = frame
    BY <1>1, <1>2 DEF Open, PoolInv
  <2>2. FlipInv'
    BY <1>1, <2>1, Drawing
  <2>3. FieldsInv' /\ PoolInv'
    BY <1>1, <1>2, <2>1 DEF Open, FieldsInv, PoolInv
  <2> QED BY <2>2, <2>3
<1>3. CASE ~Open
  <2>1. /\ "at" \in DOMAIN player' /\ player'.at = player.at
        /\ DOMAIN frame' = DOMAIN frame /\ frame'.at = "commit" /\ frame'.flip = frame.flip
        /\ frame'.hw \in BOOLEAN /\ (frame'.hw => player.at = "idle")
    <3>1. CASE DrawScreen \/ DrawNothing \/ DrawPanelOnly
      BY <1>1, <3>1 DEF DrawScreen, DrawNothing, DrawPanelOnly, Composed, FieldsInv, PoolInv
    <3>2. CASE ShowHw \/ ShowSw \/ Hold
      BY <1>1, <3>2 DEF ShowHw, ShowSw, Hold, Overlaid, CanRender, FieldsInv
    <3> QED BY <1>3, <3>1, <3>2 DEF Composing
  <2>2. FlipInv'
    BY <1>1, <2>1, Drawing
  <2>3. FieldsInv' /\ PoolInv'
    BY <1>1, <2>1 DEF FieldsInv, FrameStages, PoolInv
  <2> QED BY <2>2, <2>3
<1> QED BY <1>2, <1>3

\* The commit decides which surface to show, and draws into the target if it must.
LEMMA CommittingKeeps ==
  ASSUME ScreenInv, ReshowUntouched \/ Reuse \/ Run \/ Overlay
  PROVE  ScreenInv'
<1>1. /\ frame.at \in {"commit", "over"} /\ UNCHANGED <<out, pool, player>>
      /\ DOMAIN frame' = DOMAIN frame /\ frame'.hw = frame.hw
      /\ \/ frame'.at = "flip" /\ frame'.flip \in {out.active, out.shown}
         \/ frame'.at \in {"paint", "over"} /\ frame'.flip = frame.flip
  BY DEF ReshowUntouched, Reuse, Run, Overlay, Flips, CommitKeeps, FieldsInv, surfaces
<1>2. FlipInv'
  BY <1>1, Drawing
<1>3. FieldsInv'
  BY <1>1 DEF FieldsInv, FrameStages, OutTypes, Surfaces
<1>4. PoolInv'
  BY <1>1 DEF PoolInv
<1> QED BY <1>2, <1>3, <1>4

LEMMA PaintKeeps ==
  ASSUME ScreenInv, Paint
  PROVE  ScreenInv'
<1>1. /\ frame.at = "paint" /\ UNCHANGED <<out, player>>
      /\ DOMAIN frame' = DOMAIN frame /\ frame'.hw = frame.hw /\ frame'.flip = frame.flip
  BY DEF Paint, FieldsInv
<1>2. CASE frame.hw /\ pool.up
  <2>1. /\ frame'.at = "bands"
        /\ pool' = [pool EXCEPT !.to = out.active, !.fresh = Painters, !.done = 0]
    BY <1>2 DEF Paint, FieldsInv
  <2>2. FlipInv'
    BY <1>1, <2>1, Drawing
  <2>3. /\ pool' \in PoolTypes /\ pool'.to = out.active /\ pool'.fresh = Painters
        /\ pool'.busy = {} /\ pool'.done = 0
    <3>1. pool \in PoolTypes /\ pool.busy = {} /\ out.active \in 0 .. 3 /\ Painters \in SUBSET Painters
      BY <1>1 DEF FieldsInv, PoolInv, OutTypes, Surfaces
    <3> QED BY <2>1, <3>1 DEF PoolTypes
  <2>4. FieldsInv'
    BY <1>1, <2>1, <2>3 DEF FieldsInv, FrameStages
  <2>5. PoolInv'
    <3>1. Cardinality(Painters) \in Nat /\ Cardinality({}) = 0
      BY PainterFacts
    <3>2. player.at = "idle" /\ frame'.hw
      BY <1>1, <1>2 DEF PoolInv
    <3>3. pool'.fresh \cap pool'.busy = {}
      BY <2>3
    <3>4. pool'.done + Cardinality(pool'.fresh) + Cardinality(pool'.busy) = Cardinality(Painters)
      BY <2>3, <3>1
    <3> QED BY <1>1, <2>1, <2>3, <3>2, <3>3, <3>4 DEF PoolInv
  <2> QED BY <2>2, <2>4, <2>5
<1>3. CASE ~(frame.hw /\ pool.up)
  <2>1. frame'.at = "over" /\ pool' = pool
    BY <1>3 DEF Paint, FieldsInv
  <2>2. FlipInv'
    BY <1>1, <2>1, Drawing
  <2>3. FieldsInv' /\ PoolInv'
    BY <1>1, <2>1 DEF FieldsInv, FrameStages, PoolInv
  <2> QED BY <2>2, <2>3
<1> QED BY <1>2, <1>3

\* The painters: each takes the job once, paints its band, and is counted.
LEMMA PaintersKeep ==
  ASSUME ScreenInv, NEW w \in Painters, TakeJob(w) \/ Band(w)
  PROVE  ScreenInv'
<1>1. UNCHANGED <<out, frame, player>>
  BY DEF TakeJob, Band, PoolKeeps
<1>2. FlipInv'
  BY <1>1 DEF AgeInv, TargetInv, StartInv, InUse
<1>3. frame.at = "bands" /\ frame.hw /\ pool.to = out.active /\ pool \in PoolTypes
  BY DEF TakeJob, Band, PoolInv, FieldsInv
<1>4. CASE TakeJob(w)
  <2>1. /\ w \in pool.fresh /\ w \notin pool.busy
        /\ pool' = [pool EXCEPT !.fresh = @ \ {w}, !.busy = @ \cup {w}]
    BY <1>4 DEF TakeJob
  <2>2. /\ pool' \in PoolTypes /\ pool'.to = pool.to /\ pool'.done = pool.done
        /\ pool'.fresh = pool.fresh \ {w} /\ pool'.busy = pool.busy \cup {w}
    BY <1>3, <2>1 DEF PoolTypes
  <2>3. /\ Cardinality(pool'.fresh) = Cardinality(pool.fresh) - 1
        /\ Cardinality(pool'.busy) = Cardinality(pool.busy) + 1
        /\ Cardinality(pool.fresh) \in Nat /\ Cardinality(pool.busy) \in Nat
    <3>1. pool.fresh \in SUBSET Painters /\ pool.busy \in SUBSET Painters
      BY <1>3 DEF PoolTypes
    <3>2. IsFiniteSet(pool.fresh) /\ IsFiniteSet(pool.busy)
      BY <3>1, PainterFacts
    <3>3. Cardinality(pool.fresh) \in Nat /\ Cardinality(pool.busy) \in Nat
      BY <3>1, PainterFacts
    <3>4. Cardinality(pool.fresh \ {w}) = Cardinality(pool.fresh) - 1
      BY <2>1, <3>2, FS_RemoveElement
    <3>5. Cardinality(pool.busy \cup {w}) = Cardinality(pool.busy) + 1
      BY <2>1, <3>2, FS_AddElement
    <3> QED BY <2>2, <3>3, <3>4, <3>5
  <2>4. PoolInv'
    BY <1>1, <1>3, <2>2, <2>3, PainterFacts DEF PoolInv, PoolTypes
  <2> QED BY <1>1, <1>2, <2>2, <2>4 DEF FieldsInv
<1>5. CASE Band(w)
  <2>1. w \in pool.busy /\ pool' = [pool EXCEPT !.busy = @ \ {w}, !.done = @ + 1]
    BY <1>5 DEF Band
  <2>2. /\ pool' \in PoolTypes /\ pool'.to = pool.to /\ pool'.done = pool.done + 1
        /\ pool'.fresh = pool.fresh /\ pool'.busy = pool.busy \ {w}
    <3>1. pool.done + 1 \in Nat
      BY <1>3 DEF PoolTypes
    <3> QED BY <1>3, <2>1, <3>1 DEF PoolTypes
  <2>3. /\ Cardinality(pool'.busy) = Cardinality(pool.busy) - 1
        /\ Cardinality(pool.fresh) \in Nat /\ Cardinality(pool.busy) \in Nat
    <3>1. pool.fresh \in SUBSET Painters /\ pool.busy \in SUBSET Painters
      BY <1>3 DEF PoolTypes
    <3>2. IsFiniteSet(pool.busy)
      BY <3>1, PainterFacts
    <3>3. Cardinality(pool.fresh) \in Nat /\ Cardinality(pool.busy) \in Nat
      BY <3>1, PainterFacts
    <3>4. Cardinality(pool.busy \ {w}) = Cardinality(pool.busy) - 1
      BY <2>1, <3>2, FS_RemoveElement
    <3> QED BY <2>2, <3>3, <3>4
  <2>4. PoolInv'
    BY <1>1, <1>3, <2>2, <2>3, PainterFacts DEF PoolInv, PoolTypes
  <2> QED BY <1>1, <1>2, <2>2, <2>4 DEF FieldsInv
<1> QED BY <1>4, <1>5

\* When all are counted, nobody has yet to begin or to end.
LEMMA AllBandsKeeps ==
  ASSUME ScreenInv, AllBands
  PROVE  ScreenInv'
<1>1. /\ frame.at = "bands" /\ AllDone /\ UNCHANGED <<out, pool, player>>
      /\ DOMAIN frame' = DOMAIN frame /\ frame'.at = "over" /\ frame'.hw = frame.hw
      /\ frame'.flip = frame.flip
  BY DEF AllBands, FieldsInv, surfaces
<1>2. Cardinality(pool.fresh) \in Nat /\ Cardinality(pool.busy) \in Nat /\ pool \in PoolTypes
  BY PainterFacts DEF FieldsInv, PoolTypes
<1>3. Cardinality(pool.fresh) = 0 /\ Cardinality(pool.busy) = 0
  BY <1>1, <1>2, PainterFacts DEF PoolInv, AllDone, PoolTypes
<1>4. pool.fresh = {} /\ pool.busy = {}
  BY <1>2, <1>3, PainterFacts DEF PoolTypes
<1>5. FlipInv'
  BY <1>1, Drawing
<1>6. FieldsInv' /\ PoolInv'
  BY <1>1, <1>4 DEF FieldsInv, FrameStages, PoolInv
<1> QED BY <1>5, <1>6

-----------------------------------------------------------------------------
(* The flips.                                                                *)

LEMMA SubmitKeeps ==
  ASSUME ScreenInv, Submit
  PROVE  ScreenInv'
<1> DEFINE n == Len(out.flips)
           i == frame.flip
           age == [s \in Surfaces |-> IF s = i THEN 0 ELSE Aged(out.age[s])]
<1>1. /\ frame.at = "flip" /\ UNCHANGED <<pool, player>>
      /\ frame' = [NoFrame EXCEPT !.at = "wait", !.flip = i]
      /\ out' = [out EXCEPT !.flips = Append(@, i), !.shown = i, !.presents = Aged(@),
                            !.age = age]
  BY DEF Submit
<1>2. /\ DOMAIN frame' = DOMAIN NoFrame /\ frame'.at = "wait" /\ frame'.flip = i
      /\ frame'.hw = FALSE
  BY <1>1 DEF NoFrame
<1>3. out \in OutTypes /\ i \in 0 .. 3 /\ age \in [Surfaces -> 0 .. 3]
  BY DEF FieldsInv, OutTypes, Aged
<1>4. /\ out' \in OutTypes /\ out'.active = out.active /\ out'.scan = out.scan
      /\ out'.flips = Append(out.flips, i) /\ out'.shown = i /\ out'.age = age
      /\ out'.presents = Aged(out.presents)
  <2>1. Append(out.flips, i) \in Seq(0 .. 3) /\ Aged(out.presents) \in 0 .. 3
    BY <1>3 DEF OutTypes, Aged
  <2> HIDE DEF i, age
  <2> QED BY <1>1, <1>3, <2>1 DEF OutTypes
<1>5. /\ n \in Nat /\ Len(out'.flips) = n + 1 /\ out'.flips[n + 1] = i
      /\ \A pos \in 1 .. n : out'.flips[pos] = out.flips[pos]
      /\ \A pos \in 1 .. n : out.flips[pos] \in 0 .. 3
  BY <1>3, <1>4 DEF OutTypes
<1>6. FieldsInv'
  BY <1>1, <1>2, <1>3, <1>4 DEF FieldsInv, FrameStages, NoFrame
<1>7. \A s \in Surfaces : /\ out.age[s] \in 0 .. 3 /\ age[s] \in 0 .. 3
                         /\ age[s] <= out.age[s] + 1 /\ (s = i => age[s] = 0)
  BY <1>3 DEF OutTypes, Aged
<1>8. AgeInv'
  <2>1. ASSUME NEW pos \in 1 .. n + 1, out'.flips[pos] \in Surfaces
        PROVE  age[out'.flips[pos]] + pos <= n + 1
    <3> HIDE DEF age
    <3>1. CASE pos = n + 1
      <4>1. age[i] = 0 /\ out'.flips[pos] = i
        BY <1>5, <1>7, <2>1, <3>1
      <4> QED BY <1>5, <3>1, <4>1
    <3>2. CASE pos # n + 1
      <4>1. pos \in 1 .. n /\ out'.flips[pos] = out.flips[pos]
        BY <1>5, <3>2
      <4>2. out.flips[pos] \in Surfaces
        BY <2>1, <4>1
      <4>3. \A j \in 1 .. n : out.flips[j] \in Surfaces => out.age[out.flips[j]] + j <= n
        BY DEF AgeInv
      <4>4. out.age[out.flips[pos]] + pos <= n
        BY <4>1, <4>2, <4>3
      <4>5. /\ out.age[out.flips[pos]] \in Int /\ age[out.flips[pos]] \in Int
            /\ age[out.flips[pos]] <= out.age[out.flips[pos]] + 1
        BY <1>7, <4>2
      <4>6. age[out'.flips[pos]] = age[out.flips[pos]]
        BY <4>1
      <4> QED BY <1>5, <4>1, <4>4, <4>5, <4>6
    <3> QED BY <3>1, <3>2
  <2>2. ASSUME out.scan \in Surfaces
        PROVE  age[out.scan] <= n + 1
    <3>1. out.age[out.scan] <= n
      BY <2>2 DEF AgeInv
    <3>2. /\ out.age[out.scan] \in Int /\ age[out.scan] \in Int
          /\ age[out.scan] <= out.age[out.scan] + 1
      BY <1>7, <2>2
    <3> QED BY <1>5, <3>1, <3>2
  <2> QED BY <1>4, <1>5, <2>1, <2>2 DEF AgeInv
<1>9. InUse' = InUse \cup {i}
  BY <1>4, <1>5 DEF InUse
<1>10. TargetInv'
  BY <1>1, <1>2, <1>4, <1>9 DEF TargetInv
<1>11. StartInv'
  <2>1. out.presents \in 0 .. 3 /\ out.active \in Surfaces
    BY <1>3 DEF OutTypes
  <2>2. ASSUME out'.presents < 3
        PROVE  out.presents < 3 /\ out'.presents = out.presents + 1
    BY <1>4, <2>1, <2>2 DEF Aged
  <2>3. \A j \in Surfaces : j \in Int
    BY DEF Surfaces
  <2> QED BY <1>1, <1>2, <1>4, <1>9, <2>1, <2>2, <2>3 DEF StartInv
<1>12. PoolInv'
  BY <1>1, <1>2 DEF PoolInv
<1> QED BY <1>6, <1>8, <1>10, <1>11, <1>12

\* A surface is given to main when a flip newer than its own is shown.
LEMMA RetargetKeeps ==
  ASSUME ScreenInv, Retarget
  PROVE  ScreenInv'
<1> DEFINE t == TargetNext
           n == Len(out.flips)
<1>1. /\ frame.at = "wait" /\ (out.presents = 3 => NewerFlipShown(t))
      /\ out' = [out EXCEPT !.active = t] /\ frame' = NoFrame /\ UNCHANGED <<pool, player>>
  BY DEF Retarget
<1>2. out \in OutTypes /\ t \in Surfaces /\ out.active \in Surfaces /\ out.presents \in 0 .. 3
  BY DEF FieldsInv, OutTypes, TargetNext, Next3, Surfaces
<1>3. /\ out' \in OutTypes /\ out'.active = t
      /\ UNCHANGED <<out.flips, out.scan, out.age, out.shown, out.presents>>
  BY <1>1, <1>2 DEF OutTypes
<1>4. frame'.at = "top" /\ frame'.hw = FALSE /\ DOMAIN frame' = DOMAIN NoFrame
      /\ frame'.flip = Nowhere
  BY <1>1 DEF NoFrame
<1>5. FieldsInv'
  BY <1>1, <1>3, <1>4 DEF FieldsInv, FrameStages, NoFrame, Nowhere
<1>6. AgeInv'
  BY <1>3 DEF AgeInv
<1>7. InUse' = InUse
  BY <1>3 DEF InUse
<1>8. out.presents < 3 => \/ t = out.active /\ frame.flip # out.active
                          \/ t = out.active + 1
  BY <1>1, <1>2 DEF StartInv, TargetNext, Next3, Surfaces
<1>9. t \notin InUse
  <2>1. CASE out.presents = 3
    <3>1. n < out.age[t] /\ n \in Nat /\ out.age[t] \in Nat
      BY <1>1, <1>2, <2>1 DEF NewerFlipShown, OutTypes
    <3>2. out.scan # t
      BY <1>2, <3>1 DEF AgeInv
    <3>3. \A pos \in 1 .. n : out.flips[pos] # t
      BY <1>2, <3>1 DEF AgeInv
    <3> QED BY <3>2, <3>3 DEF InUse
  <2>2. CASE out.presents < 3
    BY <1>1, <1>2, <1>8, <2>2 DEF TargetInv, StartInv, Surfaces
  <2> QED BY <1>2, <2>1, <2>2
<1>10. TargetInv'
  BY <1>3, <1>7, <1>9 DEF TargetInv
<1>11. StartInv'
  BY <1>1, <1>2, <1>3, <1>4, <1>7, <1>8 DEF StartInv, Surfaces
<1>12. PoolInv'
  BY <1>1, <1>4 DEF PoolInv
<1> QED BY <1>5, <1>6, <1>10, <1>11, <1>12

\* The video output goes on to the next flip.
LEMMA VsyncKeeps ==
  ASSUME ScreenInv, Vsync
  PROVE  ScreenInv'
<1> DEFINE n == Len(out.flips)
<1>1. /\ out.flips # <<>> /\ UNCHANGED <<frame, pool, player>>
      /\ out' = [out EXCEPT !.scan = Head(out.flips), !.flips = Tail(@)]
  BY DEF Vsync
<1>2. out \in OutTypes /\ out.flips \in Seq(0 .. 3) /\ n \in Nat /\ n > 0
  BY <1>1 DEF FieldsInv, OutTypes
<1>3. /\ out' \in OutTypes /\ out'.scan = out.flips[1] /\ Len(out'.flips) = n - 1
      /\ \A pos \in 1 .. n - 1 : out'.flips[pos] = out.flips[pos + 1]
      /\ UNCHANGED <<out.active, out.age, out.shown, out.presents>>
  <2> DEFINE q == Tail(out.flips)
  <2>1. out.flips[1] \in 0 .. 3 /\ Head(out.flips) = out.flips[1] /\ q \in Seq(0 .. 3)
    BY <1>2
  <2>2. Len(q) = n - 1 /\ \A pos \in 1 .. n - 1 : q[pos] = out.flips[pos + 1]
    BY <1>2
  <2> HIDE DEF q
  <2>3. /\ out' \in OutTypes /\ out'.scan = out.flips[1] /\ out'.flips = q
        /\ UNCHANGED <<out.active, out.age, out.shown, out.presents>>
    <3>1. out' = [out EXCEPT !.scan = out.flips[1], !.flips = q]
      BY <1>1, <2>1 DEF q
    <3> QED BY <1>2, <2>1, <3>1 DEF OutTypes
  <2> QED BY <2>2, <2>3
<1>4. \A s \in Surfaces : out.age[s] \in 0 .. 3
  BY <1>2 DEF OutTypes
<1>5. AgeInv'
  <2>1. ASSUME NEW pos \in 1 .. n - 1, out'.flips[pos] \in Surfaces
        PROVE  out'.age[out'.flips[pos]] + pos <= n - 1
    <3>1. PICK j \in 1 .. n : j = pos + 1 /\ out'.flips[pos] = out.flips[j]
      BY <1>2, <1>3
    <3>2. out.flips[j] \in Surfaces
      BY <2>1, <3>1
    <3>3. out.age[out.flips[j]] + j <= n
      BY <3>2 DEF AgeInv
    <3>4. out'.age[out'.flips[pos]] = out.age[out.flips[j]]
      BY <1>3, <3>1
    <3>5. out.age[out.flips[j]] \in Int
      BY <1>4, <3>2
    <3> QED BY <1>2, <3>1, <3>3, <3>4, <3>5
  <2>2. ASSUME out'.scan \in Surfaces
        PROVE  out'.age[out'.scan] <= n - 1
    <3>1. 1 \in 1 .. n /\ out.flips[1] \in Surfaces
      BY <1>2, <1>3, <2>2
    <3>2. \A j \in 1 .. n : out.flips[j] \in Surfaces => out.age[out.flips[j]] + j <= n
      BY DEF AgeInv
    <3>3. out.age[out.flips[1]] + 1 <= n
      BY <3>1, <3>2
    <3> QED BY <1>2, <1>3, <1>4, <2>2, <3>1, <3>3
  <2> QED BY <1>3, <2>1, <2>2 DEF AgeInv
<1>6. InUse' \subseteq InUse
  <2>1. \A pos \in 1 .. n - 1 : pos + 1 \in 1 .. n
    BY <1>2
  <2> QED BY <1>2, <1>3, <2>1 DEF InUse
<1>7. TargetInv' /\ StartInv'
  BY <1>1, <1>3, <1>6 DEF TargetInv, StartInv
<1>8. FieldsInv' /\ PoolInv'
  BY <1>1, <1>3 DEF FieldsInv, PoolInv
<1> QED BY <1>5, <1>7, <1>8

-----------------------------------------------------------------------------
LEMMA ScreenInitially == ASSUME ScreenInit PROVE ScreenInv
<1> USE DEF ScreenInit, NoFrame, IdlePool, Nowhere
<1>1. out \in OutTypes /\ pool \in PoolTypes
  BY DEF OutTypes, PoolTypes, Surfaces
<1>2. FieldsInv
  BY <1>1 DEF FieldsInv, FrameStages
<1>3. out.flips = <<>> /\ Len(out.flips) = 0 /\ out.scan = 3
  OBVIOUS
<1>4. FlipInv
  BY <1>3 DEF AgeInv, TargetInv, StartInv, InUse, Surfaces
<1>5. PoolInv
  BY DEF PoolInv
<1> QED BY <1>2, <1>4, <1>5

LEMMA ScreenStep == ASSUME ScreenInv, [ScreenNext]_screenVars PROVE ScreenInv'
<1>1. CASE ScreenNext
  BY <1>1, ElsewhereKeeps, ComposingKeeps, CommittingKeeps, PaintKeeps, PaintersKeep, AllBandsKeeps,
     SubmitKeeps, RetargetKeeps, VsyncKeeps DEF ScreenNext, Presenting
<1>2. CASE UNCHANGED screenVars
  BY <1>2 DEF screenVars, FieldsInv, AgeInv, TargetInv, StartInv, PoolInv, InUse
<1> QED BY <1>1, <1>2

\* Nobody writes into a surface that is scanned out or waits for it: neither the main loop
\* while it draws, nor a worker of the pool that has not finished its band.
THEOREM NothingTears == ScreenSpec => []NoTearing
<1>1. ScreenInv => NoTearing
  BY DEF NoTearing, TargetInv, PoolInv
<1> QED BY <1>1, ScreenInitially, ScreenStep, PTL DEF ScreenSpec

-----------------------------------------------------------------------------
(* The pictures.                                                             *)

\* Everything on its way to the screen. A picture of its own fills the screen or is a video;
\* what is drawn carries no number of a tag.
Overlayings == Seq({"hud", "panel"})
Videos == [n : Nat \ {0}, wide : BOOLEAN, as : 0 .. 3]
Plain == [n : Nat \ {0}, wide : BOOLEAN, as : {0}]
NoVideos == {Menu, Garbage}
Drawn(p) == [p EXCEPT !.as = 0]
Sizes == {"none", "wide", "narrow"}
ShownTypes ==
  /\ content \in [Surfaces -> [band : [Painters -> Plain \cup NoVideos], over : Overlayings,
                               bars : {"clean", "stray"}]]
  /\ tag \in [Surfaces -> [base : Videos \cup NoVideos, over : Overlayings]]
FrameTypes ==
  frame \in [at : FrameStages, base : Videos \cup NoVideos, over : Overlayings, drawn : BOOLEAN,
             hw : BOOLEAN, flip : 0 .. 3]
PlayerTypes ==
  /\ player \in [at : {"idle", "queued", "down"}, started : BOOLEAN, hw : BOOLEAN,
                 wide : BOOLEAN, drew : BOOLEAN]
  /\ bars \in [left : 0 .. 4, hw : Sizes, sw : Sizes, skew : BOOLEAN]
MemoryTypes ==
  /\ heap \in [Frames -> Plain \cup NoVideos]
  /\ due \in Frames \cup {Nowhere} /\ held \in Frames \cup {Nowhere}
  /\ nv \in [addr : Frames \cup {Nowhere}, wide : BOOLEAN, names : Videos \cup NoVideos]
  /\ scaled \in Plain \cup {Garbage} /\ pictures \in Nat

\* The next frame is the newest picture and in another memory than the one on the screen,
\* which is the one the tag names, at the size it had then. While something is taken down,
\* and in hardware decoding, there is no scaled picture.
MemoryInv ==
  /\ due # Nowhere => due # held /\ heap[due] \in Plain /\ heap[due].n = pictures
  /\ nv.addr = held
  /\ held # Nowhere => /\ heap[held] \in Plain /\ nv.names \in Videos
                       /\ Drawn(nv.names) = Picture(heap[held].n, nv.wide)
  /\ player.at = "down" => due = Nowhere /\ held = Nowhere /\ scaled = Garbage
  /\ player.hw \/ frame.hw => scaled = Garbage

\* Nothing is tagged, or about to be, with a picture that is not decoded or still due.
Older(p) == p.n <= pictures /\ (due # Nowhere => p.n < pictures)
NumberInv ==
  /\ \A i \in Surfaces : Older(tag[i].base)
  /\ Older(nv.names) /\ Older(scaled)

\* A frame that shows a video shows the one the player holds, with nothing being opened.
FrameInv ==
  /\ frame.at = "top" => frame = NoFrame
  /\ frame.at = "wait" => frame = [NoFrame EXCEPT !.at = "wait", !.flip = out.shown]
  /\ frame.at # "wait" => out.shown # out.active
  /\ frame.at = "flip" => frame.flip \in {out.active, out.shown}
  /\ frame.hw => IsVideo(frame.base) /\ held # Nowhere /\ frame.base = nv.names
  /\ ~frame.hw /\ IsVideo(frame.base) => player.at = "idle" /\ ~player.hw /\ frame.base = scaled
  /\ frame.at \in {"paint", "bands"} => frame.drawn /\ IsVideo(frame.base)
  /\ frame.at = "over" => frame.drawn
  /\ ~frame.drawn => frame.base = Garbage
  /\ frame.drawn /\ frame.base = Garbage => frame.over # <<>>

\* What has been drawn of the frame so far.
DrawnInv ==
  /\ frame.at = "bands" =>
       /\ content[out.active].over = <<>>
       /\ \A w \in Painters \ (pool.fresh \cup pool.busy) :
            content[out.active].band[w] = Drawn(frame.base)
  /\ frame.at = "over" =>
       IF frame.base # Garbage
       THEN /\ content[out.active].over = <<>>
            /\ \A w \in Painters : content[out.active].band[w] = Drawn(frame.base)
       ELSE tag[out.active] # Unknown => Holds(content[out.active], tag[out.active])

\* The target of the next frame that is drawn, and how many frames a surface is from it.
Midway == {"bands", "over"}
NextTarget ==
  IF frame.at \in Midway \/ (frame.at \in {"flip", "wait"} /\ frame.flip = out.active)
  THEN Next3(out.active) ELSE out.active
Ahead(i) == (i + 3 - NextTarget) % 3

\* A path that remembers a narrow picture still clears every surface that holds a wide one:
\* the counter outlasts its turn. The hardware path owes that while it may paint, the
\* software path unless it is skewed.
WideClean(i) == IsVideo(tag[i].base) /\ tag[i].base.wide /\ tag[i].over = <<>>
Owed ==
  \A i \in Surfaces :
    WideClean(i) /\ ~(i = out.active /\ frame.at \in Midway) => bars.left > Ahead(i)
Painting == player.hw \/ frame.hw
SwNarrow == bars.sw = "narrow" /\ ~bars.skew
OwedInv ==
  /\ Painting /\ bars.hw = "narrow" => Owed
  /\ SwNarrow => Owed

\* A wide picture that is on a surface has been seen by the path that painted it.
Tagged(p) == \E i \in Surfaces : tag[i].base = p
SeenInv ==
  /\ Painting /\ held # Nowhere /\ nv.wide /\ (Tagged(nv.names) \/ (frame.hw /\ frame.at \in Midway)) =>
       bars.hw = "wide" /\ ~SwNarrow
  /\ IsVideo(scaled) /\ scaled.wide /\ (Tagged(scaled) \/ (frame.base = scaled /\ frame.at \in Midway)) =>
       bars.sw = "wide"
PictureInv ==
  /\ ShownTypes /\ FrameTypes /\ PlayerTypes /\ MemoryTypes
  /\ MemoryInv /\ NumberInv /\ FrameInv /\ DrawnInv /\ OwedInv /\ SeenInv
  /\ TagsAreTrue /\ FlippedIsAsked
-----------------------------------------------------------------------------
LEMMA PictureFacts ==
  /\ Menu # Garbage /\ NoVideos = {Menu, Garbage} /\ Plain \subseteq Videos
  /\ \A p \in Videos : /\ IsVideo(p) /\ p \notin NoVideos /\ Drawn(p) \in Plain
                       /\ Drawn(p) = Picture(p.n, p.wide) /\ Drawn(p).wide = p.wide /\ Drawn(p).n = p.n
  /\ \A p \in NoVideos : ~IsVideo(p) /\ Drawn(p) = p /\ p.n \in Int /\ p.n < 1
  /\ \A p \in Plain : Drawn(p) = p
  /\ \A n \in Nat \ {0}, wide \in BOOLEAN :
       Picture(n, wide) \in Plain /\ Picture(n, wide).n = n /\ Picture(n, wide).wide = wide
<1> USE DEF Picture, Drawn, IsVideo, Videos, Plain
<1>1. Menu.n = 0 /\ Garbage.n = -1 /\ Drawn(Menu) = Menu /\ Drawn(Garbage) = Garbage
  BY DEF Menu, Garbage
<1>2. \A p \in NoVideos : p = Menu \/ p = Garbage
  BY DEF NoVideos
<1>3. \A p \in Videos : p.n > 0
  OBVIOUS
<1>4. \A p \in NoVideos : ~IsVideo(p) /\ Drawn(p) = p /\ p.n \in Int /\ p.n < 1
  BY <1>1, <1>2
<1>5. \A p \in Videos : /\ Drawn(p) \in Plain /\ Drawn(p) = Picture(p.n, p.wide)
                        /\ Drawn(p).wide = p.wide /\ Drawn(p).n = p.n
  OBVIOUS
<1>6. \A p \in Videos : p \notin NoVideos
  BY <1>3, <1>4
<1>7. \A p \in Plain : Drawn(p) = p
  OBVIOUS
<1>8. Plain \subseteq Videos
  OBVIOUS
<1>9. \A n \in Nat \ {0}, wide \in BOOLEAN :
       Picture(n, wide) \in Plain /\ Picture(n, wide).n = n /\ Picture(n, wide).wide = wide
  OBVIOUS
<1> HIDE DEF Picture, Drawn, Videos, Plain
<1> QED BY <1>1, <1>3, <1>4, <1>5, <1>6, <1>7, <1>8, <1>9 DEF NoVideos

\* A new tag names the picture, and no surface carries it.
LEMMA NewTags ==
  ASSUME ShownTypes, NEW p \in Plain
  PROVE  NewTag(p) \in Videos /\ Drawn(NewTag(p)) = p /\ ~Tagged(NewTag(p)) /\ NewTag(p).n = p.n
<1> DEFINE t(m) == [p EXCEPT !.as = m]
<1>1. \A m \in 0 .. 3 : t(m) \in Videos /\ t(m).as = m /\ Drawn(t(m)) = p /\ t(m).n = p.n
  BY DEF Plain, Videos, Drawn
<1>2. \E m \in 0 .. 3 : \A i \in Surfaces : tag[i].base # t(m)
  <2> HIDE DEF t
  <2>1. SUFFICES ASSUME \A m \in 0 .. 3 : \E i \in Surfaces : tag[i].base = t(m)
                 PROVE  FALSE
    OBVIOUS
  <2>2. \A m \in 0 .. 3 : tag[0].base = t(m) \/ tag[1].base = t(m) \/ tag[2].base = t(m)
    BY <2>1 DEF Surfaces
  <2>3. \A j, m \in 0 .. 3 : t(j) = t(m) => j = m
    BY <1>1
  <2>4. /\ t(0) # t(1) /\ t(0) # t(2) /\ t(0) # t(3) /\ t(1) # t(2) /\ t(1) # t(3) /\ t(2) # t(3)
    BY <2>3
  <2>5. \A i \in 0 .. 3 : i = 0 \/ i = 1 \/ i = 2 \/ i = 3
    OBVIOUS
  <2>6. /\ tag[0].base = t(0) \/ tag[1].base = t(0) \/ tag[2].base = t(0)
        /\ tag[0].base = t(1) \/ tag[1].base = t(1) \/ tag[2].base = t(1)
        /\ tag[0].base = t(2) \/ tag[1].base = t(2) \/ tag[2].base = t(2)
        /\ tag[0].base = t(3) \/ tag[1].base = t(3) \/ tag[2].base = t(3)
    BY <2>2
  <2> QED BY <2>4, <2>6
<1>3. PICK m \in 0 .. 3 : NewTag(p) = t(m) /\ \A i \in Surfaces : tag[i].base # t(m)
  BY <1>2 DEF NewTag
<1> QED BY <1>1, <1>3 DEF Tagged

\* The surfaces in turn.
LEMMA TurnFacts ==
  \A i, t \in Surfaces :
    /\ Next3(t) \in Surfaces /\ Next3(t) # t
    /\ (i + 3 - t) % 3 \in 0 .. 2 /\ (t + 3 - t) % 3 = 0
    /\ i # t => (i + 3 - t) % 3 = ((i + 3 - Next3(t)) % 3) + 1
BY DEF Surfaces, Next3

USE DEF PictureInv

\* Who is next is a surface, and at most two frames away from the others.
LEMMA AheadFacts ==
  FieldsInv => /\ out.active \in Surfaces /\ NextTarget \in Surfaces
               /\ \A i \in Surfaces : Ahead(i) \in 0 .. 2 /\ (i = NextTarget => Ahead(i) = 0)
<1> HAVE FieldsInv
<1>1. out.active \in Surfaces
  BY DEF FieldsInv, OutTypes
<1>2. NextTarget \in Surfaces
  BY <1>1, TurnFacts DEF NextTarget
<1> QED BY <1>1, <1>2, TurnFacts DEF Ahead

\* What is owed stays so while nobody's turn comes nearer than the counter falls.
LEMMA OwedStays ==
  ASSUME FieldsInv, PlayerTypes, PlayerTypes', Owed, tag' = tag, NextTarget' = NextTarget,
         frame.at \in Midway => frame'.at \in Midway /\ out'.active = out.active,
         bars'.left >= bars.left
  PROVE  Owed'
<1>1. \A i \in Surfaces : Ahead(i)' = Ahead(i) /\ Ahead(i) \in Int /\ WideClean(i)' = WideClean(i)
  BY AheadFacts DEF Ahead, WideClean
<1>2. bars.left \in Int /\ bars'.left \in Int
  BY DEF PlayerTypes
<1> QED BY <1>1, <1>2 DEF Owed

LEMMA OwedAnew ==
  ASSUME FieldsInv', PlayerTypes', bars'.left > 2
  PROVE  Owed'
<1>1. (\A i \in Surfaces : Ahead(i) \in 0 .. 2 /\ (i = NextTarget => Ahead(i) = 0))'
  BY AheadFacts, PTL
<1>2. bars'.left \in Int
  BY DEF PlayerTypes
<1> QED BY <1>1, <1>2 DEF Owed

LEMMA ElsewhereShows ==
  ASSUME ScreenInv, ScreenInv', PictureInv, Decode \/ SizeChanges \/ TearDown \/ SetUp
  PROVE  PictureInv'
<1>1. UNCHANGED <<content, tag, out, frame>>
  BY DEF Decode, SizeChanges, TearDown, SetUp, surfaces
<1>2. ShownTypes' /\ FrameTypes' /\ TagsAreTrue' /\ FlippedIsAsked'
  BY <1>1 DEF ShownTypes, FrameTypes, TagsAreTrue, FlippedIsAsked, Holds
<1>3. NextTarget' = NextTarget
  BY <1>1 DEF NextTarget
<1>4. CASE Decode
  <2>1. PICK a \in Frames \ {held} : /\ due' = a /\ pictures' = pictures + 1
                                     /\ heap' = [heap EXCEPT ![a] = Picture(pictures + 1, player.wide)]
    BY <1>4 DEF Decode
  <2>2. UNCHANGED <<player, held, nv, scaled, bars, pool>> /\ due = Nowhere /\ player.at # "down"
    BY <1>4 DEF Decode
  <2>3. Picture(pictures + 1, player.wide) \in Plain /\ Picture(pictures + 1, player.wide).n = pictures + 1
        /\ pictures \in Nat
    BY PictureFacts DEF MemoryTypes, PlayerTypes
  <2>4. /\ \A b \in Frames \ {a} : heap'[b] = heap[b]
        /\ heap'[a] \in Plain /\ heap'[a].n = pictures + 1
    BY <2>1, <2>3 DEF MemoryTypes
  <2>5. MemoryTypes'
    BY <2>1, <2>2, <2>3 DEF MemoryTypes
  <2>6. PlayerTypes'
    BY <2>2 DEF PlayerTypes
  <2>7. MemoryInv'
    <3>1. held \in Frames \cup {Nowhere} /\ Nowhere \notin Frames
      BY DEF MemoryTypes, Nowhere, Frames
    <3> QED BY <1>1, <2>1, <2>2, <2>4, <3>1 DEF MemoryInv
  <2>8. NumberInv'
    <3>1. \A i \in Surfaces : tag[i].base.n \in Int
      BY PictureFacts DEF ShownTypes, Videos
    <3>2. nv.names.n \in Int /\ scaled.n \in Int
      BY PictureFacts DEF MemoryTypes, Videos, NoVideos
    <3> QED BY <1>1, <2>1, <2>2, <2>3, <3>1, <3>2 DEF NumberInv, Older
  <2>9. FrameInv' /\ DrawnInv'
    BY <1>1, <2>2 DEF FrameInv, DrawnInv, Holds
  <2>10. Owed => Owed'
    BY <1>1, <1>3, <2>2, <2>6, OwedStays DEF PlayerTypes
  <2>11. SeenInv' /\ OwedInv'
    BY <1>1, <2>2, <2>10 DEF SeenInv, OwedInv, Painting, SwNarrow, Tagged
  <2> QED BY <1>2, <2>5, <2>6, <2>7, <2>8, <2>9, <2>11
<1>5. CASE SizeChanges
  <2>1. PICK wide \in BOOLEAN, hw \in BOOLEAN : player' = [player EXCEPT !.wide = wide, !.hw = hw]
    BY <1>5 DEF SizeChanges
  <2>2. UNCHANGED <<heap, due, held, nv, scaled, pictures, bars, pool>> /\ player.hw /\ player.at # "down"
    BY <1>5 DEF SizeChanges, decoded
  <2>3. PlayerTypes' /\ player'.at = player.at
    BY <2>1, <2>2 DEF PlayerTypes
  <2>4. MemoryTypes' /\ MemoryInv' /\ NumberInv'
    BY <1>1, <2>2, <2>3 DEF MemoryTypes, MemoryInv, NumberInv, Older
  <2>5. FrameInv' /\ DrawnInv'
    BY <1>1, <2>2, <2>3 DEF FrameInv, DrawnInv, Holds
  <2>6. Owed => Owed'
    BY <1>1, <1>3, <2>2, <2>3, OwedStays DEF PlayerTypes
  <2>7. OwedInv' /\ SeenInv'
    BY <1>1, <2>2, <2>6 DEF OwedInv, SeenInv, Painting, SwNarrow, Tagged
  <2> QED BY <1>2, <2>3, <2>4, <2>5, <2>7
<1>6. CASE TearDown
  <2>1. /\ player' = [player EXCEPT !.at = "down", !.started = FALSE, !.hw = FALSE]
        /\ heap' = [a \in Frames |-> Garbage] /\ due' = Nowhere /\ held' = Nowhere
        /\ nv' = [nv EXCEPT !.addr = Nowhere] /\ scaled' = Garbage
        /\ UNCHANGED <<bars, pictures>> /\ player.at = "queued"
    BY <1>6 DEF TearDown
  <2>2. ~frame.hw /\ ~IsVideo(frame.base) /\ frame.at # "bands"
    BY <2>1 DEF FrameInv, PoolInv
  <2>3. PlayerTypes' /\ ~player'.hw
    BY <2>1 DEF PlayerTypes
  <2>4. MemoryTypes' /\ nv'.addr = Nowhere /\ nv'.names = nv.names
    BY <2>1 DEF MemoryTypes, NoVideos
  <2>5. MemoryInv' /\ NumberInv'
    <3>1. Garbage.n <= pictures
      BY DEF Garbage, Picture, MemoryTypes
    <3> QED BY <1>1, <2>1, <2>2, <2>3, <2>4, <3>1 DEF MemoryInv, NumberInv, Older
  <2>6. FrameInv' /\ DrawnInv'
    BY <1>1, <2>1, <2>2, <2>3 DEF FrameInv, DrawnInv, Holds
  <2>7. Owed => Owed'
    BY <1>1, <1>3, <2>1, <2>3, OwedStays DEF PlayerTypes
  <2>8. OwedInv' /\ SeenInv'
    BY <1>1, <2>1, <2>2, <2>3, <2>7, PictureFacts DEF OwedInv, SeenInv, Painting, SwNarrow, NoVideos
  <2> QED BY <1>2, <2>3, <2>4, <2>5, <2>6, <2>8
<1>7. CASE SetUp
  <2>1. /\ player.at = "down" /\ bars' = [bars EXCEPT !.left = 4, !.skew = FALSE]
        /\ UNCHANGED <<heap, due, held, nv, scaled, pictures>>
    BY <1>7 DEF SetUp, RepaintsBars, decoded
  <2>2. PICK started \in BOOLEAN, hw \in BOOLEAN, wide \in BOOLEAN :
           player' = [player EXCEPT !.at = "idle", !.started = started, !.hw = hw, !.wide = wide]
    BY <1>7 DEF SetUp
  <2>3. ~frame.hw /\ ~IsVideo(frame.base) /\ frame.at # "bands"
    BY <2>1 DEF FrameInv, PoolInv
  <2>4. PlayerTypes' /\ player'.at = "idle" /\ bars'.left = 4
    <3>1. player' \in [at : {"idle", "queued", "down"}, started : BOOLEAN, hw : BOOLEAN,
                       wide : BOOLEAN, drew : BOOLEAN] /\ player'.at = "idle"
      BY <2>2 DEF PlayerTypes
    <3>2. bars' \in [left : 0 .. 4, hw : Sizes, sw : Sizes, skew : BOOLEAN] /\ bars'.left = 4
      <4>1. bars \in [left : 0 .. 4, hw : Sizes, sw : Sizes, skew : BOOLEAN]
        BY DEF PlayerTypes
      <4>2. bars' = [left |-> 4, hw |-> bars.hw, sw |-> bars.sw, skew |-> FALSE]
        BY <2>1, <4>1
      <4> QED BY <4>1, <4>2
    <3> QED BY <3>1, <3>2 DEF PlayerTypes
  <2>5. MemoryTypes' /\ MemoryInv' /\ NumberInv' /\ FrameInv' /\ DrawnInv'
    BY <1>1, <2>1, <2>3, <2>4 DEF MemoryTypes, MemoryInv, NumberInv, Older, FrameInv, DrawnInv, Holds
  <2>6. Owed'
    BY <2>4, OwedAnew
  <2>7. held' = Nowhere /\ scaled' = Garbage
    BY <2>1 DEF MemoryInv
  <2>8. OwedInv' /\ SeenInv'
    BY <2>6, <2>7, PictureFacts DEF OwedInv, SeenInv, NoVideos
  <2> QED BY <1>2, <2>4, <2>5, <2>8
<1> QED BY <1>4, <1>5, <1>6, <1>7

\* Main composes a frame.
LEMMA ComposedOwes ==
  ASSUME ScreenInv, PlayerTypes, PlayerTypes', OwedInv, UNCHANGED <<tag, out>>,
         frame.at = "top", frame'.at = "commit", Painting' => Painting,
         bars' = bars \/ bars' = [bars EXCEPT !.left = 4]
  PROVE  OwedInv'
<1>1. NextTarget' = NextTarget /\ (frame'.at \in Midway <=> frame.at \in Midway)
  BY DEF NextTarget, Midway
<1>2. bars'.left >= bars.left /\ bars'.hw = bars.hw /\ bars'.sw = bars.sw /\ bars'.skew = bars.skew
  BY DEF PlayerTypes
<1>3. Owed => Owed'
  BY <1>1, <1>2, OwedStays
<1> QED BY <1>2, <1>3 DEF OwedInv, SwNarrow

LEMMA OverlaidBars ==
  ASSUME PlayerTypes, NEW b, Overlaid(b), frame = NoFrame
  PROVE  /\ bars' \in [left : 0 .. 4, hw : Sizes, sw : Sizes, skew : BOOLEAN]
         /\ bars' = bars \/ bars' = [bars EXCEPT !.left = 4]
         /\ \E o \in Overlayings :
              frame' = [at |-> "commit", base |-> b.base, over |-> o, drawn |-> TRUE, hw |-> b.hw,
                        flip |-> Nowhere]
<1>1. PICK o \in Overlays :
        /\ frame' = [frame EXCEPT !.at = "commit", !.base = b.base, !.over = o, !.drawn = TRUE, !.hw = b.hw]
        /\ bars' = IF o = <<>> THEN bars ELSE [bars EXCEPT !.left = 4]
  BY DEF Overlaid
<1>2. o \in Overlayings
  <2>1. o = <<>> \/ o = <<"hud">>
    BY DEF Overlays
  <2>2. <<>> \in Overlayings /\ <<"hud">> \in Overlayings
    BY DEF Overlayings
  <2> QED BY <2>1, <2>2
<1>3. frame' = [at |-> "commit", base |-> b.base, over |-> o, drawn |-> TRUE, hw |-> b.hw, flip |-> Nowhere]
  BY <1>1 DEF NoFrame
<1>4. /\ bars' \in [left : 0 .. 4, hw : Sizes, sw : Sizes, skew : BOOLEAN]
      /\ bars' = bars \/ bars' = [bars EXCEPT !.left = 4]
  <2>1. bars' = bars \/ bars' = [bars EXCEPT !.left = 4]
    BY <1>1
  <2> QED BY <2>1 DEF PlayerTypes
<1> QED BY <1>2, <1>3, <1>4

LEMMA ComposingShows ==
  ASSUME ScreenInv, ScreenInv', PictureInv, Composing
  PROVE  PictureInv'
<1>1. /\ frame.at = "top" /\ UNCHANGED <<content, tag, out, pool, pictures>>
      /\ frame = NoFrame /\ ~frame.hw /\ out.shown # out.active
  <2>1. /\ frame.at = "top" /\ UNCHANGED <<content, tag, out, pool, pictures>>
    <3>1. CASE Open \/ DrawScreen \/ DrawNothing \/ DrawPanelOnly
      BY <3>1 DEF Open, DrawScreen, DrawNothing, DrawPanelOnly, Rendering, surfaces, decoded
    <3>2. CASE ShowHw \/ ShowSw \/ Hold
      BY <3>2 DEF ShowHw, ShowSw, Hold, CanRender, Rendering, surfaces
    <3> QED BY <3>1, <3>2 DEF Composing
  <2>2. frame = NoFrame /\ out.shown # out.active
    BY <2>1 DEF FrameInv
  <2> QED BY <2>1, <2>2 DEF NoFrame
<1>2. ShownTypes'
  BY <1>1 DEF ShownTypes
<1>3. CASE Open
  <2>1. /\ player' = [player EXCEPT !.at = "queued"] /\ frame' = frame
        /\ UNCHANGED <<heap, due, held, nv, scaled, bars>>
    BY <1>1, <1>3 DEF Open, decoded
  <2>2. PlayerTypes' /\ player'.at = "queued" /\ player'.hw = player.hw
    BY <2>1 DEF PlayerTypes
  <2>3. FrameTypes' /\ MemoryTypes' /\ MemoryInv' /\ NumberInv'
    BY <1>1, <2>1, <2>2 DEF FrameTypes, MemoryTypes, MemoryInv, NumberInv, Older
  <2>4. ~IsVideo(frame.base)
    BY <1>1 DEF NoFrame, IsVideo, Garbage, Picture
  <2>5. FrameInv' /\ DrawnInv'
    BY <1>1, <2>1, <2>2, <2>4 DEF FrameInv, DrawnInv, Holds
  <2>6. NextTarget' = NextTarget
    BY <1>1, <2>1 DEF NextTarget
  <2>7. Owed => Owed'
    BY <1>1, <2>1, <2>2, <2>6, OwedStays DEF PlayerTypes
  <2>8. OwedInv' /\ SeenInv'
    BY <1>1, <2>1, <2>2, <2>7 DEF OwedInv, SeenInv, Painting, SwNarrow, Tagged
  <2>9. TagsAreTrue' /\ FlippedIsAsked'
    BY <1>1, <2>1 DEF TagsAreTrue, FlippedIsAsked, Holds
  <2> QED BY <1>2, <2>2, <2>3, <2>5, <2>8, <2>9
<1>4. ASSUME frame'.at = "commit"
      PROVE  /\ TagsAreTrue' /\ FlippedIsAsked' /\ DrawnInv'
  BY <1>1, <1>4 DEF TagsAreTrue, FlippedIsAsked, DrawnInv, Holds
<1>5. CASE DrawScreen \/ DrawNothing \/ DrawPanelOnly
  <2>1. /\ UNCHANGED <<heap, due, held, nv, scaled, bars>>
        /\ player' = player \/ \E d \in BOOLEAN : player' = [player EXCEPT !.drew = d]
    BY <1>5 DEF DrawScreen, DrawNothing, DrawPanelOnly, decoded, PlayerTypes
  <2>2. PICK b \in NoVideos, o \in Overlayings, d \in BOOLEAN :
          /\ frame' = [at |-> "commit", base |-> b, over |-> o, drawn |-> d, hw |-> FALSE, flip |-> Nowhere]
          /\ ~d => b = Garbage
          /\ d /\ b = Garbage => o # <<>>
    <3>1. CASE DrawScreen
      <4>1. frame' = [at |-> "commit", base |-> Menu, over |-> <<>>, drawn |-> TRUE, hw |-> FALSE, flip |-> Nowhere]
        BY <1>1, <3>1 DEF DrawScreen, Composed, NoFrame
      <4>2. <<>> \in Overlayings /\ Menu \in NoVideos /\ Menu # Garbage
        BY PictureFacts DEF Overlayings, NoVideos
      <4> QED BY <4>1, <4>2
    <3>2. CASE DrawNothing
      <4>1. frame' = [at |-> "commit", base |-> Garbage, over |-> <<>>, drawn |-> FALSE, hw |-> FALSE, flip |-> Nowhere]
        BY <1>1, <3>2 DEF DrawNothing, NoFrame
      <4>2. <<>> \in Overlayings /\ Garbage \in NoVideos
        BY DEF Overlayings, NoVideos
      <4> QED BY <4>1, <4>2
    <3>3. CASE DrawPanelOnly
      <4>1. frame' = [at |-> "commit", base |-> Garbage, over |-> <<"panel">>, drawn |-> TRUE, hw |-> FALSE, flip |-> Nowhere]
        BY <1>1, <3>3 DEF DrawPanelOnly, Composed, NoFrame
      <4>2. <<"panel">> \in Overlayings /\ Garbage \in NoVideos /\ <<"panel">> # <<>>
        BY DEF Overlayings, NoVideos
      <4> QED BY <4>1, <4>2
    <3> QED BY <1>5, <3>1, <3>2, <3>3
  <2>3. PlayerTypes' /\ player'.at = player.at /\ player'.hw = player.hw
    BY <2>1 DEF PlayerTypes
  <2>4. FrameTypes'
    BY <2>2 DEF FrameTypes, FrameStages, Nowhere
  <2>5. frame'.at = "commit" /\ ~IsVideo(frame'.base) /\ ~frame'.hw
    BY <2>2, PictureFacts
  <2>6. MemoryTypes' /\ MemoryInv' /\ NumberInv'
    BY <1>1, <2>1, <2>3, <2>5 DEF MemoryTypes, MemoryInv, NumberInv, Older
  <2>7. FrameInv'
    BY <1>1, <2>2, <2>5 DEF FrameInv
  <2>8. OwedInv'
    BY <1>1, <2>1, <2>3, <2>5, ComposedOwes DEF Painting
  <2>9. SeenInv'
    BY <1>1, <2>1, <2>3, <2>5 DEF SeenInv, Painting, SwNarrow, Tagged, Midway
  <2> QED BY <1>2, <1>4, <2>3, <2>4, <2>5, <2>6, <2>7, <2>8, <2>9
<1>6. CASE ShowHw
  <2>1. /\ player.at = "idle" /\ player.hw /\ due # Nowhere /\ nv' = Named(due)
        /\ Overlaid([base |-> nv'.names, hw |-> TRUE]) /\ held' = due /\ due' = Nowhere
        /\ heap' = IF held = Nowhere THEN heap ELSE [heap EXCEPT ![held] = Garbage]
        /\ player' = [player EXCEPT !.drew = TRUE] /\ UNCHANGED scaled
    BY <1>6 DEF ShowHw, CanRender
  <2>2. due # held /\ due \in Frames /\ heap[due] \in Plain /\ heap[due].n = pictures
    BY <2>1 DEF MemoryInv, MemoryTypes
  <2>3. PlayerTypes' /\ player'.at = "idle" /\ player'.hw
    <3>1. /\ player' \in [at : {"idle", "queued", "down"}, started : BOOLEAN, hw : BOOLEAN,
                          wide : BOOLEAN, drew : BOOLEAN] /\ player'.at = "idle" /\ player'.hw
      BY <2>1 DEF PlayerTypes
    <3> QED BY <1>1, <2>1, <3>1, OverlaidBars DEF PlayerTypes
  <2>4. /\ nv'.addr = due /\ nv'.wide = player.wide /\ nv'.names \in Videos /\ ~Tagged(nv'.names)
        /\ Drawn(nv'.names) = Picture(heap[due].n, player.wide) /\ nv'.names.n = pictures
        /\ nv' \in [addr : Frames \cup {Nowhere}, wide : BOOLEAN, names : Videos \cup NoVideos]
    <3>1. nv' = [addr |-> due, wide |-> player.wide, names |-> NewTag(Picture(heap[due].n, player.wide))]
      BY <2>1, <2>2 DEF Named, SameAsShown
    <3>2. heap[due].n \in Nat \ {0} /\ player.wide \in BOOLEAN
      BY <2>2 DEF Plain, PlayerTypes
    <3>3. Picture(heap[due].n, player.wide) \in Plain /\ Picture(heap[due].n, player.wide).n = pictures
      BY <2>2, <3>2, PictureFacts
    <3> QED BY <2>2, <3>1, <3>2, <3>3, NewTags
  <2>5. heap' \in [Frames -> Plain \cup NoVideos] /\ heap'[due] = heap[due]
    BY <2>1, <2>2 DEF MemoryTypes, NoVideos
  <2>6. MemoryTypes'
    BY <1>1, <2>1, <2>2, <2>4, <2>5 DEF MemoryTypes
  <2>7. PICK o \in Overlayings :
          frame' = [at |-> "commit", base |-> nv'.names, over |-> o, drawn |-> TRUE, hw |-> TRUE, flip |-> Nowhere]
    BY <1>1, <2>1, OverlaidBars
  <2>8. FrameTypes' /\ frame'.at = "commit" /\ frame'.hw
    BY <2>4, <2>7 DEF FrameTypes, FrameStages, Nowhere
  <2>9. MemoryInv'
    BY <2>1, <2>2, <2>3, <2>4, <2>5 DEF MemoryInv, Nowhere
  <2>10. NumberInv'
    <3>1. pictures \in Nat
      BY DEF MemoryTypes
    <3> QED BY <1>1, <2>1, <2>4, <3>1 DEF NumberInv, Older
  <2>11. FrameInv'
    <3>1. IsVideo(nv'.names) /\ nv'.names # Garbage
      BY <2>4, PictureFacts DEF NoVideos
    <3>2. due # Nowhere
      BY <2>1
    <3> QED BY <1>1, <2>1, <2>2, <2>7, <3>1, <3>2 DEF FrameInv
  <2>12. OwedInv'
    BY <1>1, <2>1, <2>3, <2>8, ComposedOwes, OverlaidBars DEF Painting
  <2>13. SeenInv'
    <3>1. scaled' = Garbage /\ ~IsVideo(scaled')
      BY <2>1, PictureFacts DEF MemoryInv, NoVideos
    <3>2. ~Tagged(nv.names)' /\ frame'.at \notin Midway
      BY <1>1, <2>4, <2>8 DEF Tagged, Midway
    <3> QED BY <3>1, <3>2 DEF SeenInv
  <2> QED BY <1>2, <1>4, <2>3, <2>6, <2>8, <2>9, <2>10, <2>11, <2>12, <2>13
<1>7. CASE ShowSw
  <2>1. /\ player.at = "idle" /\ ~player.hw /\ due # Nowhere /\ scaled' = heap[due]
        /\ Overlaid([base |-> heap[due], hw |-> FALSE]) /\ due' = Nowhere
        /\ heap' = [heap EXCEPT ![due] = Garbage]
        /\ player' = [player EXCEPT !.drew = TRUE] /\ UNCHANGED <<held, nv>>
    BY <1>7 DEF ShowSw, CanRender
  <2>2. due # held /\ due \in Frames /\ heap[due] \in Plain /\ heap[due].n = pictures /\ pictures \in Nat
    BY <2>1 DEF MemoryInv, MemoryTypes
  <2>3. PlayerTypes' /\ player'.at = "idle" /\ ~player'.hw
    <3>1. /\ player' \in [at : {"idle", "queued", "down"}, started : BOOLEAN, hw : BOOLEAN,
                          wide : BOOLEAN, drew : BOOLEAN] /\ player'.at = "idle" /\ ~player'.hw
      BY <2>1 DEF PlayerTypes
    <3> QED BY <1>1, <2>1, <3>1, OverlaidBars DEF PlayerTypes
  <2>4. MemoryTypes'
    <3>1. heap' \in [Frames -> Plain \cup NoVideos]
      BY <2>1, <2>2 DEF MemoryTypes, NoVideos
    <3> QED BY <1>1, <2>1, <2>2, <3>1 DEF MemoryTypes
  <2>5. PICK o \in Overlayings :
          frame' = [at |-> "commit", base |-> scaled', over |-> o, drawn |-> TRUE, hw |-> FALSE, flip |-> Nowhere]
    BY <1>1, <2>1, OverlaidBars
  <2>6. IsVideo(scaled') /\ scaled' # Garbage /\ scaled' \in Videos
    BY <2>1, <2>2, PictureFacts DEF NoVideos
  <2>7. FrameTypes' /\ frame'.at = "commit" /\ ~frame'.hw /\ frame'.at # "top"
    BY <2>5, <2>6 DEF FrameTypes, FrameStages, Nowhere
  <2>8. MemoryInv'
    <3>1. held # Nowhere => heap'[held] = heap[held]
      BY <2>1, <2>2 DEF MemoryTypes
    <3> QED BY <2>1, <2>3, <2>7, <3>1 DEF MemoryInv
  <2>9. NumberInv'
    BY <1>1, <2>1, <2>2 DEF NumberInv, Older
  <2>10. FrameInv'
    BY <1>1, <2>3, <2>5, <2>6 DEF FrameInv
  <2>11. OwedInv'
    BY <1>1, <2>1, <2>3, <2>7, ComposedOwes, OverlaidBars DEF Painting
  <2>12. SeenInv'
    <3>1. ~Tagged(scaled)' /\ frame'.at \notin Midway
      <4>1. \A i \in Surfaces : tag[i].base.n < pictures
        BY <2>1 DEF NumberInv, Older
      <4> QED BY <1>1, <2>1, <2>2, <2>7, <4>1 DEF Tagged, Midway
    <3> QED BY <2>3, <2>7, <3>1 DEF SeenInv, Painting
  <2> QED BY <1>2, <1>4, <2>3, <2>4, <2>7, <2>8, <2>9, <2>10, <2>11, <2>12
<1>8. CASE Hold
  <2>1. /\ player.at = "idle" /\ player' = [player EXCEPT !.drew = TRUE]
        /\ UNCHANGED <<heap, due, held, scaled>>
    BY <1>8 DEF Hold, CanRender
  <2>2. /\ player' \in [at : {"idle", "queued", "down"}, started : BOOLEAN, hw : BOOLEAN,
                        wide : BOOLEAN, drew : BOOLEAN] /\ player'.at = "idle" /\ player'.hw = player.hw
    BY <2>1 DEF PlayerTypes
  <2>3. CASE player.hw
    <3>1. held # Nowhere /\ nv' = Named(held) /\ Overlaid([base |-> nv'.names, hw |-> TRUE])
      BY <1>8, <2>3 DEF Hold
    <3>2. held \in Frames /\ heap[held] \in Plain /\ nv.addr = held /\ nv.names \in Videos
          /\ Drawn(nv.names) = Picture(heap[held].n, nv.wide)
          /\ nv \in [addr : Frames \cup {Nowhere}, wide : BOOLEAN, names : Videos \cup NoVideos]
      BY <3>1 DEF MemoryInv, MemoryTypes
    <3>3. /\ nv'.addr = held /\ nv'.names \in Videos /\ nv'.names.n = nv.names.n
          /\ Drawn(nv'.names) = Picture(heap[held].n, nv'.wide)
          /\ nv' \in [addr : Frames \cup {Nowhere}, wide : BOOLEAN, names : Videos \cup NoVideos]
          /\ nv' = nv \/ ~Tagged(nv'.names)
      <4>1. CASE SameAsShown(held)
        BY <3>1, <3>2, <4>1 DEF Named
      <4>2. CASE ~SameAsShown(held)
        <5>1. nv' = [addr |-> held, wide |-> player.wide, names |-> NewTag(Picture(heap[held].n, player.wide))]
          BY <3>1, <4>2 DEF Named
        <5>2. heap[held].n \in Nat \ {0} /\ player.wide \in BOOLEAN
          BY <3>2 DEF Plain, PlayerTypes
        <5>3. /\ Picture(heap[held].n, player.wide) \in Plain
              /\ Picture(heap[held].n, player.wide).n = heap[held].n
          BY <5>2, PictureFacts
        <5>4. nv.names.n = heap[held].n
          <6>1. Picture(heap[held].n, nv.wide).n = heap[held].n
            BY DEF Picture
          <6> QED BY <3>2, <6>1, PictureFacts
        <5> QED BY <3>2, <5>1, <5>2, <5>3, <5>4, NewTags
      <4> QED BY <4>1, <4>2
    <3>4. PICK o \in Overlayings :
            frame' = [at |-> "commit", base |-> nv'.names, over |-> o, drawn |-> TRUE, hw |-> TRUE, flip |-> Nowhere]
      BY <1>1, <3>1, OverlaidBars
    <3>5. PlayerTypes'
      BY <1>1, <2>2, <3>1, OverlaidBars DEF PlayerTypes
    <3>6. FrameTypes' /\ frame'.at = "commit" /\ frame'.hw
      BY <3>3, <3>4 DEF FrameTypes, FrameStages, Nowhere
    <3>7. MemoryTypes'
      BY <1>1, <2>1, <3>3 DEF MemoryTypes
    <3>8. MemoryInv'
      BY <1>1, <2>1, <2>2, <3>1, <3>2, <3>3, <2>3 DEF MemoryInv
    <3>9. NumberInv'
      BY <1>1, <2>1, <3>3 DEF NumberInv, Older
    <3>10. FrameInv'
      <4>1. IsVideo(nv'.names) /\ nv'.names # Garbage
        BY <3>3, PictureFacts DEF NoVideos
      <4> QED BY <1>1, <2>1, <3>1, <3>4, <4>1 DEF FrameInv
    <3>11. OwedInv'
      BY <1>1, <2>3, <3>1, <3>5, <3>6, ComposedOwes, OverlaidBars DEF Painting
    <3>12. SeenInv'
      <4>1. scaled' = Garbage /\ ~IsVideo(scaled')
        BY <2>1, <2>3, PictureFacts DEF MemoryInv, NoVideos
      <4>2. frame'.at \notin Midway
        BY <3>6 DEF Midway
      <4>3. bars'.hw = bars.hw /\ SwNarrow' = SwNarrow
        BY <1>1, <3>1, OverlaidBars DEF SwNarrow, PlayerTypes
      <4>4. Tagged(nv.names)' => nv' = nv /\ Tagged(nv.names)
        BY <1>1, <3>3 DEF Tagged
      <4> QED BY <2>1, <2>3, <4>1, <4>2, <4>3, <4>4 DEF SeenInv, Painting
    <3> QED BY <1>2, <1>4, <3>5, <3>6, <3>7, <3>8, <3>9, <3>10, <3>11, <3>12
  <2>4. CASE ~player.hw
    <3>1. scaled # Garbage /\ nv' = nv /\ Overlaid([base |-> scaled, hw |-> FALSE])
      BY <1>8, <2>4 DEF Hold
    <3>2. scaled \in Videos /\ IsVideo(scaled)
      BY <3>1, PictureFacts DEF MemoryTypes
    <3>3. PICK o \in Overlayings :
            frame' = [at |-> "commit", base |-> scaled, over |-> o, drawn |-> TRUE, hw |-> FALSE, flip |-> Nowhere]
      BY <1>1, <3>1, OverlaidBars
    <3>4. PlayerTypes'
      BY <1>1, <2>2, <3>1, OverlaidBars DEF PlayerTypes
    <3>5. FrameTypes' /\ frame'.at = "commit" /\ ~frame'.hw
      BY <3>2, <3>3 DEF FrameTypes, FrameStages, Nowhere
    <3>6. MemoryTypes' /\ MemoryInv' /\ NumberInv'
      BY <1>1, <2>1, <2>2, <2>4, <3>1, <3>5 DEF MemoryTypes, MemoryInv, NumberInv, Older
    <3>7. FrameInv'
      BY <1>1, <2>1, <2>2, <2>4, <3>1, <3>2, <3>3 DEF FrameInv
    <3>8. OwedInv'
      BY <1>1, <2>2, <2>4, <3>1, <3>4, <3>5, ComposedOwes, OverlaidBars DEF Painting
    <3>9. SeenInv'
      <4>1. bars'.sw = bars.sw
        BY <1>1, <3>1, OverlaidBars DEF PlayerTypes
      <4>2. Tagged(scaled)' <=> Tagged(scaled)
        BY <1>1, <2>1 DEF Tagged
      <4> QED BY <2>1, <2>2, <2>4, <3>5, <4>1, <4>2 DEF SeenInv, Painting, Midway
    <3> QED BY <1>2, <1>4, <3>4, <3>5, <3>6, <3>7, <3>8, <3>9
  <2> QED BY <2>3, <2>4
<1> QED BY <1>3, <1>5, <1>6, <1>7, <1>8 DEF Composing

\* When the turn passes, everyone else is one frame nearer, and the counter has fallen by one
\* at most.
LEMMA OwedTurns ==
  ASSUME ScreenInv, PlayerTypes, PlayerTypes', Owed, UNCHANGED out,
         NextTarget = out.active, NextTarget' = Next3(out.active), frame.at \notin Midway,
         \A i \in Surfaces \ {out.active} : tag'[i] = tag[i], bars'.left >= bars.left - 1,
         frame'.at \in Midway \/ ~WideClean(out.active)'
  PROVE  Owed'
<1> DEFINE t == out.active
<1>1. t \in Surfaces /\ bars.left \in Int /\ bars'.left \in Int
  BY AheadFacts DEF PlayerTypes
<1>2. ASSUME NEW i \in Surfaces, WideClean(i)', ~(i = t /\ frame'.at \in Midway)
      PROVE  bars'.left > Ahead(i)'
  <2>1. i # t
    BY <1>2
  <2>2. WideClean(i)
    BY <1>1, <1>2, <2>1 DEF WideClean
  <2>3. bars.left > Ahead(i)
    BY <2>1, <2>2 DEF Owed
  <2>4. Ahead(i) = Ahead(i)' + 1 /\ Ahead(i)' \in Int
    BY <1>1, <2>1, TurnFacts DEF Ahead
  <2> QED BY <1>1, <2>3, <2>4
<1> QED BY <1>2 DEF Owed

\* A surface that is shown as it is has been seen by its path, so that nothing is owed for it.
LEMMA ReusedIsSeen ==
  ASSUME PictureInv, frame.at = "commit", frame.drawn, Asked = tag[out.active], Asked # Unknown,
         out.active \in Surfaces, WideClean(out.active)
  PROVE  ~(Painting /\ bars.hw = "narrow") /\ ~SwNarrow
<1>1. frame.base # Garbage /\ tag[out.active].base = frame.base /\ frame.over = <<>>
  <2>1. CASE frame.base # Garbage
    BY <2>1 DEF Asked, WideClean
  <2>2. CASE frame.base = Garbage
    <3>1. frame.over # <<>> /\ frame.over \in Overlayings
      BY <2>2 DEF FrameInv, FrameTypes
    <3>2. tag[out.active].over = <<>>
      BY DEF WideClean
    <3>3. Asked = [tag[out.active] EXCEPT !.over = <<>> \o frame.over]
      BY <2>2, <3>2 DEF Asked
    <3>4. <<>> \o frame.over = frame.over
      BY <3>1 DEF Overlayings
    <3>5. tag[out.active] \in [base : Videos \cup NoVideos, over : Overlayings]
      BY DEF ShownTypes
    <3>6. Asked.over = frame.over
      BY <3>3, <3>4, <3>5
    <3> QED BY <3>1, <3>2, <3>6
  <2> QED BY <2>1, <2>2
<1>2. IsVideo(frame.base) /\ frame.base.wide /\ Tagged(frame.base)
  BY <1>1 DEF WideClean, Tagged
<1>3. CASE frame.hw
  <2>1. held # Nowhere /\ frame.base = nv.names
    BY <1>3 DEF FrameInv
  <2>2. nv.wide
    <3>1. nv.names \in Videos /\ Drawn(nv.names) = Picture(heap[held].n, nv.wide)
      BY <2>1 DEF MemoryInv
    <3>2. Drawn(nv.names).wide = nv.wide
      BY <3>1 DEF Picture
    <3>3. Drawn(nv.names).wide = nv.names.wide
      BY <3>1, PictureFacts
    <3> QED BY <1>2, <2>1, <3>2, <3>3
  <2>3. bars.hw = "wide" /\ ~SwNarrow
    BY <1>2, <1>3, <2>1, <2>2 DEF SeenInv, Painting
  <2> QED BY <2>3
<1>4. CASE ~frame.hw
  <2>1. ~player.hw /\ frame.base = scaled
    BY <1>2, <1>4 DEF FrameInv
  <2>2. bars.sw = "wide"
    BY <1>2, <2>1 DEF SeenInv
  <2> QED BY <1>4, <2>1, <2>2 DEF Painting, SwNarrow
<1> QED BY <1>3, <1>4

LEMMA CommittingShows ==
  ASSUME ScreenInv, ScreenInv', PictureInv, ReshowUntouched \/ Reuse
  PROVE  PictureInv'
<1>1. /\ frame.at = "commit"
      /\ UNCHANGED <<content, tag, out, player, heap, due, held, nv, scaled, pictures, bars, pool>>
  BY DEF ReshowUntouched, Reuse, CommitKeeps, surfaces, decoded
<1>2. PICK i \in {out.active, out.shown} :
        /\ frame' = [frame EXCEPT !.at = "flip", !.flip = i]
        /\ frame.base # Garbage => i \in Surfaces /\ Holds(content[i], [base |-> frame.base, over |-> frame.over])
        /\ ~frame.drawn => i = out.shown
        /\ i = out.active => frame.drawn /\ Asked = tag[i] /\ Asked # Unknown
  <2>1. \A i \in Surfaces : tag[i] # Unknown => Holds(content[i], tag[i])
    BY <1>1 DEF TagsAreTrue
  <2>2. out.shown # out.active /\ out.active \in Surfaces /\ out.shown \in 0 .. 3
    BY <1>1, AheadFacts DEF FrameInv, FieldsInv, OutTypes
  <2>3. frame.base # Garbage => Asked = [base |-> frame.base, over |-> frame.over]
    BY DEF Asked
  <2>4. CASE ReshowUntouched
    BY <2>2, <2>4 DEF ReshowUntouched, Flips, FrameInv
  <2>5. CASE Reuse
    <3>1. CASE Asked = tag[out.active] /\ Flips(out.active)
      BY <2>1, <2>2, <2>3, <2>5, <3>1 DEF Reuse, Flips
    <3>2. CASE Asked = OnScreen /\ Flips(out.shown)
      <4>1. out.shown # Nowhere /\ Asked = tag[out.shown] /\ Asked # Unknown
        BY <2>5, <3>2 DEF Reuse, OnScreen
      <4>2. out.shown \in Surfaces
        BY <2>2, <4>1 DEF Nowhere, Surfaces
      <4> QED BY <2>1, <2>2, <2>3, <2>5, <3>2, <4>1, <4>2 DEF Reuse, Flips
    <3> QED BY <2>5, <3>1, <3>2 DEF Reuse
  <2> QED BY <2>4, <2>5
<1>3. /\ frame'.at = "flip" /\ frame'.flip = i /\ frame'.hw = frame.hw /\ frame'.base = frame.base
      /\ frame'.drawn = frame.drawn /\ frame'.over = frame.over /\ FrameTypes'
  <2>1. i \in 0 .. 3 /\ "flip" \in FrameStages
    BY DEF FieldsInv, OutTypes, Surfaces, FrameStages
  <2> QED BY <1>2, <2>1 DEF FrameTypes
<1>4. ShownTypes' /\ PlayerTypes' /\ MemoryTypes' /\ MemoryInv' /\ NumberInv'
  BY <1>1, <1>3 DEF ShownTypes, PlayerTypes, MemoryTypes, MemoryInv, NumberInv, Older
<1>5. FrameInv' /\ DrawnInv'
  BY <1>1, <1>3 DEF FrameInv, DrawnInv
<1>6. TagsAreTrue'
  BY <1>1, <1>3 DEF TagsAreTrue, Holds
<1>7. FlippedIsAsked'
  BY <1>1, <1>2, <1>3 DEF FlippedIsAsked, Holds
<1>8. SeenInv'
  BY <1>1, <1>3 DEF SeenInv, Painting, SwNarrow, Tagged, Midway
<1>9. OwedInv'
  <2>1. NextTarget = out.active /\ frame.at \notin Midway /\ frame'.at \notin Midway
    BY <1>1, <1>3 DEF NextTarget, Midway
  <2>2. bars.left \in Int /\ bars' = bars
    BY <1>1 DEF PlayerTypes
  <2>3. CASE i # out.active
    <3>1. NextTarget' = NextTarget
      BY <1>1, <1>3, <2>1, <2>3 DEF NextTarget, Midway
    <3>2. Owed => Owed'
      BY <1>1, <1>4, <2>1, <2>2, <3>1, OwedStays
    <3> QED BY <1>1, <1>3, <3>2 DEF OwedInv, Painting, SwNarrow
  <2>4. CASE i = out.active
    <3>1. NextTarget' = Next3(out.active)
      BY <1>1, <1>3, <2>4 DEF NextTarget
    <3>2. WideClean(out.active)' <=> WideClean(out.active)
      BY <1>1 DEF WideClean
    <3>3. Owed /\ ~WideClean(out.active) => Owed'
      BY <1>1, <1>4, <2>1, <2>2, <3>1, <3>2, OwedTurns
    <3>4. WideClean(out.active) => ~(Painting /\ bars.hw = "narrow") /\ ~SwNarrow
      BY <1>1, <1>2, <2>4, AheadFacts, ReusedIsSeen
    <3> QED BY <1>1, <1>3, <3>3, <3>4 DEF OwedInv, Painting, SwNarrow
  <2> QED BY <2>3, <2>4
<1> QED BY <1>3, <1>4, <1>5, <1>6, <1>7, <1>8, <1>9

LEMMA RunShows ==
  ASSUME ScreenInv, ScreenInv', PictureInv, Run
  PROVE  PictureInv'
<1> DEFINE stage == IF IsVideo(frame.base) THEN "paint" ELSE "over"
<1>1. /\ frame.at = "commit" /\ frame.drawn /\ frame' = [frame EXCEPT !.at = stage]
      /\ UNCHANGED <<tag, out, player, heap, due, held, nv, scaled, pictures, bars, pool>>
      /\ content' = IF frame.base = Menu THEN [content EXCEPT ![out.active] = Whole(Menu, <<>>, "clean")]
                    ELSE content
  BY DEF Run, decoded
<1>2. /\ frame'.at = stage /\ frame'.hw = frame.hw /\ frame'.base = frame.base /\ frame'.flip = frame.flip
      /\ frame'.drawn = frame.drawn /\ frame'.over = frame.over /\ FrameTypes'
  <2>1. stage \in FrameStages
    BY DEF FrameStages
  <2> HIDE DEF stage
  <2> QED BY <1>1, <2>1 DEF FrameTypes
<1>3. out.active \in Surfaces /\ out.shown # out.active
  BY <1>1, AheadFacts DEF FrameInv
<1>4. /\ \A j \in Surfaces \ {out.active} : content'[j] = content[j]
      /\ frame.base # Menu => content' = content
      /\ frame.base = Menu => content'[out.active] = Whole(Menu, <<>>, "clean")
      /\ ShownTypes'
  <2>1. Whole(Menu, <<>>, "clean") \in
          [band : [Painters -> Plain \cup NoVideos], over : Overlayings, bars : {"clean", "stray"}]
    <3>1. <<>> \in Overlayings /\ Menu \in NoVideos
      BY DEF Overlayings, NoVideos
    <3> QED BY <3>1 DEF Whole
  <2> HIDE DEF stage
  <2>2. content \in [Surfaces -> [band : [Painters -> Plain \cup NoVideos], over : Overlayings,
                                  bars : {"clean", "stray"}]]
    BY DEF ShownTypes
  <2>3. content' \in [Surfaces -> [band : [Painters -> Plain \cup NoVideos], over : Overlayings,
                                   bars : {"clean", "stray"}]]
    BY <1>1, <1>3, <2>1, <2>2
  <2>4. ShownTypes'
    BY <1>1, <2>3 DEF ShownTypes
  <2> QED BY <1>1, <1>3, <2>2, <2>4
<1>5. PlayerTypes' /\ MemoryTypes' /\ MemoryInv' /\ NumberInv'
  BY <1>1, <1>2 DEF PlayerTypes, MemoryTypes, MemoryInv, NumberInv, Older
<1>6. FrameInv'
  BY <1>1, <1>2, <1>3 DEF FrameInv
<1>7. \A j \in Surfaces : tag[j] # Unknown => Holds(content[j], tag[j])
  BY <1>1 DEF TagsAreTrue
<1>8. DrawnInv'
  <2>1. CASE frame.base = Menu
    <3>1. Menu # Garbage /\ Drawn(Menu) = Menu
      BY PictureFacts DEF NoVideos
    <3>2. content'[out.active].over = <<>> /\ \A w \in Painters : content'[out.active].band[w] = Menu
      BY <1>4, <2>1 DEF Whole
    <3> QED BY <1>1, <1>2, <2>1, <3>1, <3>2 DEF DrawnInv
  <2>2. CASE frame.base # Menu /\ frame.base # Garbage
    <3>1. IsVideo(frame.base)
      BY <2>2, PictureFacts DEF FrameTypes, NoVideos
    <3> QED BY <1>2, <3>1 DEF DrawnInv
  <2>3. CASE frame.base = Garbage
    <3>1. content' = content
      BY <1>4, <2>3, PictureFacts
    <3> QED BY <1>1, <1>2, <1>3, <1>7, <2>3, <3>1 DEF DrawnInv, Holds
  <2> QED BY <2>1, <2>2, <2>3
<1>9. TagsAreTrue'
  <2>1. CASE IsVideo(frame.base)
    <3>1. content' = content
      BY <1>4, <2>1, PictureFacts DEF NoVideos
    <3> QED BY <1>1, <1>7, <3>1 DEF TagsAreTrue, Holds
  <2>2. CASE ~IsVideo(frame.base)
    BY <1>1, <1>2, <1>4, <1>7, <2>2 DEF TagsAreTrue, Holds
  <2> QED BY <2>1, <2>2
<1>10. FlippedIsAsked'
  BY <1>2 DEF FlippedIsAsked
<1>11. OwedInv'
  <2>1. NextTarget = out.active /\ frame.at \notin Midway
    BY <1>1 DEF NextTarget, Midway
  <2>2. bars.left \in Int /\ bars' = bars
    BY <1>1 DEF PlayerTypes
  <2>3. CASE IsVideo(frame.base)
    <3>1. NextTarget' = NextTarget /\ frame'.at \notin Midway
      BY <1>1, <1>2, <2>1, <2>3 DEF NextTarget, Midway
    <3>2. Owed => Owed'
      BY <1>1, <1>5, <2>1, <2>2, <3>1, OwedStays
    <3> QED BY <1>1, <1>2, <3>2 DEF OwedInv, Painting, SwNarrow
  <2>4. CASE ~IsVideo(frame.base)
    <3>1. NextTarget' = Next3(out.active) /\ frame'.at \in Midway
      BY <1>1, <1>2, <2>4 DEF NextTarget, Midway
    <3>2. Owed => Owed'
      BY <1>1, <1>5, <2>1, <2>2, <3>1, OwedTurns
    <3> QED BY <1>1, <1>2, <3>2 DEF OwedInv, Painting, SwNarrow
  <2> QED BY <2>3, <2>4
<1>12. SeenInv'
  <2>1. CASE IsVideo(frame.base)
    BY <1>1, <1>2, <2>1 DEF SeenInv, Painting, SwNarrow, Tagged, Midway
  <2>2. CASE ~IsVideo(frame.base)
    <3>1. ~frame.hw
      BY <2>2 DEF FrameInv
    <3> QED BY <1>1, <1>2, <2>2, <3>1 DEF SeenInv, Painting, SwNarrow, Tagged
  <2> QED BY <2>1, <2>2
<1> QED BY <1>2, <1>4, <1>5, <1>6, <1>8, <1>9, <1>10, <1>11, <1>12

\* What is painted is the picture that the frame asks for, at the size of its tag.
LEMMA PaintFacts ==
  ASSUME PictureInv, IsVideo(frame.base)
  PROVE  /\ frame.base \in Videos /\ frame.base # Garbage /\ Shows \in Plain
         /\ Shows = Drawn(frame.base) /\ Wide = frame.base.wide /\ Wide \in BOOLEAN
         /\ frame.hw => held # Nowhere /\ frame.base = nv.names /\ Wide = nv.wide /\ ~IsVideo(scaled)
         /\ ~frame.hw => ~player.hw /\ frame.base = scaled /\ Wide = scaled.wide
<1>1. frame.base \in Videos /\ frame.base # Garbage /\ frame.hw \in BOOLEAN
  BY PictureFacts DEF FrameTypes, NoVideos
<1>2. frame.base.wide \in BOOLEAN
  BY <1>1 DEF Videos
<1>3. CASE frame.hw
  <2>1. held # Nowhere /\ frame.base = nv.names /\ nv.addr = held
    BY <1>3 DEF FrameInv, MemoryInv
  <2>2. Drawn(nv.names) = Picture(heap[nv.addr].n, nv.wide) /\ nv.names \in Videos
    BY <2>1 DEF MemoryInv
  <2>3. nv.wide = nv.names.wide
    <3>1. Picture(heap[nv.addr].n, nv.wide).wide = nv.wide
      BY DEF Picture
    <3> QED BY <2>2, <3>1, PictureFacts
  <2>4. scaled = Garbage /\ ~IsVideo(scaled)
    BY <1>3, PictureFacts DEF MemoryInv, NoVideos
  <2>5. Shows = Drawn(frame.base) /\ Wide = nv.wide
    BY <1>3, <2>1, <2>2 DEF Shows, Wide
  <2> QED BY <1>1, <1>2, <1>3, <2>1, <2>3, <2>4, <2>5, PictureFacts
<1>4. CASE ~frame.hw
  <2>1. ~player.hw /\ frame.base = scaled
    BY <1>4 DEF FrameInv
  <2>2. scaled \in Plain /\ Drawn(scaled) = scaled
    BY <1>1, <2>1, PictureFacts DEF MemoryTypes
  <2>3. Shows = Drawn(frame.base) /\ Wide = scaled.wide
    BY <1>4, <2>1, <2>2 DEF Shows, Wide
  <2> QED BY <1>1, <1>2, <1>4, <2>1, <2>2, <2>3
<1> QED BY <1>3, <1>4

\* The bars before the picture is painted: as they are, or to be cleared in all surfaces.
Counter == IF frame.hw THEN BarsHw(Wide) ELSE BarsSw(Wide)
Bars == [left : 0 .. 4, hw : Sizes, sw : Sizes, skew : BOOLEAN]
LEMMA CounterFacts ==
  ASSUME PlayerTypes, frame.hw \in BOOLEAN, Wide \in BOOLEAN
  PROVE  /\ bars \in Bars /\ Counter \in Bars
         /\ frame.hw => /\ Counter.hw = Size(Wide) /\ Counter.sw = bars.sw /\ Counter.skew = bars.skew
                        /\ (Counter = bars /\ bars.hw = Size(Wide)) \/ Counter.left = 4
         /\ ~frame.hw => /\ Counter.sw = Size(Wide) /\ Counter.hw = bars.hw
                         /\ \/ Counter = bars /\ bars.sw = Size(Wide)
                            \/ Counter.skew = FALSE /\ (Wide \/ Counter.left = 4)
<1>1. bars \in Bars /\ Size(Wide) \in Sizes
  BY DEF PlayerTypes, Bars, Size, Sizes
<1>2. CASE frame.hw
  <2>1. CASE bars.hw = Size(Wide)
    BY <1>1, <1>2, <2>1 DEF Counter, BarsHw
  <2>2. CASE bars.hw # Size(Wide)
    <3>1. Counter = [bars EXCEPT !.hw = Size(Wide), !.left = 4]
      BY <1>2, <2>2 DEF Counter, BarsHw
    <3>2. Counter = [left |-> 4, hw |-> Size(Wide), sw |-> bars.sw, skew |-> bars.skew]
      BY <1>1, <3>1 DEF Bars
    <3> QED BY <1>1, <1>2, <3>2 DEF Bars
  <2> QED BY <2>1, <2>2
<1>3. CASE ~frame.hw
  <2>1. CASE bars.sw = Size(Wide)
    BY <1>1, <1>3, <2>1 DEF Counter, BarsSw
  <2>2. CASE bars.sw # Size(Wide)
    <3>1. Counter = [bars EXCEPT !.sw = Size(Wide), !.left = IF Wide THEN 0 ELSE 4, !.skew = FALSE]
      BY <1>3, <2>2 DEF Counter, BarsSw
    <3> DEFINE left == IF Wide THEN 0 ELSE 4
    <3>2. left \in 0 .. 4 /\ (Wide \/ left = 4)
      OBVIOUS
    <3> HIDE DEF left
    <3>3. Counter = [left |-> left, hw |-> bars.hw, sw |-> Size(Wide), skew |-> FALSE]
      BY <1>1, <3>1 DEF Bars, left
    <3>4. Counter \in Bars /\ Counter.sw = Size(Wide) /\ Counter.hw = bars.hw
          /\ Counter.skew = FALSE /\ Counter.left = left
      BY <1>1, <3>2, <3>3 DEF Bars
    <3> QED BY <1>1, <1>3, <3>2, <3>4
  <2> QED BY <2>1, <2>2
<1> QED BY <1>1, <1>2, <1>3

\* A picture that is not as wide as the screen never keeps what a wider one has left.
LEMMA BarsAreClean ==
  ASSUME ScreenInv, PictureInv, frame.at = "paint"
  PROVE  After(Wide, Counter.left > 0 \/ ~CleanTarget) \in {"clean", "stray"}
<1> DEFINE t == out.active
           old == content[t]
           clears == Counter.left > 0 \/ ~CleanTarget
<1>1. IsVideo(frame.base) /\ frame.hw \in BOOLEAN /\ t \in Surfaces
  BY AheadFacts DEF FrameInv, FrameTypes
<1>2. SUFFICES ASSUME ~Wide, ~clears, ~(~frame.hw /\ bars.skew)
               PROVE  /\ old.over = <<>> /\ \A w \in Painters : IsVideo(old.band[w]) /\ ~old.band[w].wide
                      /\ old.bars \in {"clean", "stray"}
  <2> DEFINE narrow == old.over = <<>> /\ \A w \in Painters : IsVideo(old.band[w]) /\ ~old.band[w].wide
             stray == ~frame.hw /\ bars.skew
  <2>1. After(Wide, clears) = IF Wide \/ clears THEN "clean"
                              ELSE IF narrow THEN old.bars ELSE IF stray THEN "stray" ELSE "dirty"
    BY DEF After
  <2>2. ~Wide /\ ~clears /\ ~stray => narrow /\ old.bars \in {"clean", "stray"}
    BY <1>2
  <2>3. old.bars \in {"clean", "stray"}
    BY <1>1 DEF ShownTypes
  <2> HIDE DEF narrow, stray, old, clears
  <2>4. After(Wide, clears) \in {"clean", "stray"}
    BY <2>1, <2>2, <2>3
  <2> QED BY <2>4 DEF clears
<1>3. IsVideo(tag[t].base) /\ tag[t].over = <<>> /\ Counter.left = 0 /\ Counter \in Bars /\ bars \in Bars
  BY <1>1, <1>2, CounterFacts, PaintFacts DEF CleanTarget, Bars
<1>4. tag[t] # Unknown /\ tag[t].base \in Videos
  BY <1>1, <1>3, PictureFacts DEF Unknown, ShownTypes, NoVideos
<1>5. old.over = <<>> /\ (\A w \in Painters : old.band[w] = Drawn(tag[t].base))
      /\ old.bars \in {"clean", "stray"}
  BY <1>1, <1>3, <1>4 DEF TagsAreTrue, Holds, Drawn, ShownTypes
<1>6. ~tag[t].base.wide
  <2>1. SUFFICES ASSUME tag[t].base.wide PROVE FALSE
    OBVIOUS
  <2>2. WideClean(t) /\ t \in Surfaces
    BY <1>1, <1>3, <2>1 DEF WideClean
  <2>3. NextTarget = t /\ Ahead(t) = 0
    BY <1>1, AheadFacts DEF NextTarget, Midway
  <2>4. ~Owed
    <3>1. ASSUME Owed PROVE bars.left > 0
      BY <2>2, <2>3, <3>1 DEF Owed, Midway
    <3>2. Counter = bars \/ Counter.left = 4
      BY <1>1, <1>2, CounterFacts, PaintFacts
    <3> QED BY <1>3, <3>1, <3>2 DEF Bars
  <2>5. CASE frame.hw
    <3>1. bars.hw = "narrow"
      BY <1>1, <1>2, <1>3, <2>5, CounterFacts, PaintFacts DEF Size
    <3> QED BY <2>4, <2>5, <3>1 DEF OwedInv, Painting
  <2>6. CASE ~frame.hw
    <3>1. Wide \in BOOLEAN /\ Counter.left # 4 /\ Size(Wide) = "narrow"
      BY <1>1, <1>2, <1>3, PaintFacts DEF Size
    <3>2. Counter = bars /\ bars.sw = Size(Wide)
      BY <1>1, <1>2, <2>6, <3>1, CounterFacts
    <3>3. bars.sw = "narrow"
      BY <3>1, <3>2
    <3> QED BY <1>2, <2>4, <2>6, <3>3 DEF OwedInv, SwNarrow
  <2> QED BY <1>1, <2>5, <2>6
<1>7. IsVideo(Drawn(tag[t].base)) /\ ~Drawn(tag[t].base).wide
  BY <1>4, <1>6, PictureFacts
<1> QED BY <1>5, <1>7

LEMMA PaintShows ==
  ASSUME ScreenInv, ScreenInv', PictureInv, Paint
  PROVE  PictureInv'
<1> DEFINE t == out.active
           clears == Counter.left > 0 \/ ~CleanTarget
           whole == Whole(Shows, <<>>, After(Wide, clears))
           left == IF Counter.left > 0 THEN Counter.left - 1 ELSE 0
<1>1. /\ frame.at = "paint" /\ UNCHANGED <<tag, out, player, heap, due, held, nv, scaled, pictures>>
      /\ bars' = Skews([Counter EXCEPT !.left = left])
      /\ \/ /\ frame.hw /\ pool.up
            /\ content' = [content EXCEPT ![t] = [whole EXCEPT !.band = content[t].band]]
            /\ pool' = [pool EXCEPT !.to = t, !.fresh = Painters, !.done = 0]
            /\ frame' = [frame EXCEPT !.at = "bands"]
         \/ /\ content' = [content EXCEPT ![t] = whole] /\ frame' = [frame EXCEPT !.at = "over"]
  <2> HIDE DEF left, whole, clears
  <2>1. /\ frame.at = "paint" /\ UNCHANGED <<tag, out, player, heap, due, held, nv, scaled, pictures>>
    BY DEF Paint, decoded
  <2> QED BY <2>1 DEF Paint, Counter, left, whole, clears
<1>2. IsVideo(frame.base) /\ frame.drawn /\ frame.hw \in BOOLEAN /\ t \in Surfaces /\ out.shown # t
  BY <1>1, AheadFacts DEF FrameInv, FrameTypes
<1>3. /\ frame'.at \in {"bands", "over"} /\ frame'.hw = frame.hw /\ frame'.base = frame.base
      /\ frame'.drawn = frame.drawn /\ frame'.over = frame.over /\ frame'.flip = frame.flip /\ FrameTypes'
  BY <1>1 DEF FrameTypes, FrameStages
<1>4. /\ frame.base \in Videos /\ frame.base # Garbage /\ Shows \in Plain /\ Shows = Drawn(frame.base)
      /\ Wide = frame.base.wide /\ Wide \in BOOLEAN
  BY <1>2, PaintFacts
<1>5. /\ \A j \in Surfaces \ {t} : content'[j] = content[j]
      /\ content'[t].over = <<>> /\ (frame'.at = "over" => \A w \in Painters : content'[t].band[w] = Shows)
      /\ ShownTypes'
  <2> DEFINE C == [band : [Painters -> Plain \cup NoVideos], over : Overlayings, bars : {"clean", "stray"}]
  <2>1. content \in [Surfaces -> C]
    BY DEF ShownTypes
  <2>2. whole \in C /\ whole.over = <<>> /\ (\A w \in Painters : whole.band[w] = Shows)
        /\ whole = [band |-> [w \in Painters |-> Shows], over |-> <<>>, bars |-> After(Wide, clears)]
    <3>1. After(Wide, clears) \in {"clean", "stray"} /\ <<>> \in Overlayings
      BY <1>1, BarsAreClean DEF Overlayings
    <3> HIDE DEF clears
    <3>2. whole = [band |-> [w \in Painters |-> Shows], over |-> <<>>, bars |-> After(Wide, clears)]
      BY DEF Whole
    <3> QED BY <1>4, <3>1, <3>2
  <2>3. CASE content' = [content EXCEPT ![t] = whole] /\ frame' = [frame EXCEPT !.at = "over"]
    <3> HIDE DEF whole, C
    <3>1. content' \in [Surfaces -> C] /\ content'[t] = whole
      BY <1>2, <2>1, <2>2, <2>3
    <3> QED BY <1>1, <1>2, <2>1, <2>2, <2>3, <3>1 DEF ShownTypes, C
  <2>4. CASE content' = [content EXCEPT ![t] = [whole EXCEPT !.band = content[t].band]]
             /\ frame' = [frame EXCEPT !.at = "bands"]
    <3> DEFINE part == [whole EXCEPT !.band = content[t].band]
    <3>1. content[t].band \in [Painters -> Plain \cup NoVideos]
      BY <1>2, <2>1
    <3>2. part \in C /\ part.over = <<>>
      BY <2>2, <3>1
    <3> HIDE DEF whole, C, part
    <3>3. content' = [content EXCEPT ![t] = part]
      BY <2>4 DEF part
    <3>4. content' \in [Surfaces -> C] /\ content'[t] = part
      BY <1>2, <2>1, <3>2, <3>3
    <3>5. frame'.at = "bands"
      BY <2>4 DEF FrameTypes
    <3> QED BY <1>1, <1>2, <2>1, <3>2, <3>3, <3>4, <3>5 DEF ShownTypes, C
  <2> HIDE DEF whole
  <2> QED BY <1>1, <2>3, <2>4
<1>6. /\ bars' \in Bars /\ bars'.left = left /\ bars'.hw = Counter.hw /\ bars'.sw = Counter.sw
      /\ bars'.skew = (Counter.skew \/ (frame.hw /\ nv.wide /\ Counter.sw = "narrow"))
      /\ Counter.left \in 0 .. 4
  <2>1. Counter \in Bars
    BY <1>2, <1>4, CounterFacts
  <2>2. left \in 0 .. 4
    BY <2>1 DEF Bars
  <2> HIDE DEF left
  <2>3. [Counter EXCEPT !.left = left] = [left |-> left, hw |-> Counter.hw, sw |-> Counter.sw, skew |-> Counter.skew]
    BY <2>1 DEF Bars
  <2> DEFINE skewed == (Counter.skew \/ (frame.hw /\ nv.wide /\ Counter.sw = "narrow"))
  <2>4. bars' = [left |-> left, hw |-> Counter.hw, sw |-> Counter.sw, skew |-> skewed]
    BY <1>1, <2>3 DEF Skews
  <2>5. skewed \in BOOLEAN
    OBVIOUS
  <2> HIDE DEF skewed
  <2>6. bars' \in Bars /\ bars'.left = left /\ bars'.hw = Counter.hw /\ bars'.sw = Counter.sw
        /\ bars'.skew = skewed
    BY <2>1, <2>2, <2>4, <2>5 DEF Bars
  <2> QED BY <2>1, <2>6 DEF skewed, Bars
<1> HIDE DEF whole, clears
<1>7. PlayerTypes' /\ MemoryTypes' /\ MemoryInv' /\ NumberInv'
  BY <1>1, <1>3, <1>6 DEF PlayerTypes, MemoryTypes, MemoryInv, NumberInv, Older, Bars
<1>8. FrameInv'
  BY <1>1, <1>2, <1>3 DEF FrameInv
<1>9. DrawnInv'
  <2>1. frame'.at = "bands" => pool'.fresh = Painters
    <3>1. frame'.at = "bands" => pool' = [pool EXCEPT !.to = t, !.fresh = Painters, !.done = 0]
      BY <1>1 DEF FrameTypes
    <3> QED BY <3>1 DEF FieldsInv, PoolTypes
  <2> QED BY <1>1, <1>3, <1>4, <1>5, <2>1 DEF DrawnInv
<1>10. TagsAreTrue'
  BY <1>1, <1>3, <1>5 DEF TagsAreTrue, Holds
<1>11. FlippedIsAsked'
  BY <1>3 DEF FlippedIsAsked
<1>12. SeenInv'
  <2>1. ASSUME frame.hw
        PROVE  ~IsVideo(scaled) /\ (nv.wide => bars'.hw = "wide" /\ ~(bars'.sw = "narrow" /\ ~bars'.skew))
    BY <1>2, <1>4, <1>6, <2>1, PaintFacts, CounterFacts DEF Size
  <2>2. ASSUME ~frame.hw
        PROVE  ~player.hw /\ (scaled.wide => bars'.sw = "wide")
    BY <1>2, <1>4, <1>6, <2>2, PaintFacts, CounterFacts DEF Size
  <2> QED BY <1>1, <1>2, <1>3, <2>1, <2>2 DEF SeenInv, Painting, SwNarrow
<1>13. OwedInv'
  <2>1. NextTarget = t /\ NextTarget' = Next3(t) /\ frame.at \notin Midway /\ frame'.at \in Midway
    BY <1>1, <1>3 DEF NextTarget, Midway
  <2>2. bars'.left >= bars.left - 1 /\ Owed => Owed'
    BY <1>1, <1>7, <2>1, OwedTurns
  <2>3. Counter.left = 4 => Owed'
    BY <1>6, <1>7, OwedAnew
  <2>4. Counter = bars => bars'.left >= bars.left - 1
    BY <1>6
  <2>5. CASE frame.hw
    <3>1. /\ Counter.hw = Size(Wide) /\ Counter.sw = bars.sw /\ Counter.skew = bars.skew
          /\ (Counter = bars /\ bars.hw = Size(Wide)) \/ Counter.left = 4
      BY <1>2, <1>4, <2>5, CounterFacts
    <3>2. Owed => Owed'
      BY <2>2, <2>3, <2>4, <3>1
    <3>3. bars'.hw = "narrow" => bars.hw = "narrow" \/ Counter.left = 4
      BY <1>6, <3>1
    <3>4. SwNarrow' => SwNarrow
      BY <1>6, <3>1 DEF SwNarrow
    <3> QED BY <2>3, <2>5, <3>2, <3>3, <3>4 DEF OwedInv, Painting
  <2>6. CASE ~frame.hw
    <3>1. ~player.hw /\ ~Painting'
      BY <1>1, <1>2, <1>3, <2>6, PaintFacts DEF Painting
    <3>2. SwNarrow' => (Counter = bars /\ SwNarrow) \/ Counter.left = 4
      <4>1. Wide => bars'.sw = "wide"
        BY <1>2, <1>4, <1>6, <2>6, CounterFacts DEF Size
      <4> QED BY <1>2, <1>4, <1>6, <2>6, <4>1, CounterFacts DEF SwNarrow
    <3> QED BY <2>2, <2>3, <2>4, <3>1, <3>2 DEF OwedInv
  <2> QED BY <1>2, <2>5, <2>6
<1> QED BY <1>3, <1>5, <1>7, <1>8, <1>9, <1>10, <1>11, <1>12, <1>13

\* The workers: whoever is done has painted the picture that the frame asks for.
LEMMA WorkersShow ==
  ASSUME ScreenInv, ScreenInv', PictureInv, NEW w \in Painters, TakeJob(w) \/ Band(w)
  PROVE  PictureInv'
<1>1. UNCHANGED <<tag, out, frame, player, heap, due, held, nv, scaled, pictures, bars>>
  BY DEF TakeJob, Band, PoolKeeps, decoded
<1>2. frame.at = "bands" /\ pool.to = out.active /\ pool \in PoolTypes /\ out.active \in Surfaces
  BY AheadFacts DEF TakeJob, Band, PoolInv, FieldsInv
<1>3. FrameTypes' /\ PlayerTypes' /\ MemoryTypes' /\ MemoryInv' /\ NumberInv' /\ FrameInv'
  BY <1>1 DEF FrameTypes, PlayerTypes, MemoryTypes, MemoryInv, NumberInv, Older, FrameInv
<1>4. SeenInv'
  BY <1>1 DEF SeenInv, Painting, SwNarrow, Tagged
<1>5. OwedInv'
  <2>1. NextTarget' = NextTarget /\ bars.left \in Int
    BY <1>1 DEF NextTarget, PlayerTypes
  <2>2. Owed => Owed'
    BY <1>1, <1>3, <2>1, OwedStays
  <2> QED BY <1>1, <2>2 DEF OwedInv, Painting, SwNarrow
<1>6. FlippedIsAsked'
  BY <1>1, <1>2 DEF FlippedIsAsked
<1>7. CASE TakeJob(w)
  <2>1. content' = content /\ pool'.fresh \cup pool'.busy = pool.fresh \cup pool.busy
    BY <1>2, <1>7 DEF TakeJob, PoolTypes
  <2>2. ShownTypes' /\ DrawnInv' /\ TagsAreTrue'
    BY <1>1, <1>2, <2>1 DEF ShownTypes, DrawnInv, TagsAreTrue, Holds
  <2> QED BY <1>3, <1>4, <1>5, <1>6, <2>2
<1>8. CASE Band(w)
  <2> DEFINE t == out.active
             C == [band : [Painters -> Plain \cup NoVideos], over : Overlayings, bars : {"clean", "stray"}]
             new == [content[t] EXCEPT !.band[w] = Shows]
  <2>1. content' = [content EXCEPT ![t] = new] /\ pool' = [pool EXCEPT !.busy = @ \ {w}, !.done = @ + 1]
    BY <1>2, <1>8 DEF Band
  <2>2. content \in [Surfaces -> C] /\ content[t] \in C
    BY <1>2 DEF ShownTypes
  <2>3. Shows \in Plain /\ Shows = Drawn(frame.base)
    BY <1>2, PaintFacts DEF FrameInv
  <2>4. new \in C /\ new.over = content[t].over /\ new.band[w] = Shows
        /\ \A v \in Painters \ {w} : new.band[v] = content[t].band[v]
    <3> HIDE DEF t
    <3> QED BY <2>2, <2>3
  <2>5. pool'.fresh \cup (pool'.busy \cup {w}) = pool.fresh \cup (pool.busy \cup {w})
    BY <1>2, <2>1 DEF PoolTypes
  <2>6. content' \in [Surfaces -> C] /\ content'[t] = new /\ \A j \in Surfaces \ {t} : content'[j] = content[j]
    <3> HIDE DEF new, C, t
    <3>1. t \in Surfaces
      BY <1>2 DEF t
    <3> QED BY <2>1, <2>2, <2>4, <3>1
  <2>7. ShownTypes'
    BY <1>1, <2>6 DEF ShownTypes
  <2> HIDE DEF new
  <2>8. DrawnInv'
    BY <1>1, <1>2, <2>3, <2>4, <2>5, <2>6 DEF DrawnInv
  <2>9. TagsAreTrue'
    BY <1>1, <1>2, <2>6 DEF TagsAreTrue, Holds
  <2> QED BY <1>3, <1>4, <1>5, <1>6, <2>7, <2>8, <2>9
<1> QED BY <1>7, <1>8

LEMMA AllBandsShow ==
  ASSUME ScreenInv, ScreenInv', PictureInv, AllBands
  PROVE  PictureInv'
<1>1. /\ frame.at = "bands" /\ frame' = [frame EXCEPT !.at = "over"]
      /\ UNCHANGED <<content, tag, out, player, heap, due, held, nv, scaled, pictures, bars, pool>>
  BY DEF AllBands, surfaces, decoded
<1>2. /\ frame'.at = "over" /\ frame'.hw = frame.hw /\ frame'.base = frame.base
      /\ frame'.drawn = frame.drawn /\ frame'.over = frame.over /\ frame'.flip = frame.flip /\ FrameTypes'
  BY <1>1 DEF FrameTypes, FrameStages
<1>3. frame.hw /\ pool.fresh = {} /\ pool.busy = {} /\ IsVideo(frame.base) /\ frame.drawn
  BY <1>1, <1>2 DEF PoolInv, FrameInv
<1>4. frame.base # Garbage
  BY <1>3, PaintFacts
<1>5. ShownTypes' /\ PlayerTypes' /\ MemoryTypes' /\ MemoryInv' /\ NumberInv' /\ FrameInv'
  BY <1>1, <1>2, <1>3 DEF ShownTypes, PlayerTypes, MemoryTypes, MemoryInv, NumberInv, Older, FrameInv
<1>6. DrawnInv'
  BY <1>1, <1>2, <1>3, <1>4 DEF DrawnInv
<1>7. TagsAreTrue' /\ FlippedIsAsked'
  BY <1>1, <1>2 DEF TagsAreTrue, FlippedIsAsked, Holds
<1>8. SeenInv'
  BY <1>1, <1>2 DEF SeenInv, Painting, SwNarrow, Tagged, Midway
<1>9. OwedInv'
  <2>1. NextTarget' = NextTarget /\ bars.left \in Int
    BY <1>1, <1>2 DEF NextTarget, PlayerTypes, Midway
  <2>2. Owed => Owed'
    BY <1>1, <1>2, <1>5, <2>1, OwedStays DEF Midway
  <2> QED BY <1>1, <1>2, <2>2 DEF OwedInv, Painting, SwNarrow
<1> QED BY <1>2, <1>5, <1>6, <1>7, <1>8, <1>9

\* The rest of the frame is drawn, and the surface is tagged with all of it.
LEMMA AskedFacts ==
  ASSUME PictureInv, frame.at = "over", out.active \in Surfaces
  PROVE  /\ Asked \in [base : Videos \cup NoVideos, over : Overlayings]
         /\ frame.base # Garbage => Asked = [base |-> frame.base, over |-> frame.over]
         /\ frame.base = Garbage =>
              \/ Asked = Unknown /\ tag[out.active] = Unknown
              \/ /\ tag[out.active] # Unknown /\ Asked.base = tag[out.active].base
                 /\ Asked.over = tag[out.active].over \o frame.over /\ Asked.over # <<>>
<1> DEFINE t == tag[out.active]
<1>1. t \in [base : Videos \cup NoVideos, over : Overlayings] /\ frame.over \in Overlayings
      /\ frame.base \in Videos \cup NoVideos
  BY DEF ShownTypes, FrameTypes
<1>2. CASE frame.base # Garbage
  <2>1. Asked = [base |-> frame.base, over |-> frame.over]
    BY <1>2 DEF Asked
  <2> QED BY <1>1, <1>2, <2>1
<1>3. CASE frame.base = Garbage /\ t = Unknown
  <2>1. Asked = Unknown
    BY <1>3 DEF Asked
  <2> QED BY <1>1, <1>3, <2>1
<1>4. CASE frame.base = Garbage /\ t # Unknown
  <2>1. frame.over # <<>>
    BY <1>4 DEF FrameInv
  <2>2. t.over \o frame.over \in Overlayings /\ t.over \o frame.over # <<>>
    <3>1. t.over \in Seq({"hud", "panel"}) /\ frame.over \in Seq({"hud", "panel"})
      BY <1>1 DEF Overlayings
    <3>2. Len(frame.over) \in Nat /\ Len(frame.over) # 0 /\ Len(t.over) \in Nat
      BY <2>1, <3>1
    <3>3. Len(t.over \o frame.over) = Len(t.over) + Len(frame.over) /\ t.over \o frame.over \in Seq({"hud", "panel"})
      BY <3>1
    <3>4. Len(t.over \o frame.over) # 0
      <4> DEFINE a == Len(t.over)
                 b == Len(frame.over)
                 c == Len(t.over \o frame.over)
      <4>1. a \in Nat /\ b \in Nat /\ b # 0 /\ c = a + b
        BY <3>2, <3>3
      <4> HIDE DEF a, b, c
      <4>2. c # 0
        BY <4>1
      <4> QED BY <4>2 DEF c
    <3>5. Len(<<>>) = 0
      OBVIOUS
    <3> QED BY <3>3, <3>4, <3>5 DEF Overlayings
  <2>3. Asked = [t EXCEPT !.over = t.over \o frame.over]
    BY <1>4 DEF Asked
  <2> DEFINE o == t.over \o frame.over
  <2> HIDE DEF t, o
  <2>4. Asked.base = t.base /\ Asked.over = o /\ Asked \in [base : Videos \cup NoVideos, over : Overlayings]
    BY <1>1, <2>2, <2>3 DEF o
  <2> QED BY <1>4, <2>2, <2>4 DEF o, t
<1> QED BY <1>2, <1>3, <1>4

LEMMA OverlayShows ==
  ASSUME ScreenInv, ScreenInv', PictureInv, Overlay
  PROVE  PictureInv'
<1> DEFINE t == out.active
           C == [band : [Painters -> Plain \cup NoVideos], over : Overlayings, bars : {"clean", "stray"}]
           o == content[t].over \o frame.over
<1>1. /\ frame.at = "over" /\ frame' = [frame EXCEPT !.at = "flip", !.flip = t]
      /\ UNCHANGED <<out, player, heap, due, held, nv, scaled, pictures, bars, pool>>
      /\ content' = [content EXCEPT ![t].over = o] /\ tag' = [tag EXCEPT ![t] = Asked]
  BY DEF Overlay, Flips, decoded
<1>2. t \in Surfaces /\ out.shown # t /\ frame.drawn
  BY <1>1, AheadFacts DEF FrameInv
<1>3. /\ frame'.at = "flip" /\ frame'.hw = frame.hw /\ frame'.base = frame.base
      /\ frame'.drawn = frame.drawn /\ frame'.over = frame.over /\ frame'.flip = t /\ FrameTypes'
  <2>1. t \in 0 .. 3
    BY <1>2 DEF Surfaces
  <2> QED BY <1>1, <2>1 DEF FrameTypes, FrameStages
<1>4. /\ content'[t].over = o /\ content'[t].band = content[t].band /\ content'[t].bars \in {"clean", "stray"}
      /\ tag'[t] = Asked
      /\ \A j \in Surfaces \ {t} : content'[j] = content[j] /\ tag'[j] = tag[j]
      /\ ShownTypes'
  <2>1. content \in [Surfaces -> C] /\ tag \in [Surfaces -> [base : Videos \cup NoVideos, over : Overlayings]]
    BY DEF ShownTypes
  <2>2. o \in Overlayings
    BY <1>2, <2>1 DEF FrameTypes, Overlayings
  <2> DEFINE new == [content[t] EXCEPT !.over = o]
  <2> HIDE DEF o
  <2>3. new \in C /\ new.over = o /\ new.band = content[t].band /\ new.bars \in {"clean", "stray"}
    BY <1>2, <2>1, <2>2
  <2>4. content' = [content EXCEPT ![t] = new]
    BY <1>1
  <2>5. Asked \in [base : Videos \cup NoVideos, over : Overlayings]
    BY <1>1, <1>2, AskedFacts
  <2> HIDE DEF new, C
  <2>6. content' \in [Surfaces -> C] /\ content'[t] = new /\ \A j \in Surfaces \ {t} : content'[j] = content[j]
    BY <1>2, <2>1, <2>3, <2>4
  <2>7. /\ tag' \in [Surfaces -> [base : Videos \cup NoVideos, over : Overlayings]] /\ tag'[t] = Asked
        /\ \A j \in Surfaces \ {t} : tag'[j] = tag[j]
    BY <1>1, <1>2, <2>1, <2>5
  <2> QED BY <2>3, <2>6, <2>7 DEF ShownTypes, C
<1>5. PlayerTypes' /\ MemoryTypes' /\ MemoryInv'
  BY <1>1, <1>3 DEF PlayerTypes, MemoryTypes, MemoryInv
<1>6. FrameInv' /\ DrawnInv'
  BY <1>1, <1>2, <1>3 DEF FrameInv, DrawnInv
<1>7. frame.base # Garbage => Holds(content'[t], [base |-> frame.base, over |-> frame.over])
  <2>1. SUFFICES ASSUME frame.base # Garbage PROVE Holds(content'[t], [base |-> frame.base, over |-> frame.over])
    OBVIOUS
  <2>2. content[t].over = <<>> /\ \A w \in Painters : content[t].band[w] = Drawn(frame.base)
    BY <1>1, <2>1 DEF DrawnInv
  <2>3. o = frame.over
    BY <2>2 DEF FrameTypes, Overlayings
  <2> HIDE DEF o
  <2> QED BY <1>4, <2>2, <2>3 DEF Holds, Drawn
<1>8. tag'[t] # Unknown => Holds(content'[t], tag'[t])
  <2>1. CASE frame.base # Garbage
    BY <1>1, <1>2, <1>4, <1>7, <2>1, AskedFacts
  <2>2. CASE frame.base = Garbage
    <3>1. SUFFICES ASSUME tag'[t] # Unknown PROVE Holds(content'[t], tag'[t])
      OBVIOUS
    <3>2. /\ tag[t] # Unknown /\ tag'[t].base = tag[t].base
          /\ tag'[t].over = tag[t].over \o frame.over
      BY <1>1, <1>2, <1>4, <2>2, <3>1, AskedFacts
    <3>3. Holds(content[t], tag[t])
      BY <1>1, <2>2, <3>2 DEF DrawnInv
    <3> QED BY <1>4, <3>2, <3>3 DEF Holds
  <2> QED BY <2>1, <2>2
<1> HIDE DEF o
<1>9. TagsAreTrue'
  <2>1. ASSUME NEW j \in Surfaces, tag'[j] # Unknown
        PROVE  Holds(content'[j], tag'[j])
    <3>1. CASE j = t
      BY <1>8, <2>1, <3>1
    <3>2. CASE j # t
      <4>1. content'[j] = content[j] /\ tag'[j] = tag[j]
        BY <1>4, <3>2
      <4>2. Holds(content[j], tag[j])
        BY <2>1, <3>2, <4>1 DEF TagsAreTrue
      <4> QED BY <4>1, <4>2
    <3> QED BY <3>1, <3>2
  <2> QED BY <2>1 DEF TagsAreTrue, Holds
<1>10. FlippedIsAsked'
  BY <1>2, <1>3, <1>7 DEF FlippedIsAsked, Holds
<1>11. \/ Asked.base = frame.base
       \/ Asked.base = tag[t].base /\ ~(IsVideo(Asked.base) /\ Asked.over = <<>>)
  <2>1. ~IsVideo(Unknown.base) /\ (tag[t] = Unknown => Unknown.base = tag[t].base)
    BY PictureFacts DEF Unknown, NoVideos
  <2>2. CASE frame.base # Garbage
    <3>1. Asked = [base |-> frame.base, over |-> frame.over]
      BY <1>1, <1>2, <2>2, AskedFacts
    <3>2. Asked.base = frame.base
      BY <3>1
    <3> QED BY <3>2
  <2>3. CASE frame.base = Garbage
    <3>1. \/ Asked = Unknown /\ tag[t] = Unknown
          \/ Asked.base = tag[t].base /\ Asked.over # <<>>
      BY <1>1, <1>2, <2>3, AskedFacts
    <3> HIDE DEF t
    <3> QED BY <2>1, <3>1
  <2> QED BY <2>2, <2>3
<1>12. NumberInv'
  <2>1. Older(frame.base)
    <3>1. CASE IsVideo(frame.base)
      BY <3>1, PaintFacts DEF NumberInv
    <3>2. CASE ~IsVideo(frame.base)
      <4>1. frame.base.n \in Int /\ frame.base.n < 1
        BY <3>2, PictureFacts DEF FrameTypes
      <4>2. pictures \in Nat /\ (due # Nowhere => pictures \in Nat \ {0})
        BY DEF MemoryTypes, MemoryInv, Plain
      <4> QED BY <4>1, <4>2 DEF Older
    <3> QED BY <3>1, <3>2
  <2>2. Older(Asked.base)
    BY <1>2, <1>11, <2>1 DEF NumberInv
  <2> QED BY <1>1, <1>4, <2>2 DEF NumberInv, Older
<1>13. OwedInv'
  <2>1. NextTarget' = Next3(t) /\ NextTarget = Next3(t) /\ bars.left \in Int /\ frame.at \in Midway
    BY <1>1, <1>3 DEF NextTarget, Midway, PlayerTypes
  <2>2. WideClean(t)' => ~(Painting /\ bars.hw = "narrow") /\ ~SwNarrow
    <3>1. SUFFICES ASSUME WideClean(t)' PROVE ~(Painting /\ bars.hw = "narrow") /\ ~SwNarrow
      OBVIOUS
    <3>2. IsVideo(frame.base) /\ frame.base.wide
      BY <1>1, <1>4, <1>11, <3>1 DEF WideClean
    <3>3. CASE frame.hw
      <4>1. held # Nowhere /\ nv.wide
        BY <3>2, <3>3, PaintFacts
      <4> QED BY <2>1, <3>3, <4>1 DEF SeenInv, Painting
    <3>4. CASE ~frame.hw
      <4>1. ~player.hw /\ frame.base = scaled
        BY <3>2, <3>4 DEF FrameInv
      <4>2. bars.sw = "wide"
        BY <2>1, <3>2, <4>1 DEF SeenInv
      <4> QED BY <3>4, <4>1, <4>2 DEF Painting, SwNarrow
    <3> QED BY <3>3, <3>4
  <2>3. Owed /\ ~WideClean(t)' => Owed'
    <3>1. SUFFICES ASSUME Owed, ~WideClean(t)' PROVE Owed'
      OBVIOUS
    <3>2. \A j \in Surfaces : Ahead(j)' = Ahead(j)
      BY <2>1 DEF Ahead
    <3>3. \A j \in Surfaces \ {t} : WideClean(j)' = WideClean(j)
      BY <1>4 DEF WideClean
    <3>4. ASSUME NEW j \in Surfaces, WideClean(j)'
          PROVE  bars'.left > Ahead(j)'
      <4>1. j # t
        BY <1>1, <3>1, <3>4
      <4>2. WideClean(j)
        BY <3>3, <3>4, <4>1
      <4> QED BY <1>1, <3>1, <3>2, <4>1, <4>2 DEF Owed
    <3> QED BY <3>4 DEF Owed
  <2> QED BY <1>1, <1>3, <2>2, <2>3 DEF OwedInv, Painting, SwNarrow
<1>14. SeenInv'
  <2>1. \A p \in Videos : Tagged(p)' => Tagged(p) \/ frame.base = p
    <3>1. SUFFICES ASSUME NEW p \in Videos, NEW j \in Surfaces, tag'[j].base = p
                   PROVE  Tagged(p) \/ frame.base = p
      BY DEF Tagged
    <3> QED BY <1>2, <1>4, <1>11, <3>1 DEF Tagged
  <2>2. frame.at \in Midway
    BY <1>1 DEF Midway
  <2>3. ASSUME Painting', held # Nowhere, nv.wide, Tagged(nv.names)'
        PROVE  bars.hw = "wide" /\ ~SwNarrow
    <3>1. nv.names \in Videos /\ Painting /\ IsVideo(nv.names)
      BY <1>1, <1>3, <2>3, PictureFacts DEF MemoryInv, Painting
    <3>2. Tagged(nv.names) \/ frame.base = nv.names
      BY <1>1, <2>1, <2>3, <3>1 DEF Tagged
    <3>3. frame.base = nv.names => frame.hw
      BY <3>1 DEF FrameInv, Painting
    <3> QED BY <2>2, <2>3, <3>1, <3>2, <3>3 DEF SeenInv
  <2>4. ASSUME IsVideo(scaled), scaled.wide, Tagged(scaled)'
        PROVE  bars.sw = "wide"
    <3>1. scaled \in Videos
      BY <2>4, PictureFacts DEF MemoryTypes, NoVideos
    <3>2. Tagged(scaled) \/ frame.base = scaled
      BY <1>1, <2>1, <2>4, <3>1 DEF Tagged
    <3> QED BY <2>2, <2>4, <3>2 DEF SeenInv
  <2>5. frame'.at \notin Midway
    BY <1>3 DEF Midway
  <2> QED BY <1>1, <2>3, <2>4, <2>5 DEF SeenInv, SwNarrow
<1> QED BY <1>3, <1>4, <1>5, <1>6, <1>9, <1>10, <1>12, <1>13, <1>14

-----------------------------------------------------------------------------
\* The flips show no other picture.
LEMMA FlipsShow ==
  ASSUME ScreenInv, ScreenInv', PictureInv, Submit \/ Retarget \/ Vsync
  PROVE  PictureInv'
<1>1. UNCHANGED <<content, tag, player, heap, due, held, nv, scaled, pictures, bars, pool>>
  BY DEF Submit, Retarget, Vsync, decoded
<1>2. out \in OutTypes /\ out.active \in Surfaces
  BY AheadFacts DEF FieldsInv
<1>3. ShownTypes' /\ PlayerTypes' /\ MemoryTypes' /\ NumberInv'
  BY <1>1 DEF ShownTypes, PlayerTypes, MemoryTypes, NumberInv, Older
<1>4. bars'.left >= bars.left
  BY <1>1 DEF PlayerTypes
<1>5. CASE Vsync
  <2>1. frame' = frame /\ out'.active = out.active /\ out'.shown = out.shown
    BY <1>2, <1>5 DEF Vsync, OutTypes
  <2>2. FrameTypes' /\ MemoryInv' /\ FrameInv' /\ DrawnInv' /\ SeenInv'
    BY <1>1, <2>1 DEF FrameTypes, MemoryInv, FrameInv, DrawnInv, SeenInv, Painting, SwNarrow, Tagged, Holds
  <2>3. TagsAreTrue' /\ FlippedIsAsked'
    BY <1>1, <2>1 DEF TagsAreTrue, FlippedIsAsked, Holds
  <2>4. NextTarget' = NextTarget
    BY <2>1 DEF NextTarget
  <2>5. Owed => Owed'
    BY <1>1, <1>3, <1>4, <2>1, <2>4, OwedStays
  <2>6. OwedInv'
    BY <1>1, <2>1, <2>5 DEF OwedInv, Painting, SwNarrow
  <2> QED BY <1>3, <2>2, <2>3, <2>6
<1>6. CASE Submit \/ Retarget
  <2>1. /\ frame.at \in {"flip", "wait"} /\ frame'.at \in {"wait", "top"} /\ NextTarget' = NextTarget
        /\ frame'.base = Garbage /\ frame'.drawn = FALSE /\ frame'.hw = FALSE /\ FrameTypes'
        /\ frame'.at = "top" => frame' = NoFrame
        /\ frame'.at = "wait" => frame' = [NoFrame EXCEPT !.at = "wait", !.flip = out'.shown]
        /\ frame'.at # "wait" => out'.shown # out'.active
    <3>1. NoFrame \in [at : FrameStages, base : Videos \cup NoVideos, over : Overlayings, drawn : BOOLEAN,
                       hw : BOOLEAN, flip : 0 .. 3]
      BY DEF NoFrame, NoVideos, FrameStages, Overlayings, Nowhere
    <3>2. CASE Submit
      <4>1. /\ frame.at = "flip" /\ frame' = [NoFrame EXCEPT !.at = "wait", !.flip = frame.flip]
            /\ out'.active = out.active /\ out'.shown = frame.flip
        BY <1>2, <3>2 DEF Submit, OutTypes
      <4>2. /\ frame'.at = "wait" /\ frame'.flip = frame.flip /\ frame'.base = Garbage
            /\ frame'.drawn = FALSE /\ frame'.hw = FALSE
        BY <4>1 DEF NoFrame
      <4>3. FrameTypes'
        <5>1. frame.flip \in 0 .. 3 /\ "wait" \in FrameStages
          BY DEF FieldsInv, FrameStages
        <5> QED BY <3>1, <4>1, <5>1 DEF FrameTypes
      <4>4. NextTarget' = NextTarget
        BY <4>1, <4>2 DEF NextTarget, Midway
      <4> QED BY <4>1, <4>2, <4>3, <4>4
    <3>3. CASE Retarget
      <4>1. /\ frame.at = "wait" /\ frame' = NoFrame /\ out'.active = TargetNext /\ out'.shown = out.shown
        BY <1>2, <3>3 DEF Retarget, OutTypes
      <4>2. frame = [NoFrame EXCEPT !.at = "wait", !.flip = out.shown]
        BY <4>1 DEF FrameInv
      <4>3. frame.flip = out.shown
        BY <4>2 DEF NoFrame
      <4>4. frame'.at = "top" /\ frame'.base = Garbage /\ frame'.drawn = FALSE /\ frame'.hw = FALSE
        BY <4>1 DEF NoFrame
      <4>5. TargetNext # frame.flip /\ NextTarget' = TargetNext /\ NextTarget = TargetNext
        BY <1>2, <4>1, <4>4, TurnFacts DEF TargetNext, NextTarget, Midway
      <4> QED BY <3>1, <4>1, <4>3, <4>4, <4>5 DEF FrameTypes
    <3> QED BY <1>6, <3>2, <3>3
  <2>2. ~IsVideo(Garbage)
    BY PictureFacts DEF NoVideos
  <2>3. MemoryInv'
    BY <1>1, <2>1 DEF MemoryInv
  <2>4. FrameInv' /\ DrawnInv'
    BY <1>1, <2>1, <2>2 DEF FrameInv, DrawnInv
  <2>5. TagsAreTrue' /\ FlippedIsAsked'
    BY <1>1, <2>1 DEF TagsAreTrue, FlippedIsAsked, Holds
  <2>6. SeenInv'
    BY <1>1, <2>1 DEF SeenInv, Painting, SwNarrow, Tagged, Midway
  <2>7. Owed => Owed'
    BY <1>1, <1>3, <1>4, <2>1, OwedStays DEF Midway
  <2>8. OwedInv'
    BY <1>1, <2>1, <2>7 DEF OwedInv, Painting, SwNarrow
  <2> QED BY <1>3, <2>1, <2>3, <2>4, <2>5, <2>6, <2>8
<1> QED BY <1>5, <1>6

-----------------------------------------------------------------------------
LEMMA PictureInitially == ASSUME ScreenInit PROVE PictureInv
<1>1. /\ content = [i \in Surfaces |-> Whole(Garbage, <<>>, "clean")] /\ tag = [i \in Surfaces |-> Unknown]
      /\ out.active = 0 /\ out.shown = Nowhere /\ frame = NoFrame
      /\ player = [at |-> "idle", started |-> FALSE, hw |-> FALSE, wide |-> TRUE, drew |-> FALSE]
      /\ heap = [a \in Frames |-> Garbage] /\ due = Nowhere /\ held = Nowhere
      /\ nv = NoPicture /\ scaled = Garbage /\ pictures = 0
      /\ bars = [left |-> 0, hw |-> "none", sw |-> "none", skew |-> FALSE]
  BY DEF ScreenInit
<1>2. <<>> \in Overlayings /\ Garbage \in NoVideos /\ ~IsVideo(Garbage) /\ Garbage.n \in Int /\ Garbage.n < 1
  BY PictureFacts DEF Overlayings, NoVideos
<1>3. ShownTypes
  BY <1>1, <1>2 DEF ShownTypes, Whole, Unknown
<1>4. FrameTypes /\ PlayerTypes /\ MemoryTypes
  BY <1>1, <1>2 DEF FrameTypes, PlayerTypes, MemoryTypes, NoFrame, NoPicture, FrameStages, Sizes, Nowhere
<1>5. MemoryInv /\ NumberInv
  <2>1. nv.addr = Nowhere /\ nv.names = Garbage /\ \A i \in Surfaces : tag[i].base = Garbage
    BY <1>1 DEF NoPicture, Unknown
  <2>2. frame.hw = FALSE /\ player.hw = FALSE /\ player.at = "idle"
    BY <1>1 DEF NoFrame
  <2> QED BY <1>1, <1>2, <2>1, <2>2 DEF MemoryInv, NumberInv, Older
<1>6. frame.at = "top" /\ frame.hw = FALSE /\ frame.base = Garbage /\ frame.drawn = FALSE
  BY <1>1 DEF NoFrame
<1>7. FrameInv /\ DrawnInv
  BY <1>1, <1>2, <1>6 DEF FrameInv, DrawnInv, Nowhere
<1>8. OwedInv /\ SeenInv
  BY <1>1, <1>2 DEF OwedInv, SeenInv, SwNarrow
<1>9. TagsAreTrue /\ FlippedIsAsked
  BY <1>1, <1>6 DEF TagsAreTrue, FlippedIsAsked
<1> QED BY <1>3, <1>4, <1>5, <1>7, <1>8, <1>9

LEMMA PictureStep ==
  ASSUME ScreenInv, PictureInv, [ScreenNext]_screenVars
  PROVE  PictureInv'
<1>1. ScreenInv'
  BY ScreenStep
<1>2. CASE ScreenNext
  BY <1>1, <1>2, ElsewhereShows, ComposingShows, CommittingShows, RunShows, PaintShows, WorkersShow,
     AllBandsShow, OverlayShows, FlipsShow DEF ScreenNext, Presenting
<1>3. CASE UNCHANGED screenVars
  <2>1. UNCHANGED <<content, tag, out, frame, player, heap, due, held, nv, scaled, bars, pool, pictures>>
    BY <1>3 DEF screenVars
  <2>2. ShownTypes' /\ FrameTypes' /\ PlayerTypes' /\ MemoryTypes'
    BY <2>1 DEF ShownTypes, FrameTypes, PlayerTypes, MemoryTypes
  <2>3. MemoryInv' /\ NumberInv' /\ FrameInv' /\ DrawnInv'
    BY <2>1 DEF MemoryInv, NumberInv, Older, FrameInv, DrawnInv, Holds
  <2>4. OwedInv' /\ SeenInv'
    BY <2>1 DEF OwedInv, SeenInv, Owed, Ahead, NextTarget, WideClean, Painting, SwNarrow, Tagged
  <2>5. TagsAreTrue' /\ FlippedIsAsked'
    BY <2>1 DEF TagsAreTrue, FlippedIsAsked, Holds
  <2> QED BY <2>2, <2>3, <2>4, <2>5
<1> QED BY <1>2, <1>3

\* What every surface is said to hold is what it holds, whole and without the bars of an
\* older picture, and what is flipped is what was asked for.
THEOREM PicturesShown == ScreenSpec => []PicturesAreTrue
<1>1. PictureInv => PicturesAreTrue
  BY DEF PicturesAreTrue
<1> HIDE DEF ScreenInv, PictureInv
<1>2. ScreenInit => ScreenInv /\ PictureInv
  BY ScreenInitially, PictureInitially
<1>3. ScreenInv /\ PictureInv /\ [ScreenNext]_screenVars => ScreenInv' /\ PictureInv'
  BY ScreenStep, PictureStep
<1> QED BY <1>1, <1>2, <1>3, PTL DEF ScreenSpec

-----------------------------------------------------------------------------
(* The reorder buffer.                                                       *)

\* A picture is behind one that has been handed on; more than o pictures with a later stamp
\* were coded before it.
Behind(e, p) == e # NoStamp /\ p.pts < e
Overtaken(p, c, o) == Cardinality({i \in 1 .. p.n - 1 : c[i] > p.pts}) > o

\* The pictures held back (r) and lost (l), the last stamp handed on (e) and all of them
\* (gone), what was coded (c), and the window now (w) and at the opening (o).
Pictured(r, l, c) ==
  /\ IsFiniteSet(r) /\ IsFiniteSet(l) /\ r \cap l = {} /\ c \in Seq(Stamps)
  /\ \A p \in r \cup l : p.n \in 1 .. Len(c) /\ p = [n |-> p.n, pts |-> c[p.n]]
HandedOn(e, gone) ==
  /\ e \in Stamps \cup {NoStamp} /\ gone \in Seq(Stamps)
  /\ \A i, j \in 1 .. Len(gone) : i < j => gone[i] <= gone[j]
  /\ \A i \in 1 .. Len(gone) : e # NoStamp /\ gone[i] <= e
Losses(r, l, e, c, w, o) ==
  /\ \A p \in l : Overtaken(p, c, o)
  /\ \A p \in r : Behind(e, p) => Overtaken(p, c, o)
  /\ w < RoCap - 1 => Cardinality(l) + Cardinality({p \in r : Behind(e, p)}) <= w - o
Windows(w, o) == o \in 0 .. RoCap - 1 /\ w \in o .. RoCap - 1
Counted(r, l, gone, c) == Cardinality(r) + Cardinality(l) + Len(gone) = Len(c)

\* While pictures arrive: more than a window of them have the last stamp or a later one.
Led(e, c, o) == e # NoStamp => Cardinality({i \in 1 .. Len(c) : c[i] >= e}) > o

ReorderInv ==
  /\ Pictured(ro, late, coded) /\ HandedOn(lastEmit, rendered)
  /\ Losses(ro, late, lastEmit, coded, window, opened) /\ Windows(window, opened)
  /\ Counted(ro, late, rendered, coded) /\ Cardinality(ro) <= window
  /\ mode \in {"hw", "drain", "sw"}
  /\ mode = "hw" => Led(lastEmit, coded, opened)
  /\ mode = "sw" => /\ ro = {} /\ late = {} /\ rendered = <<>> /\ coded = <<>>
                    /\ lastEmit = NoStamp

LEMMA StampFacts == RoCap \in Nat /\ Floor \in 0 .. RoCap - 1 /\ NoStamp = -1 /\ \A s \in Stamps : s \in Nat
BY ReorderAssumption DEF NoStamp

\* Of what was coded before a picture, what comes after it says nothing.
LEMMA OvertakenStays ==
  ASSUME NEW c \in Seq(Stamps), NEW s \in Stamps, NEW p, NEW o, p.n \in 1 .. Len(c)
  PROVE  Overtaken(p, Append(c, s), o) <=> Overtaken(p, c, o)
<1>1. \A i \in 1 .. Len(c) : Append(c, s)[i] = c[i]
  BY AppendProperties
<1>2. Len(c) \in Nat
  BY LenProperties
<1>3. \A i \in 1 .. p.n - 1 : i \in 1 .. Len(c)
  BY <1>2
<1>4. {i \in 1 .. p.n - 1 : Append(c, s)[i] > p.pts} = {i \in 1 .. p.n - 1 : c[i] > p.pts}
  BY <1>1, <1>3
<1> QED BY <1>4 DEF Overtaken

\* The leading pictures stay in front.
LEMMA LedStays ==
  ASSUME NEW c \in Seq(Stamps), NEW s \in Stamps, NEW e, NEW o \in Nat, Led(e, c, o)
  PROVE  Led(e, Append(c, s), o)
<1> DEFINE old == {i \in 1 .. Len(c) : c[i] >= e}
           new == {i \in 1 .. Len(Append(c, s)) : Append(c, s)[i] >= e}
<1>1. /\ Len(Append(c, s)) = Len(c) + 1 /\ Len(c) \in Nat
      /\ \A i \in 1 .. Len(c) : Append(c, s)[i] = c[i]
  BY AppendProperties, LenProperties
<1>2. old \subseteq new
  <2>1. \A i \in 1 .. Len(c) : i \in 1 .. Len(Append(c, s))
    BY <1>1
  <2> QED BY <1>1, <2>1
<1>3. IsFiniteSet(new)
  <2>1. IsFiniteSet(1 .. Len(Append(c, s)))
    BY <1>1, FS_Interval
  <2> QED BY <2>1, FS_Subset
<1>4. Cardinality(old) <= Cardinality(new) /\ Cardinality(new) \in Nat /\ Cardinality(old) \in Nat
  BY <1>2, <1>3, FS_Subset, FS_CardinalityType
<1>5. e # NoStamp => Cardinality(old) > o
  BY Zenon DEF Led
<1>6. e # NoStamp => Cardinality(new) > o
  <2> HIDE DEF old, new
  <2> QED BY <1>4, <1>5
<1> QED BY <1>6, Zenon DEF Led

\* A picture that arrives behind one handed on has been overtaken by those in front.
LEMMA LedOvertake ==
  ASSUME NEW c \in Seq(Stamps), NEW s \in Stamps, NEW e \in Stamps \cup {NoStamp}, NEW o \in Nat,
         Led(e, c, o), Behind(e, [n |-> Len(c) + 1, pts |-> s])
  PROVE  Overtaken([n |-> Len(c) + 1, pts |-> s], Append(c, s), o)
<1> DEFINE before == {i \in 1 .. Len(c) + 1 - 1 : Append(c, s)[i] > s}
           led == {i \in 1 .. Len(c) : c[i] >= e}
<1>1. /\ Len(c) \in Nat /\ Len(c) + 1 - 1 = Len(c)
      /\ \A i \in 1 .. Len(c) : Append(c, s)[i] = c[i] /\ c[i] \in Stamps
  BY AppendProperties, LenProperties
<1>2. e \in Nat /\ s \in Nat /\ s < e /\ e # NoStamp
  BY StampFacts DEF Behind
<1>3. led \subseteq before
  <2>1. \A i \in 1 .. Len(c) : c[i] \in Nat
    BY <1>1, StampFacts
  <2> QED BY <1>1, <1>2, <2>1
<1>4. IsFiniteSet(before)
  <2>1. IsFiniteSet(1 .. Len(c) + 1 - 1)
    BY <1>1, FS_Interval
  <2> QED BY <2>1, FS_Subset
<1>5. Cardinality(led) <= Cardinality(before) /\ Cardinality(before) \in Nat /\ Cardinality(led) \in Nat
  BY <1>3, <1>4, FS_Subset, FS_CardinalityType
<1>6. Cardinality(led) > o
  BY <1>2, Zenon DEF Led
<1>7. Cardinality(before) > o
  <2> HIDE DEF before, led
  <2> QED BY <1>5, <1>6
<1>8. ASSUME NEW p, p.n = Len(c) + 1, p.pts = s
      PROVE  Overtaken(p, Append(c, s), o)
  <2>1. before = {i \in 1 .. p.n - 1 : Append(c, s)[i] > p.pts}
    BY <1>8
  <2> HIDE DEF before
  <2> QED BY <1>7, <2>1, Zenon DEF Overtaken
<1> QED BY <1>8

\* The lowest of more than o pictures leads.
LEMMA LowestLeads ==
  ASSUME NEW r, NEW l, NEW c, NEW o \in Nat, Pictured(r, l, c), NEW p \in Lowest(r),
         Cardinality(r) > o
  PROVE  Led(p.pts, c, o)
<1> DEFINE led == {i \in 1 .. Len(c) : c[i] >= p.pts}
           place == [q \in r |-> q.n]
<1>1. c \in Seq(Stamps) /\ Len(c) \in Nat /\ \A i \in 1 .. Len(c) : c[i] \in Nat
  BY StampFacts, LenProperties, ElementOfSeq DEF Pictured
<1>2. \A q \in r : /\ q.n \in 1 .. Len(c) /\ q = [n |-> q.n, pts |-> c[q.n]] /\ q.pts = c[q.n]
                   /\ p.pts <= q.pts
  BY DEF Pictured, Lowest
<1>3. \A q \in r : q.n \in led
  <2>1. p \in r /\ p.pts \in Nat
    BY <1>1, <1>2 DEF Lowest
  <2> QED BY <1>1, <1>2, <2>1
<1>4. IsFiniteSet(led)
  <2>1. IsFiniteSet(1 .. Len(c))
    BY <1>1, FS_Interval
  <2> QED BY <2>1, FS_Subset
<1>5. place \in Injection(r, led)
  <2>1. place \in [r -> led]
    BY <1>3
  <2>2. ASSUME NEW a \in r, NEW b \in r, place[a] = place[b]
        PROVE  a = b
    <3>1. a.n = b.n
      BY <2>2
    <3> QED BY <1>2, <3>1
  <2> QED BY <2>1, <2>2 DEF Injection, IsInjective
<1>6. Cardinality(r) <= Cardinality(led)
  BY <1>4, <1>5, FS_Injection
<1>7. Cardinality(r) \in Nat /\ Cardinality(led) \in Nat
  BY <1>4, FS_CardinalityType DEF Pictured
<1> QED BY <1>6, <1>7 DEF Led

\* A picture that comes in time is held back, and so is one that comes late: it makes the
\* window wider, as long as there is room for more.
LEMMA Arrives ==
  ASSUME NEW r, NEW l, NEW e \in Stamps \cup {NoStamp}, NEW c, NEW w, NEW v, NEW o, NEW s \in Stamps,
         Pictured(r, l, c), Losses(r, l, e, c, w, o), Windows(w, o), Led(e, c, o),
         v \in w .. RoCap - 1,
         Behind(e, [n |-> Len(c) + 1, pts |-> s]) /\ v < RoCap - 1 => v >= w + 1
  PROVE  LET p == [n |-> Len(c) + 1, pts |-> s]
         IN  /\ Pictured(r \cup {p}, l, Append(c, s)) /\ p \notin r
             /\ Losses(r \cup {p}, l, e, Append(c, s), v, o)
<1> DEFINE p == [n |-> Len(c) + 1, pts |-> s]
           d == Append(c, s)
<1>1. /\ c \in Seq(Stamps) /\ Len(c) \in Nat /\ d \in Seq(Stamps) /\ Len(d) = Len(c) + 1
      /\ d[Len(c) + 1] = s /\ \A i \in 1 .. Len(c) : d[i] = c[i]
  BY AppendProperties, LenProperties DEF Pictured
<1>2. \A q \in r \cup l : q.n \in 1 .. Len(c) /\ q = [n |-> q.n, pts |-> c[q.n]]
  BY DEF Pictured
<1>3. p \notin r \cup l
  <2>1. p.n = Len(c) + 1
    OBVIOUS
  <2> HIDE DEF p
  <2> QED BY <1>1, <1>2, <2>1
<1>4. Pictured(r \cup {p}, l, d)
  <2>1. IsFiniteSet(r \cup {p}) /\ IsFiniteSet(l) /\ (r \cup {p}) \cap l = {}
    BY <1>3, FS_AddElement DEF Pictured
  <2>2. \A q \in r \cup l : q.n \in 1 .. Len(d) /\ q = [n |-> q.n, pts |-> d[q.n]]
    <3> TAKE q \in r \cup l
    <3>1. q.n \in 1 .. Len(c) /\ q = [n |-> q.n, pts |-> c[q.n]]
      BY <1>2
    <3>2. q.n \in 1 .. Len(d)
      BY <1>1, <3>1
    <3>3. d[q.n] = c[q.n]
      BY <1>1, <3>1
    <3> QED BY <3>1, <3>2, <3>3
  <2>3. p.n \in 1 .. Len(d) /\ p = [n |-> p.n, pts |-> d[p.n]]
    BY <1>1
  <2> HIDE DEF p, d
  <2> QED BY <1>1, <2>1, <2>2, <2>3 DEF Pictured
<1>5. o \in Nat /\ w \in Nat /\ v \in Nat /\ v >= w /\ w >= o /\ RoCap \in Nat
  BY StampFacts DEF Windows
<1>6. \A q \in r \cup l : Overtaken(q, d, o) <=> Overtaken(q, c, o)
  BY <1>1, <1>2, OvertakenStays
<1>7. Behind(e, p) => Overtaken(p, d, o)
  BY <1>1, <1>5, LedOvertake
<1>8. /\ \A q \in l : Overtaken(q, d, o)
      /\ \A q \in r \cup {p} : Behind(e, q) => Overtaken(q, d, o)
  <2> HIDE DEF p, d
  <2> QED BY <1>6, <1>7 DEF Losses
<1> DEFINE behind == {q \in r : Behind(e, q)}
           more == {q \in r \cup {p} : Behind(e, q)}
<1>9. IsFiniteSet(behind) /\ Cardinality(behind) \in Nat /\ Cardinality(l) \in Nat
  <2>1. IsFiniteSet(r) /\ IsFiniteSet(l)
    BY DEF Pictured
  <2> QED BY <2>1, FS_Subset, FS_CardinalityType
<1>10. /\ more = IF Behind(e, p) THEN behind \cup {p} ELSE behind
       /\ p \notin behind
  <2> HIDE DEF p, d
  <2> QED BY <1>3
<1>11. Cardinality(more) = IF Behind(e, p) THEN Cardinality(behind) + 1 ELSE Cardinality(behind)
  <2> HIDE DEF p, d, more, behind
  <2> QED BY <1>9, <1>10, FS_AddElement
<1>12. v < RoCap - 1 => Cardinality(l) + Cardinality(more) <= v - o
  <2>1. w < RoCap - 1 => Cardinality(l) + Cardinality(behind) <= w - o
    BY DEF Losses
  <2>2. Behind(e, p) /\ v < RoCap - 1 => v >= w + 1
    OBVIOUS
  <2> HIDE DEF p, d, more, behind
  <2> QED BY <1>5, <1>9, <1>11, <2>1, <2>2
<1>13. Losses(r \cup {p}, l, e, d, v, o)
  BY <1>8, <1>12 DEF Losses
<1> HIDE DEF p, d
<1>14. p \notin r
  BY <1>3
<1> QED BY <1>4, <1>13, <1>14 DEF p, d

\* A picture that is late by the time it is released is lost.
LEMMA LowestLost ==
  ASSUME NEW r, NEW l, NEW e, NEW c, NEW w, NEW o, NEW gone, Pictured(r, l, c), Windows(w, o),
         Losses(r, l, e, c, w, o), NEW p \in r, Behind(e, p), Counted(r, l, gone, c)
  PROVE  /\ Pictured(r \ {p}, l \cup {p}, c) /\ Losses(r \ {p}, l \cup {p}, e, c, w, o)
         /\ Counted(r \ {p}, l \cup {p}, gone, c)
<1> DEFINE behind == {q \in r : Behind(e, q)}
           less == {q \in r \ {p} : Behind(e, q)}
<1>1. /\ IsFiniteSet(r) /\ IsFiniteSet(l) /\ p \notin l
      /\ Cardinality(r) \in Nat /\ Cardinality(l) \in Nat
  BY FS_CardinalityType DEF Pictured
<1>2. /\ IsFiniteSet(r \ {p}) /\ Cardinality(r \ {p}) = Cardinality(r) - 1
      /\ IsFiniteSet(l \cup {p}) /\ Cardinality(l \cup {p}) = Cardinality(l) + 1
  BY <1>1, FS_RemoveElement, FS_AddElement
<1>3. Pictured(r \ {p}, l \cup {p}, c)
  BY <1>2 DEF Pictured
<1>4. /\ \A q \in l \cup {p} : Overtaken(q, c, o)
      /\ \A q \in r \ {p} : Behind(e, q) => Overtaken(q, c, o)
  BY DEF Losses
<1>5. less = behind \ {p} /\ p \in behind
  OBVIOUS
<1>6. IsFiniteSet(behind) /\ Cardinality(behind) \in Nat
  BY <1>1, FS_Subset, FS_CardinalityType
<1>7. Cardinality(less) = Cardinality(behind) - 1
  <2> HIDE DEF less, behind
  <2> QED BY <1>5, <1>6, FS_RemoveElement
<1>8. w < RoCap - 1 => Cardinality(l) + Cardinality(behind) <= w - o
  BY Zenon DEF Losses
<1>9. w < RoCap - 1 => Cardinality(l \cup {p}) + Cardinality(less) <= w - o
  <2> HIDE DEF less, behind
  <2> QED BY <1>1, <1>2, <1>6, <1>7, <1>8
<1>10. Losses(r \ {p}, l \cup {p}, e, c, w, o)
  BY <1>4, <1>9, Zenon DEF Losses
<1>11. Counted(r \ {p}, l \cup {p}, gone, c)
  <2>1. Cardinality(r) + Cardinality(l) + Len(gone) = Len(c)
    BY DEF Counted
  <2>2. (Cardinality(r) - 1) + (Cardinality(l) + 1) = Cardinality(r) + Cardinality(l)
    BY <1>1
  <2> QED BY <1>2, <2>1, <2>2 DEF Counted
<1> QED BY <1>3, <1>10, <1>11

\* A picture that is not, is the last in the order of stamps so far, and none is behind it.
LEMMA LowestShown ==
  ASSUME NEW r, NEW l, NEW e, NEW c, NEW w, NEW o, NEW gone, Pictured(r, l, c), Windows(w, o),
         Losses(r, l, e, c, w, o), HandedOn(e, gone), Counted(r, l, gone, c),
         NEW p \in Lowest(r), ~Behind(e, p)
  PROVE  /\ Pictured(r \ {p}, l, c) /\ HandedOn(p.pts, Append(gone, p.pts))
         /\ Losses(r \ {p}, l, p.pts, c, w, o) /\ Counted(r \ {p}, l, Append(gone, p.pts), c)
<1> DEFINE longer == Append(gone, p.pts)
           behind == {q \in r : Behind(e, q)}
           none == {q \in r \ {p} : Behind(p.pts, q)}
<1>1. /\ IsFiniteSet(r) /\ IsFiniteSet(l) /\ p \in r
      /\ Cardinality(r) \in Nat /\ Cardinality(l) \in Nat
  BY FS_CardinalityType DEF Pictured, Lowest
<1>2. IsFiniteSet(r \ {p}) /\ Cardinality(r \ {p}) = Cardinality(r) - 1
  BY <1>1, FS_RemoveElement
<1>3. Pictured(r \ {p}, l, c)
  BY <1>2 DEF Pictured
<1>4. \A q \in r : q.pts \in Stamps /\ q.pts \in Nat /\ p.pts <= q.pts
  <2>1. \A q \in r : q.n \in 1 .. Len(c) /\ q.pts = c[q.n] /\ p.pts <= q.pts
    BY DEF Pictured, Lowest
  <2> QED BY <2>1, StampFacts, ElementOfSeq DEF Pictured
<1>5. p.pts \in Stamps /\ p.pts \in Nat /\ (e # NoStamp => e \in Nat /\ e <= p.pts)
  BY <1>1, <1>4, StampFacts DEF Behind, HandedOn
<1>6. none = {}
  BY <1>4, <1>5 DEF Behind
<1>7. /\ gone \in Seq(Stamps) /\ Len(gone) \in Nat /\ longer \in Seq(Stamps)
      /\ Len(longer) = Len(gone) + 1 /\ longer[Len(gone) + 1] = p.pts
      /\ \A i \in 1 .. Len(gone) : longer[i] = gone[i] /\ gone[i] \in Nat
  BY <1>5, AppendProperties, LenProperties, ElementOfSeq, StampFacts DEF HandedOn
<1>8. \A i \in 1 .. Len(gone) : gone[i] <= p.pts
  <2> TAKE i \in 1 .. Len(gone)
  <2>1. e # NoStamp /\ gone[i] <= e
    BY DEF HandedOn
  <2> QED BY <1>5, <1>7, <2>1
<1>9. \A i, j \in 1 .. Len(gone) : i < j => gone[i] <= gone[j]
  BY DEF HandedOn
<1> HIDE DEF longer
<1>10. ASSUME NEW i \in 1 .. Len(longer), NEW j \in 1 .. Len(longer), i < j
       PROVE  longer[i] <= longer[j]
  <2>1. i \in 1 .. Len(gone)
    BY <1>7, <1>10
  <2>2. CASE j = Len(gone) + 1
    BY <1>7, <1>8, <2>1, <2>2
  <2>3. CASE j # Len(gone) + 1
    <3>1. j \in 1 .. Len(gone)
      BY <1>7, <2>3
    <3> QED BY <1>7, <1>9, <1>10, <2>1, <3>1
  <2> QED BY <2>2, <2>3
<1>11. \A i \in 1 .. Len(longer) : p.pts # NoStamp /\ longer[i] <= p.pts
  <2> TAKE i \in 1 .. Len(longer)
  <2>1. p.pts # NoStamp
    BY <1>5, StampFacts
  <2>2. CASE i = Len(gone) + 1
    BY <1>5, <1>7, <2>1, <2>2
  <2>3. CASE i # Len(gone) + 1
    <3>1. i \in 1 .. Len(gone)
      BY <1>7, <2>3
    <3> QED BY <1>7, <1>8, <2>1, <3>1
  <2> QED BY <2>2, <2>3
<1>12. HandedOn(p.pts, longer)
  BY <1>5, <1>7, <1>10, <1>11 DEF HandedOn
<1>13. Cardinality(none) = 0
  BY <1>6, FS_EmptySet
<1>14. IsFiniteSet(behind) /\ Cardinality(behind) \in Nat
  BY <1>1, FS_Subset, FS_CardinalityType
<1>15. w < RoCap - 1 => Cardinality(l) + Cardinality(behind) <= w - o
  BY Zenon DEF Losses
<1>16. w \in Nat /\ o \in Nat
  BY StampFacts DEF Windows
<1>17. w < RoCap - 1 => Cardinality(l) + Cardinality(none) <= w - o
  <2> HIDE DEF none, behind
  <2> QED BY <1>1, <1>13, <1>14, <1>15, <1>16
<1>18. /\ \A q \in l : Overtaken(q, c, o)
       /\ \A q \in r \ {p} : Behind(p.pts, q) => Overtaken(q, c, o)
  BY <1>6 DEF Losses
<1>19. Losses(r \ {p}, l, p.pts, c, w, o)
  BY <1>17, <1>18, Zenon DEF Losses
<1>20. Counted(r \ {p}, l, longer, c)
  <2>1. Cardinality(r) + Cardinality(l) + Len(gone) = Len(c)
    BY DEF Counted
  <2>2. (Cardinality(r) - 1) + Cardinality(l) + (Len(gone) + 1) = Cardinality(r) + Cardinality(l) + Len(gone)
    <3>1. Len(gone) \in Nat
      BY <1>7
    <3> HIDE DEF longer, behind, none
    <3> QED BY <1>1, <3>1
  <2> QED BY <1>2, <1>7, <2>1, <2>2 DEF Counted
<1> QED BY <1>3, <1>12, <1>19, <1>20 DEF longer

\* What Emit does.
LEMMA EmitKeeps ==
  ASSUME NEW r, NEW c, Pictured(r, late, c), HandedOn(lastEmit, rendered),
         NEW w, NEW o, Windows(w, o), Losses(r, late, lastEmit, c, w, o),
         Counted(r, late, rendered, c), Emit(r)
  PROVE  /\ Pictured(ro', late', c) /\ HandedOn(lastEmit', rendered')
         /\ Losses(ro', late', lastEmit', c, w, o) /\ Counted(ro', late', rendered', c)
         /\ Cardinality(ro') = Cardinality(r) - 1
         /\ UNCHANGED lastEmit \/ (Cardinality(r) > o => Led(lastEmit', c, o))
<1>1. PICK p \in Lowest(r) :
        /\ ro' = r \ {p}
        /\ IF Late(p) THEN late' = late \cup {p} /\ UNCHANGED <<lastEmit, rendered>>
           ELSE lastEmit' = p.pts /\ rendered' = Append(rendered, p.pts) /\ UNCHANGED late
  BY DEF Emit
<1>2. p \in r /\ IsFiniteSet(r)
  BY DEF Lowest, Pictured
<1>3. Cardinality(ro') = Cardinality(r) - 1
  BY <1>1, <1>2, FS_RemoveElement
<1>4. CASE Late(p)
  <2>1. Behind(lastEmit, p)
    BY <1>4 DEF Late, Behind
  <2>2. ro' = r \ {p} /\ late' = late \cup {p} /\ lastEmit' = lastEmit /\ rendered' = rendered
    BY <1>1, <1>4
  <2> QED BY <1>2, <1>3, <2>1, <2>2, LowestLost
<1>5. CASE ~Late(p)
  <2>1. ~Behind(lastEmit, p)
    BY <1>5 DEF Late, Behind
  <2>2. /\ ro' = r \ {p} /\ late' = late /\ lastEmit' = p.pts
        /\ rendered' = Append(rendered, p.pts)
    BY <1>1, <1>5
  <2>3. o \in Nat
    BY StampFacts DEF Windows
  <2>4. Cardinality(r) > o => Led(p.pts, c, o)
    BY <2>3, LowestLeads
  <2> QED BY <1>3, <2>1, <2>2, <2>4, LowestShown
<1> QED BY <1>4, <1>5

LEMMA ReorderStarts ==
  ASSUME ReorderInit
  PROVE  ReorderInv
<1> USE DEF ReorderInit
<1>1. Pictured(ro, late, coded)
  BY FS_EmptySet DEF Pictured
<1>2. HandedOn(lastEmit, rendered)
  BY DEF HandedOn
<1>3. Windows(window, opened)
  BY StampFacts DEF Windows
<1>4. Losses(ro, late, lastEmit, coded, window, opened)
  <2>1. {p \in ro : Behind(lastEmit, p)} = {} /\ late = {} /\ ro = {}
    OBVIOUS
  <2>2. Cardinality({}) = 0 /\ window = opened /\ opened \in Nat
    BY StampFacts, FS_EmptySet
  <2> QED BY <2>1, <2>2 DEF Losses
<1>5. Counted(ro, late, rendered, coded) /\ Cardinality(ro) <= window
  BY <1>3, StampFacts, FS_EmptySet DEF Counted, Windows
<1>6. Led(lastEmit, coded, opened)
  BY DEF Led
<1> QED BY <1>1, <1>2, <1>3, <1>4, <1>5, <1>6 DEF ReorderInv

LEMMA EmptyKeeps ==
  ASSUME ro' = {}, late' = {}, coded' = <<>>, rendered' = <<>>, lastEmit' = NoStamp,
         opened' \in 0 .. RoCap - 1, window' = opened', mode' \in {"hw", "sw"}
  PROVE  ReorderInv'
<1>1. Pictured(ro, late, coded)'
  BY FS_EmptySet DEF Pictured
<1>2. HandedOn(lastEmit, rendered)'
  BY DEF HandedOn
<1>3. Windows(window, opened)'
  BY StampFacts DEF Windows
<1>4. Losses(ro, late, lastEmit, coded, window, opened)'
  <2>1. {p \in ro' : Behind(lastEmit', p)} = {} /\ late' = {} /\ ro' = {}
    OBVIOUS
  <2>2. Cardinality({}) = 0 /\ window' = opened' /\ opened' \in Nat
    BY StampFacts, FS_EmptySet
  <2> QED BY <2>1, <2>2 DEF Losses
<1>5. Counted(ro, late, rendered, coded)' /\ Cardinality(ro') <= window'
  BY <1>3, StampFacts, FS_EmptySet DEF Counted, Windows
<1>6. Led(lastEmit, coded, opened)'
  BY DEF Led
<1> QED BY <1>1, <1>2, <1>3, <1>4, <1>5, <1>6 DEF ReorderInv

LEMMA DecodeKeeps ==
  ASSUME ReorderInv, DecodeHw
  PROVE  ReorderInv'
<1>1. PICK pts \in Stamps, seen \in BOOLEAN :
        LET p    == [n |-> Len(coded) + 1, pts |-> pts]
            buffered == IF Cardinality(ro) < RoCap THEN ro \cup {p} ELSE ro
        IN  /\ coded' = Append(coded, pts) /\ window' = Widened(Observed(seen), pts)
            /\ IF Cardinality(buffered) > window' THEN Emit(buffered)
               ELSE ro' = buffered /\ UNCHANGED <<lastEmit, rendered, late>>
  BY DEF DecodeHw
<1> DEFINE p == [n |-> Len(coded) + 1, pts |-> pts]
           buffered == ro \cup {p}
<1>2. /\ Pictured(ro, late, coded) /\ HandedOn(lastEmit, rendered)
      /\ Losses(ro, late, lastEmit, coded, window, opened) /\ Windows(window, opened)
      /\ Counted(ro, late, rendered, coded) /\ Cardinality(ro) <= window
      /\ Led(lastEmit, coded, opened) /\ mode' = "hw" /\ opened' = opened
  BY DEF ReorderInv, DecodeHw
<1>3. /\ window \in Nat /\ opened \in Nat /\ opened <= window /\ window <= RoCap - 1
      /\ RoCap \in Nat /\ Cardinality(ro) \in Nat /\ Cardinality(late) \in Nat
  BY <1>2, StampFacts, FS_CardinalityType DEF Windows, Pictured
<1>4. Cardinality(ro) < RoCap
  BY <1>2, <1>3
<1>5. /\ coded' = Append(coded, pts) /\ window' = Widened(Observed(seen), pts)
      /\ IF Cardinality(buffered) > window' THEN Emit(buffered)
         ELSE ro' = buffered /\ UNCHANGED <<lastEmit, rendered, late>>
  BY <1>1, <1>4
<1>6. /\ window' \in window .. RoCap - 1
      /\ Behind(lastEmit, p) /\ window' < RoCap - 1 => window' >= window + 1
  <2>1. Observed(seen) \in window .. RoCap - 1
    BY <1>3, StampFacts DEF Observed
  <2>2. Behind(lastEmit, p) <=> lastEmit # NoStamp /\ pts < lastEmit
    BY DEF Behind
  <2> QED BY <1>3, <1>5, <2>1, <2>2 DEF Widened
<1>7. lastEmit \in Stamps \cup {NoStamp}
  BY <1>2 DEF HandedOn
<1>8. /\ Pictured(buffered, late, coded') /\ p \notin ro
      /\ Losses(buffered, late, lastEmit, coded', window', opened)
  BY <1>2, <1>5, <1>6, <1>7, Arrives
<1>9. Led(lastEmit, coded', opened)
  BY <1>2, <1>3, <1>5, LedStays DEF Pictured
<1> HIDE DEF p
<1>10. Cardinality(buffered) = Cardinality(ro) + 1
  BY <1>2, <1>8, FS_AddElement DEF Pictured
<1>11. Len(coded') = Len(coded) + 1 /\ Len(coded) \in Nat /\ Len(rendered) \in Nat
  BY <1>2, <1>5, AppendProperties, LenProperties DEF Pictured, HandedOn
<1>12. Windows(window', opened)
  BY <1>2, <1>3, <1>6 DEF Windows
<1> HIDE DEF buffered
<1>13. Counted(buffered, late, rendered, coded')
  <2>1. Cardinality(ro) + Cardinality(late) + Len(rendered) = Len(coded)
    BY <1>2 DEF Counted
  <2>2. Cardinality(buffered) + Cardinality(late) + Len(rendered) = Len(coded')
    BY <1>3, <1>10, <1>11, <2>1, SMTT(40)
  <2> QED BY <2>2 DEF Counted
<1>14. CASE Cardinality(buffered) > window'
  <2>1. Emit(buffered)
    BY <1>5, <1>14
  <2>2. /\ Pictured(ro', late', coded') /\ HandedOn(lastEmit', rendered')
        /\ Losses(ro', late', lastEmit', coded', window', opened)
        /\ Counted(ro', late', rendered', coded') /\ Cardinality(ro') = Cardinality(buffered) - 1
        /\ UNCHANGED lastEmit \/ (Cardinality(buffered) > opened => Led(lastEmit', coded', opened))
    BY <1>2, <1>8, <1>12, <1>13, <2>1, EmitKeeps
  <2>3. Cardinality(buffered) > opened /\ Cardinality(ro') <= window'
    BY <1>2, <1>3, <1>6, <1>10, <1>14, <2>2
  <2>4. Led(lastEmit', coded', opened')
    BY <1>2, <1>9, <2>2, <2>3
  <2> QED BY <1>2, <1>12, <2>2, <2>3, <2>4 DEF ReorderInv
<1>15. CASE ~(Cardinality(buffered) > window')
  <2>1. ro' = buffered /\ lastEmit' = lastEmit /\ rendered' = rendered /\ late' = late
    BY <1>5, <1>15
  <2>2. Cardinality(ro') <= window'
    BY <1>3, <1>6, <1>10, <1>15, <2>1
  <2> QED BY <1>2, <1>8, <1>9, <1>12, <1>13, <2>1, <2>2 DEF ReorderInv
<1> QED BY <1>14, <1>15

\* What is held back, lost and handed on, and how wide the window is, agree with each other at
\* every step of the hardware path (player_ff.c, ro_insert and ro_emit).
THEOREM ReorderInvariant == ReorderSpec => []ReorderInv
<1>1. ReorderInit => ReorderInv
  BY ReorderStarts
<1>2. ReorderInv /\ [ReorderNext]_reorderVars => ReorderInv'
  <2> SUFFICES ASSUME ReorderInv, [ReorderNext]_reorderVars
               PROVE  ReorderInv'
    OBVIOUS
  <2>1. CASE DecodeHw
    BY <2>1, DecodeKeeps
  <2>2. CASE EndOfPackets
    BY <2>2 DEF ReorderInv, EndOfPackets
  <2>3. CASE Drain
    <3>1. Emit(ro) /\ UNCHANGED <<window, mode, coded, opened>> /\ mode = "drain"
      BY <2>3 DEF Drain
    <3>2. /\ Pictured(ro', late', coded) /\ HandedOn(lastEmit', rendered')
          /\ Losses(ro', late', lastEmit', coded, window, opened)
          /\ Counted(ro', late', rendered', coded) /\ Cardinality(ro') = Cardinality(ro) - 1
      BY <3>1, EmitKeeps DEF ReorderInv
    <3>3. Cardinality(ro') <= window
      <4>1. Cardinality(ro) \in Nat /\ window \in Nat /\ Cardinality(ro) <= window
        BY StampFacts, FS_CardinalityType DEF ReorderInv, Pictured, Windows
      <4> QED BY <3>2, <4>1
    <3> QED BY <3>1, <3>2, <3>3 DEF ReorderInv
  <2>4. CASE FlushReorder \/ FailOver
    <3>1. window \in 0 .. RoCap - 1
      BY StampFacts DEF ReorderInv, Windows
    <3> QED BY <2>4, <3>1, EmptyKeeps DEF FlushReorder, FailOver, Forgets
  <2>5. CASE Reopen
    <3>1. ro = {} /\ late = {} /\ rendered = <<>> /\ coded = <<>> /\ lastEmit = NoStamp
      BY <2>5 DEF ReorderInv, Reopen
    <3> QED BY <2>5, <3>1, EmptyKeeps DEF Reopen
  <2>6. CASE UNCHANGED reorderVars
    BY <2>6 DEF ReorderInv, reorderVars
  <2> QED BY <2>1, <2>2, <2>3, <2>4, <2>5, <2>6 DEF ReorderNext
<1> QED BY <1>1, <1>2, PTL DEF ReorderSpec

\* Pictures leave in the order of their stamps; one is lost only if more pictures with a later
\* stamp came before it than the window at the opening was told to wait for, and every loss
\* has widened the window (player_ff.c, ro_emit).
THEOREM PicturesLeaveInOrder == ReorderSpec => []PicturesInOrder
<1>1. ReorderInv => PicturesInOrder
  <2> SUFFICES ASSUME ReorderInv PROVE PicturesInOrder
    OBVIOUS
  <2>1. InStampOrder
    BY DEF ReorderInv, HandedOn, InStampOrder
  <2>2. \A p \in late : Displacement(p) > opened
    BY Zenon DEF ReorderInv, Losses, Overtaken, Displacement
  <2>3. /\ IsFiniteSet(ro) /\ IsFiniteSet(late) /\ window \in Nat /\ opened \in Nat
        /\ RoCap \in Nat
    BY StampFacts DEF ReorderInv, Pictured, Windows
  <2>4. window < RoCap - 1 => Cardinality(late) <= window - opened
    <3> DEFINE behind == {p \in ro : Behind(lastEmit, p)}
    <3>1. Cardinality(late) \in Nat /\ Cardinality(behind) \in Nat
      BY <2>3, FS_Subset, FS_CardinalityType
    <3>2. window < RoCap - 1 => Cardinality(late) + Cardinality(behind) <= window - opened
      BY Zenon DEF ReorderInv, Losses
    <3> HIDE DEF behind
    <3> QED BY <2>3, <3>1, <3>2
  <2>5. Cardinality(ro) <= window /\ Cardinality(ro) + Cardinality(late) + Len(rendered) = Len(coded)
    BY DEF ReorderInv, Counted
  <2> QED BY <2>1, <2>2, <2>4, <2>5 DEF PicturesInOrder, OnlyDisplacedAreLost
<1> QED BY <1>1, ReorderInvariant, PTL

-----------------------------------------------------------------------------
\* The playlist.

\* The greatest of the places of a playlist is one of them.
LEMMA LastIsIn ==
  ASSUME NEW n \in Nat, NEW S \in SUBSET (1 .. n), S # {}
  PROVE  LastOf(S) \in S /\ \A j \in S : j <= LastOf(S)
<1> DEFINE Bounds == {m \in Nat : \A j \in S : j <= m}
           Less == OpToRel(<, Nat)
<1>1. PICK m \in Bounds : \A x \in Bounds : ~(<<x, m>> \in Less)
  <2>1. n \in Bounds
    OBVIOUS
  <2>2. IsWellFoundedOn(Less, Nat)
    BY NatLessThanWellFounded
  <2>3. Bounds \subseteq Nat
    OBVIOUS
  <2>4. IsWellFoundedOn(Less, Bounds)
    BY <2>2, <2>3, IsWellFoundedOnSubset
  <2> HIDE DEF Less, Bounds
  <2> QED BY <2>1, <2>4, WFMin
<1>2. \A x \in Bounds : m <= x
  <2> TAKE x \in Bounds
  <2>1. ~(x < m)
    BY <1>1, Zenon DEF OpToRel
  <2> QED BY <2>1
<1>3. m \in S
  <2> SUFFICES ASSUME m \notin S PROVE FALSE
    OBVIOUS
  <2>1. PICK j \in S : TRUE
    OBVIOUS
  <2>2. m # 0
    BY <2>1
  <2>3. m - 1 \in Bounds
    BY <2>2
  <2> QED BY <1>2, <2>3
<1>4. \E x \in S : \A j \in S : j <= x
  BY <1>3
<1> QED BY <1>4 DEF LastOf

LEMMA LastIsOnly ==
  ASSUME NEW S \in SUBSET Nat, NEW x \in S, \A j \in S : j <= x
  PROVE  LastOf(S) = x
<1>1. LastOf(S) \in S /\ \A j \in S : j <= LastOf(S)
  BY Zenon DEF LastOf
<1>2. LastOf(S) \in Nat /\ x \in Nat /\ x <= LastOf(S) /\ LastOf(S) <= x
  BY <1>1
<1> QED BY <1>2

\* What lines say of what comes before a place does not change when another one is read.
LEMMA Reading ==
  ASSUME NEW L, NEW ls \in Seq(L), NEW l \in L
  PROVE  /\ Append(ls, l) \in Seq(L) /\ Len(Append(ls, l)) = Len(ls) + 1
         /\ Append(ls, l)[Len(ls) + 1] = l
         /\ \A at \in 1 .. Len(ls) : Append(ls, l)[at] = ls[at]
         /\ \A at \in 1 .. Len(ls) : ls[at] \in L
         /\ Len(ls) \in Nat
OBVIOUS

LEMMA BetweenStays ==
  ASSUME NEW L, NEW ls \in Seq(L), NEW l \in L, NEW i \in Nat, NEW j \in 0 .. Len(ls) + 1, NEW kinds
  PROVE  Between(Append(ls, l), i, j, kinds) = Between(ls, i, j, kinds)
BY Reading DEF Between

LEMMA BetweenGrows ==
  ASSUME NEW L, NEW ls \in Seq(L), NEW l \in L, NEW n \in Nat, n = Len(ls) + 1,
         NEW i \in 0 .. n - 1, NEW kinds
  PROVE  /\ l.is \in kinds => Between(Append(ls, l), i, n + 1, kinds) = Between(ls, i, n, kinds) \cup {n}
         /\ l.is \notin kinds => Between(Append(ls, l), i, n + 1, kinds) = Between(ls, i, n, kinds)
<1> DEFINE new == Append(ls, l)
<1>1. n \in Nat /\ new[n] = l /\ \A at \in i + 1 .. n - 1 : new[at] = ls[at]
  BY Reading
<1> HIDE DEF new
<1>2. i + 1 .. (n + 1) - 1 = (i + 1 .. n - 1) \cup {n}
  BY <1>1
<1> QED BY <1>1, <1>2 DEF Between, new

LEMMA BetweenIsHere ==
  ASSUME NEW ls, NEW i \in Nat, NEW j \in Nat, NEW kinds
  PROVE  /\ Between(ls, i, j, kinds) \in SUBSET (1 .. j)
         /\ \A x \in Between(ls, i, j, kinds) : x \in Nat /\ i < x /\ x < j /\ ls[x].is \in kinds
BY DEF Between

LEMMA OwnIsHere ==
  ASSUME NEW ls, NEW at \in Nat, NEW kinds
  PROVE  /\ Own(ls, at, kinds) \in SUBSET (1 .. at)
         /\ \A x \in Own(ls, at, kinds) : x \in Nat /\ 0 < x /\ x < at /\ ls[x].is \in kinds
BY BetweenIsHere DEF Own

LEMMA OwnStays ==
  ASSUME NEW L, NEW ls \in Seq(L), NEW l \in L, NEW at \in 1 .. Len(ls) + 1, NEW kinds
  PROVE  Own(Append(ls, l), at, kinds) = Own(ls, at, kinds)
<1>1. Between(Append(ls, l), 0, at, kinds) = Between(ls, 0, at, kinds)
  BY BetweenStays
<1>2. \A x \in Between(ls, 0, at, kinds) :
        Between(Append(ls, l), x, at, {"uri"}) = Between(ls, x, at, {"uri"})
  BY BetweenStays, BetweenIsHere
<1> QED BY <1>1, <1>2 DEF Own

LEMMA OwnGrows ==
  ASSUME NEW L, NEW ls \in Seq(L), NEW l \in L, NEW n \in Nat, n = Len(ls) + 1,
         NEW kinds, "uri" \notin kinds
  PROVE  /\ l.is = "uri" => Own(Append(ls, l), n + 1, kinds) = {}
         /\ l.is # "uri" /\ l.is \in kinds => Own(Append(ls, l), n + 1, kinds) = Own(ls, n, kinds) \cup {n}
         /\ l.is # "uri" /\ l.is \notin kinds => Own(Append(ls, l), n + 1, kinds) = Own(ls, n, kinds)
<1> DEFINE new == Append(ls, l)
<1>1. n \in Nat \ {0} /\ 0 \in 0 .. n - 1
  BY Reading
<1>2. /\ l.is \in kinds => Between(new, 0, n + 1, kinds) = Between(ls, 0, n, kinds) \cup {n}
      /\ l.is \notin kinds => Between(new, 0, n + 1, kinds) = Between(ls, 0, n, kinds)
  BY <1>1, BetweenGrows
<1>3. \A x \in Between(ls, 0, n, kinds) :
        /\ l.is = "uri" => Between(new, x, n + 1, {"uri"}) = Between(ls, x, n, {"uri"}) \cup {n}
        /\ l.is # "uri" => Between(new, x, n + 1, {"uri"}) = Between(ls, x, n, {"uri"})
  <2> TAKE x \in Between(ls, 0, n, kinds)
  <2>1. x \in 0 .. n - 1
    BY <1>1 DEF Between
  <2>2. l.is \in {"uri"} <=> l.is = "uri"
    OBVIOUS
  <2> DEFINE Uri == {"uri"}
  <2>3. /\ l.is \in Uri => Between(new, x, n + 1, Uri) = Between(ls, x, n, Uri) \cup {n}
        /\ l.is \notin Uri => Between(new, x, n + 1, Uri) = Between(ls, x, n, Uri)
    <3> HIDE DEF Uri
    <3> QED BY <2>1, BetweenGrows
  <2> QED BY <2>2, <2>3
<1>4. Between(new, n, n + 1, {"uri"}) = {}
  BY <1>1 DEF Between
<1> HIDE DEF new
<1>6. CASE l.is = "uri"
  <2>1. l.is \notin kinds
    BY <1>6
  <2>2. \A x \in Between(ls, 0, n, kinds) : Between(new, x, n + 1, {"uri"}) # {}
    BY <1>3, <1>6
  <2>3. Own(new, n + 1, kinds) = {}
    BY <1>2, <2>1, <2>2 DEF Own
  <2> QED BY <1>6, <2>3 DEF new
<1>7. CASE l.is # "uri"
  <2>1. \A x \in Between(ls, 0, n, kinds) : Between(new, x, n + 1, {"uri"}) = Between(ls, x, n, {"uri"})
    BY <1>3, <1>7
  <2>2. l.is \in kinds => Own(new, n + 1, kinds) = Own(ls, n, kinds) \cup {n}
    BY <1>2, <1>4, <2>1 DEF Own
  <2>3. l.is \notin kinds => Own(new, n + 1, kinds) = Own(ls, n, kinds)
    BY <1>2, <2>1 DEF Own
  <2> QED BY <1>7, <2>2, <2>3 DEF new
<1> QED BY <1>6, <1>7

LEMMA KeyStays ==
  ASSUME NEW L, NEW ls \in Seq(L), NEW l \in L, NEW at \in 1 .. Len(ls) + 1
  PROVE  KeyOf(Append(ls, l), at) = KeyOf(ls, at)
<1> DEFINE new == Append(ls, l)
           tags == Between(ls, 0, at, KeyKinds)
           final == LastOf(tags)
           identity(s) == {x \in {y \in tags : Between(s, y, final, {"uri"}) = {}} : s[x].is = "identity"}
<1>1. Between(new, 0, at, KeyKinds) = tags
  BY BetweenStays
<1>2. CASE tags = {}
  BY <1>1, <1>2 DEF KeyOf
<1>3. CASE tags # {}
  <2>1. at \in Nat /\ tags \in SUBSET (1 .. at) /\ \A x \in tags : x \in Nat /\ 0 < x /\ x < at
    BY BetweenIsHere, Reading
  <2>2. final \in tags
    BY <1>3, <2>1, LastIsIn
  <2>3. final \in 0 .. Len(ls) + 1 /\ tags \subseteq 1 .. Len(ls)
    BY <2>1, <2>2, Reading
  <2>4. \A x \in tags : Between(new, x, final, {"uri"}) = Between(ls, x, final, {"uri"}) /\ new[x] = ls[x]
    BY <2>1, <2>3, BetweenStays, Reading
  <2>5. identity(new) = identity(ls)
    BY <2>4
  <2>6. identity(ls) # {} => LastOf(identity(ls)) \in tags
    <3>1. identity(ls) \in SUBSET (1 .. at)
      BY <2>1
    <3>2. identity(ls) \subseteq tags
      OBVIOUS
    <3> HIDE DEF identity
    <3> QED BY <2>1, <3>1, <3>2, LastIsIn
  <2>7. KeyOf(new, at) = IF identity(new) = {} THEN NoPlay ELSE new[LastOf(identity(new))].of
    <3> HIDE DEF new
    <3> QED BY <1>1, <1>3 DEF KeyOf
  <2>8. KeyOf(ls, at) = IF identity(ls) = {} THEN NoPlay ELSE ls[LastOf(identity(ls))].of
    BY <1>3 DEF KeyOf
  <2>9. identity(ls) # {} => new[LastOf(identity(ls))] = ls[LastOf(identity(ls))]
    BY <2>4, <2>6
  <2> HIDE DEF identity, new, tags
  <2>10. KeyOf(new, at) = KeyOf(ls, at)
    BY <2>5, <2>7, <2>8, <2>9
  <2> QED BY <2>10 DEF new
<1> QED BY <1>2, <1>3

\* Once a group of keys is open, it is the one that counts.
LEMMA KeySince ==
  ASSUME NEW ls, NEW n \in Nat, Own(ls, n, KeyKinds) # {}
  PROVE  LET identity == Own(ls, n, {"identity"})
         IN  KeyOf(ls, n) = IF identity = {} THEN NoPlay ELSE ls[LastOf(identity)].of
<1> DEFINE tags == Between(ls, 0, n, KeyKinds)
           final == LastOf(tags)
<1>1. n \in Nat
  OBVIOUS
<1>2. PICK own \in tags : Between(ls, own, n, {"uri"}) = {}
  BY DEF Own
<1>3. tags \in SUBSET (1 .. n) /\ \A x \in tags : x \in Nat /\ 0 < x /\ x < n
  BY <1>1, BetweenIsHere
<1>4. final \in tags /\ \A x \in tags : x <= final
  BY <1>1, <1>2, <1>3, LastIsIn
<1>5. \A x \in tags : Between(ls, x, final, {"uri"}) = {} <=> Between(ls, x, n, {"uri"}) = {}
  <2> TAKE x \in tags
  <2>1. own \in Nat /\ x \in Nat /\ final \in Nat /\ own <= final /\ final < n
    BY <1>2, <1>3, <1>4
  <2>2. ls[final].is # "uri"
    <3>1. ls[final].is \in KeyKinds
      BY <1>1, <1>4, BetweenIsHere
    <3> QED BY <3>1 DEF KeyKinds
  <2>3. \A y \in Between(ls, x, n, {"uri"}) : y \in Nat /\ x < y /\ y < final /\ ls[y].is = "uri"
    <3> TAKE y \in Between(ls, x, n, {"uri"})
    <3>1. y \in x + 1 .. n - 1 /\ ls[y].is \in {"uri"}
      BY DEF Between
    <3>2. y \in own + 1 .. n - 1 => y \in Between(ls, own, n, {"uri"})
      BY <3>1 DEF Between
    <3>3. y \notin own + 1 .. n - 1
      BY <1>2, <3>2
    <3>4. y \in Nat /\ x < y /\ y < n /\ ~(own < y)
      BY <1>1, <2>1, <3>1, <3>3
    <3>5. ls[y].is = "uri" /\ y # final
      BY <2>2, <3>1
    <3> QED BY <2>1, <3>4, <3>5
  <2>4. Between(ls, x, final, {"uri"}) = Between(ls, x, n, {"uri"})
    <3>1. x + 1 .. final - 1 \subseteq x + 1 .. n - 1
      BY <1>1, <2>1
    <3>3. Between(ls, x, final, {"uri"}) \subseteq Between(ls, x, n, {"uri"})
      BY <3>1 DEF Between
    <3>2. \A y \in Between(ls, x, n, {"uri"}) : y \in Between(ls, x, final, {"uri"})
      BY <2>1, <2>3 DEF Between
    <3> QED BY <3>2, <3>3
  <2> QED BY <2>4
<1>6. {x \in {y \in tags : Between(ls, y, final, {"uri"}) = {}} : ls[x].is = "identity"}
        = Own(ls, n, {"identity"})
  BY <1>5 DEF Own, Between, KeyKinds
<1> QED BY <1>2, <1>6 DEF KeyOf

LEMMA KeyGrows ==
  ASSUME NEW L, NEW ls \in Seq(L), NEW l \in L, NEW n \in Nat, n = Len(ls) + 1
  PROVE  LET identity == Own(ls, n, {"identity"})
         IN  KeyOf(Append(ls, l), n + 1)
               = IF l.is = "identity" THEN l.of
                 ELSE IF l.is # "drm" THEN KeyOf(ls, n)
                 ELSE IF identity = {} THEN NoPlay ELSE ls[LastOf(identity)].of
<1> DEFINE new == Append(ls, l)
           tags == Between(ls, 0, n, KeyKinds)
           identity == Own(ls, n, {"identity"})
           of(s, all) == {x \in {y \in all : Between(s, y, LastOf(all), {"uri"}) = {}} : s[x].is = "identity"}
<1>1. n \in Nat \ {0} /\ 0 \in 0 .. n - 1 /\ n + 1 \in Nat
  BY Reading
<1>2. /\ l.is \in KeyKinds => Between(new, 0, n + 1, KeyKinds) = tags \cup {n}
      /\ l.is \notin KeyKinds => Between(new, 0, n + 1, KeyKinds) = tags
  <2>1. 0 \in 0 .. n - 1
    BY <1>1
  <2> HIDE <1>1
  <2> QED BY <2>1, BetweenGrows
<1>3. tags \in SUBSET (1 .. n) /\ \A x \in tags : x \in Nat /\ 0 < x /\ x < n /\ new[x] = ls[x]
  <2>1. tags \in SUBSET (1 .. n) /\ \A x \in tags : x \in Nat /\ 0 < x /\ x < n
    BY <1>1, BetweenIsHere
  <2>2. \A x \in 1 .. Len(ls) : new[x] = ls[x]
    BY Reading
  <2>3. \A x \in tags : x \in 1 .. Len(ls)
    BY <1>1, <2>1, Reading
  <2> HIDE DEF new, tags
  <2> QED BY <2>1, <2>2, <2>3
<1>4. CASE l.is \notin KeyKinds
  <2>1. tags = {} => KeyOf(new, n + 1) = KeyOf(ls, n)
    BY <1>2, <1>4 DEF KeyOf
  <2>2. ASSUME tags # {}
        PROVE  KeyOf(new, n + 1) = KeyOf(ls, n)
    <3>1. LastOf(tags) \in tags
      BY <1>1, <1>3, <2>2, LastIsIn
    <3>2. \A x \in tags : Between(new, x, LastOf(tags), {"uri"}) = Between(ls, x, LastOf(tags), {"uri"})
      BY <1>1, <1>3, <3>1, BetweenStays
    <3>3. of(new, tags) = of(ls, tags)
      BY <1>3, <3>2
    <3>4. of(ls, tags) # {} => LastOf(of(ls, tags)) \in tags
      <4>1. of(ls, tags) \in SUBSET (1 .. n) /\ of(ls, tags) \subseteq tags
        BY <1>3
      <4> HIDE DEF of
      <4> QED BY <1>1, <4>1, LastIsIn
    <3>5. KeyOf(new, n + 1) = IF of(new, tags) = {} THEN NoPlay ELSE new[LastOf(of(new, tags))].of
      <4> HIDE DEF new
      <4> QED BY <1>2, <1>4, <2>2 DEF KeyOf
    <3>6. KeyOf(ls, n) = IF of(ls, tags) = {} THEN NoPlay ELSE ls[LastOf(of(ls, tags))].of
      BY <2>2 DEF KeyOf
    <3> HIDE DEF of, new
    <3> QED BY <1>3, <3>3, <3>4, <3>5, <3>6
  <2>3. KeyOf(new, n + 1) = KeyOf(ls, n)
    BY <2>1, <2>2
  <2> HIDE DEF new
  <2> QED BY <1>4, <2>3 DEF KeyKinds, new
<1>5. CASE l.is \in KeyKinds
  <2>1. Own(new, n + 1, KeyKinds) # {}
    <3>1. "uri" \notin KeyKinds /\ l.is # "uri"
      BY <1>5 DEF KeyKinds
    <3>2. Own(new, n + 1, KeyKinds) = Own(ls, n, KeyKinds) \cup {n}
      BY <1>5, <3>1, OwnGrows
    <3> QED BY <3>2
  <2>2. Own(new, n + 1, {"identity"}) = IF l.is = "identity" THEN identity \cup {n} ELSE identity
    <3>1. l.is # "uri"
      BY <1>5 DEF KeyKinds
    <3>2. /\ l.is # "uri" /\ l.is \in {"identity"} => Own(new, n + 1, {"identity"}) = identity \cup {n}
          /\ l.is # "uri" /\ l.is \notin {"identity"} => Own(new, n + 1, {"identity"}) = identity
      BY OwnGrows
    <3> QED BY <3>1, <3>2
  <2>3. KeyOf(new, n + 1) = IF Own(new, n + 1, {"identity"}) = {} THEN NoPlay
                            ELSE new[LastOf(Own(new, n + 1, {"identity"}))].of
    BY <1>1, <2>1, KeySince
  <2>4. identity \in SUBSET (1 .. n) /\ \A x \in identity : x \in Nat /\ 0 < x /\ x < n
    BY <1>1, OwnIsHere
  <2>5. CASE l.is = "identity"
    <3>1. LastOf(identity \cup {n}) = n
      <4>1. identity \cup {n} \in SUBSET Nat /\ \A x \in identity \cup {n} : x <= n
        BY <1>1, <2>4
      <4> HIDE DEF identity
      <4> QED BY <4>1, LastIsOnly
    <3>2. new[n] = l
      BY Reading
    <3> HIDE DEF new, identity
    <3> QED BY <2>2, <2>3, <2>5, <3>1, <3>2 DEF new
  <2>6. CASE l.is = "drm"
    <3>1. identity # {} => LastOf(identity) \in 1 .. n - 1
      <4>1. identity # {} => LastOf(identity) \in identity
        BY <1>1, <2>4, LastIsIn
      <4> QED BY <1>1, <2>4, <4>1
    <3>2. identity # {} => new[LastOf(identity)] = ls[LastOf(identity)]
      BY <3>1, Reading
    <3> HIDE DEF new, identity
    <3> QED BY <2>2, <2>3, <2>6, <3>2 DEF new, identity
  <2> QED BY <1>5, <2>5, <2>6 DEF KeyKinds
<1> QED BY <1>4, <1>5

\* Parts of a resource.
LEMMA PartsAreHere ==
  ASSUME NEW ls, NEW at \in Nat
  PROVE  /\ Parts(ls, at) \in SUBSET (1 .. at)
         /\ \A x \in Parts(ls, at) : x \in Nat /\ 0 < x /\ x < at /\ ls[x].is = "uri"
         /\ Parts(ls, at) # {} => LastOf(Parts(ls, at)) \in Parts(ls, at)
                                /\ \A x \in Parts(ls, at) : x <= LastOf(Parts(ls, at))
<1>1. /\ Parts(ls, at) \in SUBSET (1 .. at)
      /\ \A x \in Parts(ls, at) : x \in Nat /\ 0 < x /\ x < at /\ ls[x].is = "uri"
  BY DEF Between, Parts
<1> QED BY <1>1, LastIsIn

LEMMA PartsStay ==
  ASSUME NEW L, NEW ls \in Seq(L), NEW l \in L, NEW at \in 1 .. Len(ls) + 1
  PROVE  Parts(Append(ls, l), at) = Parts(ls, at)
<1>1. Between(Append(ls, l), 0, at, {"uri"}) = Between(ls, 0, at, {"uri"})
  BY BetweenStays
<1>2. \A x \in Between(ls, 0, at, {"uri"}) : Own(Append(ls, l), x, {"range"}) = Own(ls, x, {"range"})
  <2> TAKE x \in Between(ls, 0, at, {"uri"})
  <2>1. x \in 1 .. at - 1 /\ at - 1 <= Len(ls) /\ Len(ls) \in Nat
    BY DEF Between
  <2>2. x \in 1 .. Len(ls) + 1
    BY <2>1
  <2> QED BY <2>2, OwnStays
<1> QED BY <1>1, <1>2 DEF Parts

LEMMA PartsGrow ==
  ASSUME NEW L, NEW ls \in Seq(L), NEW l \in L, NEW n \in Nat, n = Len(ls) + 1
  PROVE  /\ l.is = "uri" /\ Own(ls, n, {"range"}) # {} => Parts(Append(ls, l), n + 1) = Parts(ls, n) \cup {n}
         /\ l.is # "uri" \/ Own(ls, n, {"range"}) = {} => Parts(Append(ls, l), n + 1) = Parts(ls, n)
<1> DEFINE new == Append(ls, l)
           Uri == {"uri"}
<1>1. 0 \in 0 .. n - 1 /\ n \in 1 .. Len(ls) + 1
  BY Reading
<1>2. /\ l.is \in Uri => Between(new, 0, n + 1, Uri) = Between(ls, 0, n, Uri) \cup {n}
      /\ l.is \notin Uri => Between(new, 0, n + 1, Uri) = Between(ls, 0, n, Uri)
  <2>1. 0 \in 0 .. n - 1
    BY <1>1
  <2> HIDE DEF Uri
  <2> QED BY <2>1, BetweenGrows
<1>3. \A x \in Between(ls, 0, n, Uri) \cup {n} : Own(new, x, {"range"}) = Own(ls, x, {"range"})
  <2> TAKE x \in Between(ls, 0, n, Uri) \cup {n}
  <2>1. x \in 1 .. Len(ls) + 1
    BY <1>1, BetweenIsHere, Reading
  <2> QED BY <2>1, OwnStays
<1> HIDE DEF new
<1> QED BY <1>2, <1>3 DEF Parts, new

LEMMA GivenStays ==
  ASSUME NEW L, NEW ls \in Seq(L), NEW l \in L, NEW at \in 1 .. Len(ls) + 1,
         Own(ls, at, {"range"}) # {}
  PROVE  Given(Append(ls, l), at) = Given(ls, at)
<1> DEFINE last == LastOf(Own(ls, at, {"range"}))
<1>1. at \in Nat /\ Own(Append(ls, l), at, {"range"}) = Own(ls, at, {"range"})
  BY OwnStays, Reading
<1>2. last \in Own(ls, at, {"range"})
  BY <1>1, OwnIsHere, LastIsIn
<1>3. last \in 1 .. Len(ls)
  BY <1>1, <1>2, OwnIsHere, Reading
<1>4. Append(ls, l)[last] = ls[last]
  BY <1>3, Reading
<1> QED BY <1>1, <1>4 DEF Given

LEMMA BeginsStays ==
  ASSUME NEW L, NEW ls \in Seq(L), NEW l \in L, NEW at \in 1 .. Len(ls),
         Own(ls, at, {"range"}) # {}
  PROVE  Begins(Append(ls, l), at) <=> Begins(ls, at)
<1>1. at \in 1 .. Len(ls) + 1 /\ at \in Nat
  BY Reading
<1>2. Parts(Append(ls, l), at) = Parts(ls, at)
  BY <1>1, PartsStay
<1>3. Given(Append(ls, l), at) = Given(ls, at)
  BY <1>1, GivenStays
<1>4. Append(ls, l)[at] = ls[at]
  BY Reading
<1>5. Parts(ls, at) # {} => Append(ls, l)[LastOf(Parts(ls, at))] = ls[LastOf(Parts(ls, at))]
  <2>1. Parts(ls, at) # {} => LastOf(Parts(ls, at)) \in 1 .. Len(ls)
    BY <1>1, PartsAreHere, Reading
  <2> QED BY <2>1, Reading
<1> QED BY <1>2, <1>3, <1>4, <1>5 DEF Begins

\* The parts up to a place that begin anew.
Beginnings(ls, at) == {x \in Parts(ls, at) : Begins(ls, x)}

LEMMA BeginningsStay ==
  ASSUME NEW L, NEW ls \in Seq(L), NEW l \in L, NEW at \in 1 .. Len(ls) + 1
  PROVE  Beginnings(Append(ls, l), at) = Beginnings(ls, at)
<1>1. at \in Nat /\ Parts(Append(ls, l), at) = Parts(ls, at)
  BY PartsStay, Reading
<1>2. \A x \in Parts(ls, at) : Begins(Append(ls, l), x) <=> Begins(ls, x)
  <2> TAKE x \in Parts(ls, at)
  <2>1. x \in 1 .. Len(ls)
    BY <1>1, PartsAreHere, Reading
  <2>2. Own(ls, x, {"range"}) # {}
    BY DEF Parts
  <2> QED BY <2>1, <2>2, BeginsStays
<1> QED BY <1>1, <1>2 DEF Beginnings

\* The first part begins anew.
LEMMA PartsBegin ==
  ASSUME NEW ls, NEW at \in Nat, Parts(ls, at) # {}
  PROVE  /\ Beginnings(ls, at) # {} /\ Beginnings(ls, at) \in SUBSET (1 .. at)
         /\ LastOf(Beginnings(ls, at)) \in Beginnings(ls, at)
         /\ LastOf(Beginnings(ls, at)) \in Parts(ls, at)
<1> DEFINE Less == OpToRel(<, Nat)
<1>1. PICK m \in Parts(ls, at) : \A x \in Parts(ls, at) : ~(<<x, m>> \in Less)
  <2>1. Parts(ls, at) \subseteq Nat
    BY PartsAreHere
  <2>2. IsWellFoundedOn(Less, Parts(ls, at))
    BY <2>1, NatLessThanWellFounded, IsWellFoundedOnSubset
  <2> HIDE DEF Less
  <2> QED BY <2>2, WFMin
<1>2. \A x \in Parts(ls, at) : ~(x < m)
  <2> TAKE x \in Parts(ls, at)
  <2>1. x \in Nat /\ m \in Nat
    BY PartsAreHere
  <2> QED BY <1>1, <2>1, Zenon DEF OpToRel
<1>3. m \in Nat /\ m < at
  BY PartsAreHere
<1>4. Parts(ls, m) \subseteq Parts(ls, at)
  BY <1>3 DEF Parts, Between
<1>5. Parts(ls, m) = {}
  BY <1>2, <1>3, <1>4, PartsAreHere
<1>6. m \in Beginnings(ls, at)
  BY <1>5 DEF Beginnings, Begins
<1>7. Beginnings(ls, at) \in SUBSET (1 .. at)
  BY PartsAreHere DEF Beginnings
<1>8. LastOf(Beginnings(ls, at)) \in Beginnings(ls, at)
  BY <1>6, <1>7, LastIsIn
<1> QED BY <1>6, <1>7, <1>8 DEF Beginnings

LEMMA OffsetStays ==
  ASSUME NEW L, NEW ls \in Seq(L), NEW l \in L, NEW at \in 1 .. Len(ls)
  PROVE  OffsetOf(Append(ls, l), at) = OffsetOf(ls, at)
<1> DEFINE new == Append(ls, l)
           first == LastOf(Beginnings(ls, at + 1))
<1>1. at + 1 \in 1 .. Len(ls) + 1 /\ at + 1 \in Nat
  BY Reading
<1>2. Parts(new, at + 1) = Parts(ls, at + 1) /\ Beginnings(new, at + 1) = Beginnings(ls, at + 1)
  BY <1>1, PartsStay, BeginningsStay
<1>3. ASSUME at \in Parts(ls, at + 1)
      PROVE  Given(new, first) = Given(ls, first)
  <2>1. first \in Parts(ls, at + 1)
    BY <1>1, <1>3, PartsBegin
  <2>2. first \in 1 .. Len(ls) + 1
    BY <1>1, <2>1, PartsAreHere, Reading
  <2>3. Own(ls, first, {"range"}) # {}
    BY <2>1 DEF Parts
  <2> QED BY <2>2, <2>3, GivenStays
<1> HIDE DEF new
<1> QED BY <1>2, <1>3 DEF OffsetOf, Beginnings, new

LEMMA PartsUpToLast ==
  ASSUME NEW ls, NEW n \in Nat, Parts(ls, n) # {}
  PROVE  Parts(ls, LastOf(Parts(ls, n)) + 1) = Parts(ls, n)
<1> DEFINE last == LastOf(Parts(ls, n))
<1>1. last \in Nat /\ last < n /\ \A x \in Parts(ls, n) : x \in Nat /\ x <= last
  BY PartsAreHere
<1> HIDE DEF last
<1>2. Parts(ls, last + 1) = Parts(ls, n)
  BY <1>1 DEF Parts, Between
<1> QED BY <1>2 DEF last

\* How the code gets from one sub-range to the next: what OffsetOf says of all at once.
LEMMA OffsetGrows ==
  ASSUME NEW L, NEW ls \in Seq(L), NEW l \in L, NEW n \in Nat, n = Len(ls) + 1,
         l.is = "uri",
         \A x \in 1 .. n : Own(ls, x, {"range"}) # {} => Given(ls, x) \in Int
  PROVE  LET parts == Parts(ls, n)
         IN  /\ Own(ls, n, {"range"}) = {} => OffsetOf(Append(ls, l), n) = Continues
             /\ Own(ls, n, {"range"}) # {} =>
                  OffsetOf(Append(ls, l), n)
                    = IF Given(ls, n) # Continues THEN Given(ls, n)
                      ELSE IF parts # {} /\ ls[LastOf(parts)].of = l.of THEN OffsetOf(ls, LastOf(parts)) + 1
                      ELSE 0
<1> DEFINE new == Append(ls, l)
           parts == Parts(ls, n)
           old == Beginnings(ls, n)
           after(S, x) == {y \in S : y > x}
<1>1. n \in 1 .. Len(ls) + 1 /\ new[n] = l /\ n + 1 \in Nat
  BY Reading
<1>2. \A x \in parts : x \in Nat /\ 0 < x /\ x < n
  BY PartsAreHere
<1>3. Parts(new, n) = parts /\ Beginnings(new, n) = old
  BY <1>1, PartsStay, BeginningsStay
<1>4. CASE Own(ls, n, {"range"}) = {}
  <2>1. Parts(new, n + 1) = parts
    BY <1>4, PartsGrow
  <2>2. n \notin Parts(new, n + 1)
    BY <1>2, <2>1
  <2> HIDE DEF new
  <2> QED BY <1>4, <2>2 DEF OffsetOf, new
<1>5. CASE Own(ls, n, {"range"}) # {}
  <2>1. Parts(new, n + 1) = parts \cup {n}
    BY <1>5, PartsGrow
  <2>2. Given(new, n) = Given(ls, n)
    BY <1>1, <1>5, GivenStays
  <2>3. parts # {} => new[LastOf(parts)] = ls[LastOf(parts)]
    <3>1. parts # {} => LastOf(parts) \in 1 .. Len(ls)
      BY <1>2, PartsAreHere, Reading
    <3> QED BY <3>1, Reading
  <2>4. Begins(new, n) <=> \/ Given(ls, n) # Continues
                           \/ parts = {}
                           \/ ls[LastOf(parts)].of # l.of
    <3> HIDE DEF new, parts
    <3> QED BY <1>1, <1>3, <2>2, <2>3 DEF Begins
  <2>5. {x \in Parts(new, n + 1) : Begins(new, x)} = IF Begins(new, n) THEN old \cup {n} ELSE old
    <3> HIDE DEF new
    <3> QED BY <1>3, <2>1 DEF Beginnings
  <2>6. ASSUME Begins(new, n)
        PROVE  OffsetOf(new, n) = IF Given(ls, n) = Continues THEN 0 ELSE Given(ls, n)
    <3>1. old \cup {n} \in SUBSET Nat /\ \A x \in old \cup {n} : x <= n
      BY <1>2 DEF Beginnings
    <3>2. LastOf(old \cup {n}) = n
      BY <3>1, LastIsOnly
    <3>3. after(parts \cup {n}, n) = {}
      BY <1>2
    <3>4. Cardinality({y \in Parts(new, n + 1) : y > n}) = 0
      BY <2>1, <3>3, FS_EmptySet
    <3>5. OffsetOf(new, n) = (IF Given(new, n) = Continues THEN 0 ELSE Given(new, n)) + 0
      <4> HIDE DEF new
      <4> QED BY <2>1, <2>5, <2>6, <3>2, <3>4 DEF OffsetOf
    <3>6. Given(ls, n) \in Int
      BY <1>1, <1>5
    <3> QED BY <2>2, <3>5, <3>6
  <2>7. ASSUME ~Begins(new, n)
        PROVE  OffsetOf(new, n) = OffsetOf(ls, LastOf(parts)) + 1
    <3>1. parts # {}
      BY <2>4, <2>7
    <3> DEFINE first == LastOf(old)
               last == LastOf(parts)
               start(s) == IF Given(s, first) = Continues THEN 0 ELSE Given(s, first)
    <3>2. first \in parts
      BY <3>1, PartsBegin
    <3>3. Given(new, first) = Given(ls, first)
      <4>1. first \in 1 .. Len(ls) + 1
        BY <1>2, <3>2, Reading
      <4>2. Own(ls, first, {"range"}) # {}
        BY <3>2 DEF Parts
      <4> QED BY <4>1, <4>2, GivenStays
    <3>4. Cardinality(after(parts \cup {n}, first)) = Cardinality(after(parts, first)) + 1
          /\ Cardinality(after(parts, first)) \in Nat
      <4>1. after(parts \cup {n}, first) = after(parts, first) \cup {n} /\ n \notin after(parts, first)
        BY <1>2, <3>2
      <4>2. IsFiniteSet(after(parts, first))
        <5>1. after(parts, first) \in SUBSET (1 .. n)
          BY <1>2
        <5>2. IsFiniteSet(1 .. n)
          BY FS_Interval
        <5> HIDE DEF after
        <5> QED BY <5>1, <5>2, FS_Subset
      <4>3. PICK old1 : old1 = after(parts, first)
        OBVIOUS
      <4>4. IsFiniteSet(old1) /\ n \notin old1
        BY <4>1, <4>2, <4>3
      <4>5. Cardinality(old1 \cup {n}) = Cardinality(old1) + 1 /\ Cardinality(old1) \in Nat
        BY <4>4, FS_AddElement, FS_CardinalityType
      <4> HIDE DEF after
      <4> QED BY <4>1, <4>3, <4>5
    <3>5. OffsetOf(new, n) = start(new) + Cardinality(after(parts \cup {n}, first))
      <4> HIDE DEF new, parts, old
      <4> QED BY <2>1, <2>5, <2>7 DEF OffsetOf
    <3>6. OffsetOf(ls, last) = start(ls) + Cardinality(after(parts, first))
      <4>1. Parts(ls, last + 1) = parts
        BY <3>1, PartsUpToLast
      <4>2. {x \in parts : Begins(ls, x)} = old
        BY DEF Beginnings
      <4>3. last \in parts
        BY <3>1, PartsAreHere
      <4> HIDE DEF last, parts, old
      <4> QED BY <4>1, <4>2, <4>3 DEF OffsetOf
    <3>7. start(ls) \in Int /\ start(new) = start(ls)
      <4>1. first \in 1 .. n
        BY <1>2, <3>2
      <4>2. Own(ls, first, {"range"}) # {}
        BY <3>2 DEF Parts
      <4> QED BY <3>3, <4>1, <4>2
    <3> HIDE DEF start, after, first, last, new
    <3> QED BY <3>4, <3>5, <3>6, <3>7 DEF last
  <2> HIDE DEF new
  <2> QED BY <1>5, <2>4, <2>6, <2>7 DEF new
<1> QED BY <1>4, <1>5

-----------------------------------------------------------------------------

\* What the parser ps knows when it has read the lines ls.
Lines == UriLines \cup IdentityLines \cup {DrmLine} \cup RangeLines \cup DiscLines \cup {MapLine}
NextPlace(ls) == Len(ls) + 1
Parsers == [key : AesKeys \cup {Clear, NoPlay}, identity : BOOLEAN, sinceSeg : BOOLEAN, ranged : BOOLEAN,
            off : Offsets \cup {Continues}, prevUri : Uris \cup {NoUri}, prevEnd : Nat, disc : BOOLEAN]

\* The parser's own rule, exactly: either tag about discontinuities raises the flag.
DiscKinds == {"discontinuity", "discontinuity-sequence"}
SegmentOf(ls, at) ==
  [uri |-> ls[at].of, off |-> OffsetOf(ls, at), key |-> KeyOf(ls, at), disc |-> Own(ls, at, DiscKinds) # {}]

KeyKnown(ls, ps) ==
  /\ ps.key = KeyOf(ls, NextPlace(ls))
  /\ ps.sinceSeg <=> Own(ls, NextPlace(ls), KeyKinds) # {}
  /\ ps.sinceSeg => (ps.identity <=> Own(ls, NextPlace(ls), {"identity"}) # {})
RangeKnown(ls, ps) ==
  /\ ps.ranged <=> Own(ls, NextPlace(ls), {"range"}) # {}
  /\ ps.off = IF ps.ranged THEN Given(ls, NextPlace(ls)) ELSE Continues
DiscKnown(ls, ps) == ps.disc <=> Own(ls, NextPlace(ls), DiscKinds) # {}
PartsKnown(ls, ps) ==
  LET parts == Parts(ls, NextPlace(ls))
  IN  IF parts = {} THEN ps.prevEnd = 0
      ELSE ps.prevUri = ls[LastOf(parts)].of /\ ps.prevEnd = OffsetOf(ls, LastOf(parts)) + 1
Known(ls, ps) == KeyKnown(ls, ps) /\ RangeKnown(ls, ps) /\ DiscKnown(ls, ps) /\ PartsKnown(ls, ps)

\* What PlaylistIsRead says and the parser's rule adds, of any lines and result.
SegsRead(ls, segs) ==
  /\ Len(segs) = Cardinality(Playable(ls))
  /\ \A at \in Playable(ls) : segs[Cardinality({x \in Playable(ls) : x <= at})] = SegmentOf(ls, at)
InitRead(ls, init) ==
  LET maps == Between(ls, 0, NextPlace(ls), {"map"})
  IN  init = IF maps = {} THEN NoUri ELSE KeyOf(ls, LastOf(maps)).uri
Rejected(ls) == \E at \in 1 .. Len(ls) : ls[at].is \in {"uri", "map"} /\ KeyOf(ls, at) = NoPlay

ParserInv ==
  /\ lines \in Seq(Lines) /\ list.segs \in Seq([uri : Uris, off : Int, key : AesKeys \cup {Clear}, disc : BOOLEAN])
  /\ list = [segs |-> list.segs, init |-> list.init]
  /\ parser \in Parsers /\ verdict \in {0, -2}
  /\ SegsRead(lines, list.segs) /\ InitRead(lines, list.init)
  /\ verdict = -2 <=> Rejected(lines)
  /\ verdict = 0 => Known(lines, parser)

LEMMA LineKinds ==
  ASSUME NEW l \in Lines
  PROVE  /\ l.is \in {"uri", "identity", "drm", "range", "discontinuity", "discontinuity-sequence", "map"}
         /\ l.is = "uri" => l.of \in Uris
         /\ l.is = "identity" => l.of \in AesKeys \cup {Clear, NoPlay}
         /\ l.is = "range" => l.of \in Offsets \cup {Continues}
BY DEF Lines, UriLines, IdentityLines, DrmLine, RangeLines, DiscLines, MapLine

\* Each kind of knowledge, after one more line.
LEMMA KeyKnownNext ==
  ASSUME NEW ls \in Seq(Lines), NEW l \in Lines, NEW ps, NEW qs, KeyKnown(ls, ps),
         \/ l.is = "uri" /\ qs.key = ps.key /\ ~qs.sinceSeg
         \/ l.is = "identity" /\ qs.key = l.of /\ qs.sinceSeg = TRUE /\ qs.identity = TRUE
         \/ /\ l.is = "drm" /\ qs.sinceSeg = TRUE
            /\ qs.identity = (ps.sinceSeg /\ ps.identity)
            /\ qs.key = IF ps.sinceSeg /\ ps.identity THEN ps.key ELSE NoPlay
         \/ /\ l.is \notin {"uri", "identity", "drm"}
            /\ qs.key = ps.key /\ qs.sinceSeg = ps.sinceSeg /\ qs.identity = ps.identity
  PROVE  KeyKnown(Append(ls, l), qs)
<1> DEFINE new == Append(ls, l)
           identity == Own(ls, NextPlace(ls), {"identity"})
<1>1. PICK n \in Nat : n = Len(ls) + 1
  BY Reading
<1>2. NextPlace(ls) = n /\ NextPlace(new) = n + 1
  BY <1>1, Reading DEF NextPlace
<1>3. /\ l.is = "identity" => KeyOf(new, n + 1) = l.of
      /\ l.is = "drm" /\ identity = {} => KeyOf(new, n + 1) = NoPlay
      /\ l.is = "drm" /\ identity # {} => KeyOf(new, n + 1) = ls[LastOf(identity)].of
      /\ l.is \notin {"identity", "drm"} => KeyOf(new, n + 1) = KeyOf(ls, n)
  <2>1. KeyOf(new, n + 1) = IF l.is = "identity" THEN l.of
                            ELSE IF l.is # "drm" THEN KeyOf(ls, n)
                            ELSE IF identity = {} THEN NoPlay ELSE ls[LastOf(identity)].of
    BY <1>1, <1>2, KeyGrows
  <2> QED BY <2>1
<1>4. \A kinds \in {KeyKinds, {"identity"}} :
        /\ l.is = "uri" => Own(new, n + 1, kinds) = {}
        /\ l.is # "uri" /\ l.is \in kinds => Own(new, n + 1, kinds) = Own(ls, n, kinds) \cup {n}
        /\ l.is # "uri" /\ l.is \notin kinds => Own(new, n + 1, kinds) = Own(ls, n, kinds)
  <2> TAKE kinds \in {KeyKinds, {"identity"}}
  <2>1. "uri" \notin kinds
    BY DEF KeyKinds
  <2> QED BY <1>1, <2>1, OwnGrows
<1>5. ps.sinceSeg /\ ps.identity => KeyOf(ls, n) = ls[LastOf(identity)].of
  <2>1. ASSUME ps.sinceSeg, ps.identity
        PROVE  Own(ls, n, KeyKinds) # {} /\ Own(ls, n, {"identity"}) # {}
    BY <1>2, <2>1 DEF KeyKnown
  <2> QED BY <1>2, <2>1, KeySince
<1>6. identity # {} => Own(ls, n, KeyKinds) # {}
  BY <1>2 DEF Own, Between, KeyKinds
<1>7. /\ ps.key = KeyOf(ls, n)
      /\ ps.sinceSeg <=> Own(ls, n, KeyKinds) # {}
      /\ ps.sinceSeg => (ps.identity <=> identity # {})
  BY <1>2 DEF KeyKnown
<1>8. /\ l.is = "uri" => Own(new, n + 1, KeyKinds) = {}
      /\ l.is = "identity" => n \in Own(new, n + 1, KeyKinds) /\ n \in Own(new, n + 1, {"identity"})
      /\ l.is = "drm" => n \in Own(new, n + 1, KeyKinds) /\ Own(new, n + 1, {"identity"}) = identity
      /\ l.is \notin {"uri", "identity", "drm"} =>
           Own(new, n + 1, KeyKinds) = Own(ls, n, KeyKinds) /\ Own(new, n + 1, {"identity"}) = identity
  BY <1>2, <1>4 DEF KeyKinds
<1> HIDE DEF new, identity
<1>9. /\ qs.key = KeyOf(new, n + 1)
      /\ qs.sinceSeg <=> Own(new, n + 1, KeyKinds) # {}
      /\ qs.sinceSeg => (qs.identity <=> Own(new, n + 1, {"identity"}) # {})
  <2>1. CASE l.is = "uri"
    BY <2>1, <1>3, <1>7, <1>8
  <2>2. CASE l.is = "identity"
    BY <2>2, <1>3, <1>7, <1>8
  <2>3. CASE l.is = "drm"
    <3>1. qs.sinceSeg = TRUE /\ qs.identity = (ps.sinceSeg /\ ps.identity)
          /\ qs.key = IF ps.sinceSeg /\ ps.identity THEN ps.key ELSE NoPlay
      BY <2>3
    <3>2. (ps.sinceSeg /\ ps.identity) <=> identity # {}
      BY <1>6, <1>7
    <3> QED BY <2>3, <1>3, <1>5, <1>7, <1>8, <3>1, <3>2
  <2>4. CASE l.is \notin {"uri", "identity", "drm"}
    BY <2>4, <1>3, <1>7, <1>8
  <2> QED BY <2>1, <2>2, <2>3, <2>4
<1> QED BY <1>2, <1>9 DEF KeyKnown, new

LEMMA RangeKnownNext ==
  ASSUME NEW ls \in Seq(Lines), NEW l \in Lines, NEW ps, NEW qs, RangeKnown(ls, ps),
         \/ l.is = "uri" /\ ~qs.ranged /\ qs.off = Continues
         \/ l.is = "range" /\ qs.ranged = TRUE /\ qs.off = l.of
         \/ l.is \notin {"uri", "range"} /\ qs.ranged = ps.ranged /\ qs.off = ps.off
  PROVE  RangeKnown(Append(ls, l), qs)
<1> DEFINE new == Append(ls, l)
           own == Own(ls, NextPlace(ls), {"range"})
<1>1. PICK n \in Nat : n = Len(ls) + 1
  BY Reading
<1>2. NextPlace(ls) = n /\ NextPlace(new) = n + 1 /\ new[n] = l
  BY <1>1, Reading DEF NextPlace
<1>3. /\ l.is = "uri" => Own(new, n + 1, {"range"}) = {}
      /\ l.is = "range" => Own(new, n + 1, {"range"}) = own \cup {n}
      /\ l.is \notin {"uri", "range"} => Own(new, n + 1, {"range"}) = own
  <2> DEFINE kinds == {"range"}
  <2>1. "uri" \notin kinds /\ (l.is \in kinds <=> l.is = "range")
    OBVIOUS
  <2> HIDE DEF kinds
  <2>2. /\ l.is = "uri" => Own(new, n + 1, kinds) = {}
        /\ l.is # "uri" /\ l.is \in kinds => Own(new, n + 1, kinds) = Own(ls, n, kinds) \cup {n}
        /\ l.is # "uri" /\ l.is \notin kinds => Own(new, n + 1, kinds) = Own(ls, n, kinds)
    BY <1>1, <2>1, OwnGrows
  <2> QED BY <1>2, <2>1, <2>2 DEF kinds
<1>4. \A x \in own : x \in Nat /\ 0 < x /\ x < n
  BY <1>2, OwnIsHere
<1>5. l.is = "range" => Given(new, n + 1) = l.of
  <2>1. own \cup {n} \in SUBSET Nat /\ \A x \in own \cup {n} : x <= n
    BY <1>4
  <2>2. LastOf(own \cup {n}) = n
    <3> HIDE DEF own
    <3> QED BY <2>1, LastIsOnly
  <2> HIDE DEF new
  <2> QED BY <1>2, <1>3, <2>2 DEF Given
<1>6. l.is \notin {"uri", "range"} /\ own # {} => Given(new, n + 1) = Given(ls, n)
  <2>1. own # {} => LastOf(own) \in own
    BY <1>2, OwnIsHere, LastIsIn
  <2>2. own # {} => LastOf(own) \in 1 .. Len(ls)
    BY <1>1, <1>4, <2>1
  <2>3. own # {} => new[LastOf(own)] = ls[LastOf(own)]
    BY <2>2, Reading
  <2> HIDE DEF new
  <2> QED BY <1>2, <1>3, <2>3 DEF Given
<1>7. (ps.ranged <=> own # {}) /\ ps.off = IF ps.ranged THEN Given(ls, n) ELSE Continues
  BY <1>2 DEF RangeKnown
<1> HIDE DEF new, own
<1>8. /\ qs.ranged <=> Own(new, n + 1, {"range"}) # {}
      /\ qs.off = IF qs.ranged THEN Given(new, n + 1) ELSE Continues
  BY <1>3, <1>5, <1>6, <1>7
<1> QED BY <1>2, <1>8 DEF RangeKnown, new

LEMMA DiscKnownNext ==
  ASSUME NEW ls \in Seq(Lines), NEW l \in Lines, NEW ps, NEW qs, DiscKnown(ls, ps),
         \/ l.is = "uri" /\ ~qs.disc
         \/ l.is \in DiscKinds /\ qs.disc = TRUE
         \/ l.is \notin {"uri"} \cup DiscKinds /\ qs.disc = ps.disc
  PROVE  DiscKnown(Append(ls, l), qs)
<1> DEFINE new == Append(ls, l)
<1>1. PICK n \in Nat : n = Len(ls) + 1
  BY Reading
<1>2. NextPlace(ls) = n /\ NextPlace(new) = n + 1
  BY <1>1, Reading DEF NextPlace
<1>3. "uri" \notin DiscKinds
  BY DEF DiscKinds
<1>4. /\ l.is = "uri" => Own(new, n + 1, DiscKinds) = {}
      /\ l.is # "uri" /\ l.is \in DiscKinds => Own(new, n + 1, DiscKinds) = Own(ls, n, DiscKinds) \cup {n}
      /\ l.is # "uri" /\ l.is \notin DiscKinds => Own(new, n + 1, DiscKinds) = Own(ls, n, DiscKinds)
  BY <1>1, <1>3, OwnGrows
<1> HIDE DEF new
<1> QED BY <1>2, <1>3, <1>4 DEF DiscKnown, new

LEMMA GivenTyped ==
  ASSUME NEW ls \in Seq(Lines), NEW at \in 1 .. Len(ls) + 1, Own(ls, at, {"range"}) # {}
  PROVE  Given(ls, at) \in Offsets \cup {Continues} /\ Given(ls, at) \in Int
<1> DEFINE last == LastOf(Own(ls, at, {"range"}))
<1>0. at \in Nat
  OBVIOUS
<1>1. last \in Own(ls, at, {"range"})
  BY <1>0, OwnIsHere, LastIsIn
<1>2. last \in 1 .. Len(ls) /\ ls[last].is = "range"
  <2>1. last \in Nat /\ 0 < last /\ last < at /\ ls[last].is \in {"range"}
    BY <1>0, <1>1, OwnIsHere
  <2> HIDE DEF last
  <2> QED BY <2>1
<1>3. ls[last] \in Lines
  <2>1. \A x \in 1 .. Len(ls) : ls[x] \in Lines
    BY Reading
  <2> HIDE DEF last
  <2> QED BY <1>2, <2>1
<1>4. Given(ls, at) = ls[last].of
  BY DEF Given
<1> HIDE DEF last
<1>5. ls[last].of \in Offsets \cup {Continues}
  BY <1>2, <1>3, LineKinds
<1>6. \A x \in Offsets \cup {Continues} : x \in Int
  BY PlaylistAssumption DEF Continues
<1> QED BY <1>4, <1>5, <1>6

\* The offset the parser gives to a segment.
LEMMA OffsetRead ==
  ASSUME NEW ls \in Seq(Lines), NEW l \in Lines, l.is = "uri", NEW ps \in Parsers,
         RangeKnown(ls, ps), PartsKnown(ls, ps)
  PROVE  OffsetOf(Append(ls, l), NextPlace(ls))
           = IF ~ps.ranged THEN Continues
             ELSE IF ps.off # Continues THEN ps.off
             ELSE IF ps.prevUri = l.of THEN ps.prevEnd ELSE 0
<1> DEFINE new == Append(ls, l)
           parts == Parts(ls, NextPlace(ls))
<1>1. PICK n \in Nat : n = Len(ls) + 1
  BY Reading
<1>2. NextPlace(ls) = n
  BY <1>1 DEF NextPlace
<1>3. \A x \in 1 .. n : Own(ls, x, {"range"}) # {} => Given(ls, x) \in Int
  BY <1>1, GivenTyped
<1>4. /\ Own(ls, n, {"range"}) = {} => OffsetOf(new, n) = Continues
      /\ Own(ls, n, {"range"}) # {} =>
           OffsetOf(new, n)
             = IF Given(ls, n) # Continues THEN Given(ls, n)
               ELSE IF parts # {} /\ ls[LastOf(parts)].of = l.of THEN OffsetOf(ls, LastOf(parts)) + 1
               ELSE 0
  BY <1>1, <1>2, <1>3, OffsetGrows
<1>5. /\ ps.ranged <=> Own(ls, n, {"range"}) # {}
      /\ ps.ranged => ps.off = Given(ls, n)
      /\ parts = {} => ps.prevEnd = 0
      /\ parts # {} => ps.prevUri = ls[LastOf(parts)].of /\ ps.prevEnd = OffsetOf(ls, LastOf(parts)) + 1
  BY <1>2 DEF RangeKnown, PartsKnown
<1> HIDE DEF new, parts
<1>6. OffsetOf(new, n) = IF ~ps.ranged THEN Continues
             ELSE IF ps.off # Continues THEN ps.off
             ELSE IF ps.prevUri = l.of THEN ps.prevEnd ELSE 0
  <2>1. CASE ~ps.ranged
    BY <2>1, <1>4, <1>5
  <2>2. CASE ps.ranged /\ ps.off # Continues
    BY <2>2, <1>4, <1>5
  <2>3. CASE ps.ranged /\ ps.off = Continues /\ parts = {}
    BY <2>3, <1>4, <1>5
  <2>4. CASE ps.ranged /\ ps.off = Continues /\ parts # {}
    BY <2>4, <1>4, <1>5
  <2> QED BY <2>1, <2>2, <2>3, <2>4
<1> QED BY <1>2, <1>6 DEF new

LEMMA PartsKnownNext ==
  ASSUME NEW ls \in Seq(Lines), NEW l \in Lines, NEW ps, NEW qs, RangeKnown(ls, ps), PartsKnown(ls, ps),
         \/ /\ l.is = "uri" /\ ps.ranged
            /\ qs.prevUri = l.of /\ qs.prevEnd = OffsetOf(Append(ls, l), NextPlace(ls)) + 1
         \/ /\ ~(l.is = "uri" /\ ps.ranged)
            /\ qs.prevUri = ps.prevUri /\ qs.prevEnd = ps.prevEnd
  PROVE  PartsKnown(Append(ls, l), qs)
<1> DEFINE new == Append(ls, l)
           parts == Parts(ls, NextPlace(ls))
           last == LastOf(parts)
<1>1. PICK n \in Nat : n = Len(ls) + 1
  BY Reading
<1>2. NextPlace(ls) = n /\ NextPlace(new) = n + 1 /\ new[n] = l
  BY <1>1, Reading DEF NextPlace
<1>3. ps.ranged <=> Own(ls, n, {"range"}) # {}
  BY <1>2 DEF RangeKnown
<1>4. CASE l.is = "uri" /\ ps.ranged
  <2>1. Parts(new, n + 1) = parts \cup {n}
    BY <1>1, <1>2, <1>3, <1>4, PartsGrow
  <2>2. parts \cup {n} \in SUBSET Nat /\ \A x \in parts \cup {n} : x <= n
    BY <1>2, PartsAreHere
  <2>3. LastOf(Parts(new, n + 1)) = n
    <3> HIDE DEF parts
    <3> QED BY <2>1, <2>2, LastIsOnly
  <2> HIDE DEF new
  <2>4. qs.prevUri = l.of /\ qs.prevEnd = OffsetOf(new, n) + 1
    BY <1>2, <1>4 DEF new
  <2> QED BY <1>2, <2>1, <2>3, <2>4 DEF PartsKnown, new
<1>5. CASE ~(l.is = "uri" /\ ps.ranged)
  <2>1. Parts(new, n + 1) = parts
    BY <1>1, <1>2, <1>3, <1>5, PartsGrow
  <2>2. parts # {} => last \in 1 .. Len(ls)
    BY <1>1, <1>2, PartsAreHere
  <2>3. parts # {} => new[last] = ls[last] /\ OffsetOf(new, last) = OffsetOf(ls, last)
    BY <2>2, Reading, OffsetStays
  <2> HIDE DEF new
  <2> QED BY <1>2, <1>5, <2>1, <2>3 DEF PartsKnown, new
<1> QED BY <1>4, <1>5

\* The result, after one more line.
LEMMA SegmentStays ==
  ASSUME NEW ls \in Seq(Lines), NEW l \in Lines, NEW at \in 1 .. Len(ls)
  PROVE  SegmentOf(Append(ls, l), at) = SegmentOf(ls, at)
<1>1. at \in 1 .. Len(ls) + 1
  OBVIOUS
<1>2. /\ Append(ls, l)[at] = ls[at] /\ OffsetOf(Append(ls, l), at) = OffsetOf(ls, at)
      /\ KeyOf(Append(ls, l), at) = KeyOf(ls, at)
      /\ Own(Append(ls, l), at, DiscKinds) = Own(ls, at, DiscKinds)
  BY <1>1, Reading, OffsetStays, KeyStays, OwnStays
<1> QED BY <1>2 DEF SegmentOf

LEMMA PlayableNext ==
  ASSUME NEW ls \in Seq(Lines), NEW l \in Lines, NEW n \in Nat, n = Len(ls) + 1
  PROVE  /\ Playable(ls) \in SUBSET (1 .. n - 1) /\ IsFiniteSet(Playable(ls))
         /\ l.is = "uri" /\ KeyOf(ls, n) # NoPlay => Playable(Append(ls, l)) = Playable(ls) \cup {n}
         /\ ~(l.is = "uri" /\ KeyOf(ls, n) # NoPlay) => Playable(Append(ls, l)) = Playable(ls)
<1> DEFINE new == Append(ls, l)
           Uri == {"uri"}
<1>1. n \in Nat \ {0} /\ 0 \in 0 .. n - 1 /\ Len(new) + 1 = n + 1
  BY Reading
<1>2. /\ l.is \in Uri => Between(new, 0, n + 1, Uri) = Between(ls, 0, n, Uri) \cup {n}
      /\ l.is \notin Uri => Between(new, 0, n + 1, Uri) = Between(ls, 0, n, Uri)
  <2> HIDE DEF Uri
  <2> QED BY <1>1, BetweenGrows
<1>3. Between(ls, 0, n, Uri) \in SUBSET (1 .. n - 1)
  BY DEF Between
<1>4. \A x \in 1 .. n : KeyOf(new, x) = KeyOf(ls, x)
  BY KeyStays
<1>5. Playable(ls) \in SUBSET (1 .. n - 1)
  BY <1>3 DEF Playable
<1>6. IsFiniteSet(Playable(ls))
  <2>1. IsFiniteSet(1 .. n - 1)
    BY FS_Interval
  <2> QED BY <1>5, <2>1, FS_Subset
<1>7. Playable(new) = {x \in Between(new, 0, n + 1, Uri) : KeyOf(new, x) # NoPlay}
  <2> HIDE DEF new
  <2> QED BY <1>1 DEF Playable
<1>8. Playable(ls) = {x \in Between(ls, 0, n, Uri) : KeyOf(ls, x) # NoPlay}
  BY DEF Playable
<1>9. l.is \in Uri <=> l.is = "uri"
  OBVIOUS
<1> HIDE DEF new, Uri
<1>10. /\ l.is = "uri" /\ KeyOf(ls, n) # NoPlay => Playable(new) = Playable(ls) \cup {n}
       /\ ~(l.is = "uri" /\ KeyOf(ls, n) # NoPlay) => Playable(new) = Playable(ls)
  BY <1>1, <1>2, <1>3, <1>4, <1>7, <1>8, <1>9
<1> QED BY <1>5, <1>6, <1>10 DEF new

LEMMA SegsReadSame ==
  ASSUME NEW ls \in Seq(Lines), NEW l \in Lines, NEW segs, SegsRead(ls, segs),
         ~(l.is = "uri" /\ KeyOf(ls, NextPlace(ls)) # NoPlay)
  PROVE  SegsRead(Append(ls, l), segs)
<1>1. PICK n \in Nat : n = Len(ls) + 1 /\ n = NextPlace(ls)
  BY Reading DEF NextPlace
<1>2. Playable(Append(ls, l)) = Playable(ls) /\ Playable(ls) \subseteq 1 .. Len(ls)
  BY <1>1, PlayableNext
<1>3. \A at \in Playable(ls) : SegmentOf(Append(ls, l), at) = SegmentOf(ls, at)
  BY <1>2, SegmentStays
<1> QED BY <1>2, <1>3 DEF SegsRead

LEMMA SegsReadMore ==
  ASSUME NEW ls \in Seq(Lines), NEW l \in Lines, NEW S, NEW segs \in Seq(S), SegsRead(ls, segs),
         l.is = "uri", KeyOf(ls, NextPlace(ls)) # NoPlay, NEW s \in S, s = SegmentOf(Append(ls, l), NextPlace(ls))
  PROVE  SegsRead(Append(ls, l), Append(segs, s))
<1> DEFINE new == Append(ls, l)
           upto(T, at) == {x \in T : x <= at}
<1>1. PICK n \in Nat : n = Len(ls) + 1 /\ n = NextPlace(ls)
  BY Reading DEF NextPlace
<1>2. PICK old : old = Playable(ls)
  OBVIOUS
<1>3. Playable(new) = old \cup {n} /\ old \in SUBSET (1 .. n - 1) /\ IsFiniteSet(old)
  BY <1>1, <1>2, PlayableNext
<1>4. Cardinality(old) = Len(segs) /\ Cardinality(old \cup {n}) = Len(segs) + 1 /\ Len(segs) \in Nat
  <2>1. n \notin old
    BY <1>3
  <2>2. Cardinality(old) = Len(segs) /\ Len(segs) \in Nat
    BY <1>2 DEF SegsRead
  <2>3. Cardinality(old \cup {n}) = Cardinality(old) + 1
    BY <1>3, <2>1, FS_AddElement
  <2> QED BY <2>2, <2>3
<1>5. ASSUME NEW at \in old
      PROVE  Append(segs, s)[Cardinality(upto(old \cup {n}, at))] = SegmentOf(new, at)
  <2>1. upto(old \cup {n}, at) = upto(old, at) /\ at \in upto(old, at) /\ upto(old, at) \in SUBSET old
    BY <1>3
  <2>2. Cardinality(upto(old, at)) \in 1 .. Len(segs)
    <3>1. PICK U : U = upto(old, at)
      OBVIOUS
    <3>2. IsFiniteSet(U) /\ Cardinality(U) <= Cardinality(old)
      BY <1>3, <2>1, <3>1, FS_Subset
    <3>3. Cardinality(U) \in Nat /\ Cardinality(U) # 0
      BY <2>1, <3>1, <3>2, FS_CardinalityType, FS_EmptySet
    <3> QED BY <1>4, <3>1, <3>2, <3>3
  <2>3. segs[Cardinality(upto(old, at))] = SegmentOf(ls, at)
    BY <1>2 DEF SegsRead
  <2>4. SegmentOf(new, at) = SegmentOf(ls, at)
    BY <1>1, <1>3, SegmentStays
  <2> HIDE DEF upto, new
  <2>5. Append(segs, s)[Cardinality(upto(old, at))] = segs[Cardinality(upto(old, at))]
    BY <2>2
  <2> QED BY <2>1, <2>3, <2>4, <2>5
<1>6. Append(segs, s)[Cardinality(upto(old \cup {n}, n))] = SegmentOf(new, n)
  <2>1. upto(old \cup {n}, n) = old \cup {n}
    <3>1. \A x \in old \cup {n} : x <= n
      BY <1>3
    <3> QED BY <3>1
  <2> HIDE DEF upto, new
  <2>2. Append(segs, s)[Len(segs) + 1] = s
    BY <1>4
  <2> QED BY <1>1, <1>4, <2>1, <2>2 DEF new
<1>7. Len(Append(segs, s)) = Len(segs) + 1
  OBVIOUS
<1> HIDE DEF new
<1> QED BY <1>3, <1>4, <1>5, <1>6, <1>7 DEF SegsRead, new

LEMMA InitReadNext ==
  ASSUME NEW ls \in Seq(Lines), NEW l \in Lines, NEW init, NEW newInit, InitRead(ls, init),
         \/ l.is = "map" /\ newInit = KeyOf(ls, NextPlace(ls)).uri
         \/ l.is # "map" /\ newInit = init
  PROVE  InitRead(Append(ls, l), newInit)
<1> DEFINE new == Append(ls, l)
           Map == {"map"}
           maps == Between(ls, 0, NextPlace(ls), Map)
<1>1. PICK n \in Nat : n = Len(ls) + 1
  BY Reading
<1>2. NextPlace(ls) = n /\ NextPlace(new) = n + 1 /\ n \in 1 .. Len(ls) + 1
  BY <1>1, Reading DEF NextPlace
<1>7. 0 \in 0 .. n - 1
  BY <1>1, Reading
<1>3. /\ l.is \in Map => Between(new, 0, n + 1, Map) = Between(ls, 0, n, Map) \cup {n}
      /\ l.is \notin Map => Between(new, 0, n + 1, Map) = Between(ls, 0, n, Map)
  <2> HIDE DEF Map
  <2> QED BY <1>1, <1>7, BetweenGrows
<1>4. maps \in SUBSET (1 .. n) /\ \A x \in maps : x <= n - 1
  BY <1>2 DEF Between
<1>5. CASE l.is = "map"
  <2>1. Between(new, 0, n + 1, Map) = maps \cup {n}
    BY <1>2, <1>3, <1>5
  <2>2. maps \cup {n} \in SUBSET Nat /\ \A x \in maps \cup {n} : x <= n
    BY <1>4
  <2>3. LastOf(Between(new, 0, n + 1, Map)) = n
    <3> HIDE DEF maps
    <3> QED BY <2>1, <2>2, LastIsOnly
  <2>4. KeyOf(new, n) = KeyOf(ls, n)
    BY <1>2, KeyStays
  <2> HIDE DEF new
  <2> QED BY <1>2, <1>5, <2>1, <2>3, <2>4 DEF InitRead, new
<1>6. CASE l.is # "map"
  <2>1. Between(new, 0, n + 1, Map) = maps
    BY <1>2, <1>3, <1>6
  <2>2. maps # {} => LastOf(maps) \in 1 .. Len(ls) + 1
    <3>1. maps # {} => LastOf(maps) \in maps
      BY <1>1, <1>4, LastIsIn
    <3> QED BY <1>1, <1>4, <3>1
  <2>3. maps # {} => KeyOf(new, LastOf(maps)) = KeyOf(ls, LastOf(maps))
    BY <2>2, KeyStays
  <2> HIDE DEF new
  <2> QED BY <1>2, <1>6, <2>1, <2>3 DEF InitRead, new
<1> QED BY <1>5, <1>6

LEMMA RejectedNext ==
  ASSUME NEW ls \in Seq(Lines), NEW l \in Lines
  PROVE  Rejected(Append(ls, l)) <=>
           Rejected(ls) \/ (l.is \in {"uri", "map"} /\ KeyOf(ls, NextPlace(ls)) = NoPlay)
<1> DEFINE new == Append(ls, l)
<1>1. PICK n \in Nat : n = Len(ls) + 1
  BY Reading
<1>2. NextPlace(ls) = n /\ Len(new) = n /\ new[n] = l /\ n \in 1 .. n /\ \A x \in 1 .. n : x = n \/ x \in 1 .. Len(ls)
  BY <1>1, Reading DEF NextPlace
<1>3. \A x \in 1 .. n : KeyOf(new, x) = KeyOf(ls, x)
  BY <1>1, KeyStays
<1>4. \A x \in 1 .. Len(ls) : new[x] = ls[x] /\ x \in 1 .. n
  BY <1>1, Reading
<1> HIDE DEF new
<1> QED BY <1>2, <1>3, <1>4 DEF Rejected, new

Segs == [uri : Uris, off : Int, key : AesKeys \cup {Clear}, disc : BOOLEAN]

\* A line that is read and changes no segment.
LEMMA LineReads ==
  ASSUME ParserInv, NEW l \in Lines, Reads(l), parser' \in Parsers
  PROVE  /\ lines \in Seq(Lines) /\ lines' = Append(lines, l) /\ lines' \in Seq(Lines)
         /\ verdict = 0 /\ Known(lines, parser) /\ ~Rejected(lines)
         /\ Rejected(Append(lines, l)) <=> l.is \in {"uri", "map"} /\ parser.key = NoPlay
         /\ parser.key = KeyOf(lines, NextPlace(lines))
<1>1. /\ lines \in Seq(Lines) /\ lines' = Append(lines, l) /\ verdict = 0 /\ Known(lines, parser) /\ ~Rejected(lines)
  BY DEF ParserInv, Reads
<1>2. parser.key = KeyOf(lines, NextPlace(lines))
  BY <1>1 DEF Known, KeyKnown
<1>3. Rejected(Append(lines, l)) <=> l.is \in {"uri", "map"} /\ parser.key = NoPlay
  BY <1>1, <1>2, RejectedNext
<1> QED BY <1>1, <1>2, <1>3

LEMMA TagKeeps ==
  ASSUME ParserInv, NEW l \in Lines, Reads(l), parser' \in Parsers, l.is \notin {"uri", "map"},
         UNCHANGED <<list, verdict>>, Known(Append(lines, l), parser')
  PROVE  ParserInv'
<1>1. /\ lines \in Seq(Lines) /\ lines' = Append(lines, l) /\ lines' \in Seq(Lines)
      /\ verdict = 0 /\ ~Rejected(lines) /\ ~Rejected(lines')
  BY LineReads
<1>2. SegsRead(lines', list'.segs)
  BY <1>1, SegsReadSame DEF ParserInv
<1>3. InitRead(lines', list'.init)
  BY <1>1, InitReadNext DEF ParserInv
<1> QED BY <1>1, <1>2, <1>3 DEF ParserInv

LEMMA MapKeeps == ASSUME ParserInv, ReadMap PROVE ParserInv'
<1> DEFINE l == MapLine
<1>1. l \in Lines /\ l.is = "map"
  BY DEF Lines, MapLine
<1>2. Reads(l) /\ list' = [list EXCEPT !.init = parser.key.uri] /\ parser' = parser /\ parser \in Parsers
      /\ verdict' = (IF parser.key = NoPlay THEN -2 ELSE 0)
  BY DEF ReadMap, ParserInv
<1> HIDE DEF l
<1>3. /\ lines \in Seq(Lines) /\ lines' = Append(lines, l) /\ lines' \in Seq(Lines)
      /\ verdict = 0 /\ Known(lines, parser) /\ ~Rejected(lines)
      /\ Rejected(lines') <=> parser.key = NoPlay
      /\ parser.key = KeyOf(lines, NextPlace(lines))
  BY <1>1, <1>2, LineReads
<1>4. list'.segs = list.segs /\ list'.init = parser.key.uri /\ list' = [segs |-> list'.segs, init |-> list'.init]
  BY <1>2 DEF ParserInv
<1>5. SegsRead(lines', list'.segs)
  BY <1>1, <1>3, <1>4, SegsReadSame DEF ParserInv
<1>6. InitRead(lines', list'.init)
  BY <1>1, <1>3, <1>4, InitReadNext DEF ParserInv
<1>7. Known(Append(lines, l), parser)
  <2>1. l.is \notin {"uri", "identity", "drm", "range"} \cup DiscKinds
    BY <1>1 DEF DiscKinds
  <2> QED BY <1>3, <1>1, <2>1, KeyKnownNext, RangeKnownNext, DiscKnownNext, PartsKnownNext DEF Known
<1> QED BY <1>2, <1>3, <1>4, <1>5, <1>6, <1>7 DEF ParserInv

LEMMA KeyTagKeeps == ASSUME ParserInv, ReadIdentity \/ ReadDrm PROVE ParserInv'
<1>1. parser \in Parsers
  BY DEF ParserInv
<1>2. CASE ReadIdentity
  <2>1. PICK l \in IdentityLines :
          /\ Reads(l) /\ parser' = [Grouped EXCEPT !.identity = TRUE, !.key = l.of]
          /\ UNCHANGED <<list, verdict>>
    BY <1>2 DEF ReadIdentity
  <2>2. l \in Lines /\ l.is = "identity" /\ l.of \in AesKeys \cup {Clear, NoPlay}
    BY DEF Lines, IdentityLines
  <2>3. /\ parser' \in Parsers /\ parser'.key = l.of /\ parser'.sinceSeg = TRUE /\ parser'.identity = TRUE
        /\ parser'.ranged = parser.ranged /\ parser'.off = parser.off /\ parser'.disc = parser.disc
        /\ parser'.prevUri = parser.prevUri /\ parser'.prevEnd = parser.prevEnd
    BY <1>1, <2>1, <2>2 DEF Grouped, Parsers
  <2>4. lines \in Seq(Lines) /\ Known(lines, parser)
    BY <2>1, <2>2, <2>3, LineReads
  <2>5. l.is \notin {"uri", "range", "map"} \cup DiscKinds
    BY <2>2 DEF DiscKinds
  <2>6. Known(Append(lines, l), parser')
    BY <2>2, <2>3, <2>4, <2>5, KeyKnownNext, RangeKnownNext, DiscKnownNext, PartsKnownNext DEF Known
  <2> QED BY <2>1, <2>2, <2>3, <2>5, <2>6, TagKeeps
<1>3. CASE ReadDrm
  <2> DEFINE l == DrmLine
  <2>1. Reads(l) /\ parser' = DrmOffered(Grouped) /\ UNCHANGED <<list, verdict>>
    BY <1>3 DEF ReadDrm
  <2>2. l \in Lines /\ l.is = "drm"
    BY DEF Lines, DrmLine
  <2> HIDE DEF l
  <2>3. /\ Grouped \in Parsers /\ Grouped.sinceSeg = TRUE /\ Grouped.identity = (parser.sinceSeg /\ parser.identity)
        /\ Grouped.key = parser.key
        /\ Grouped.ranged = parser.ranged /\ Grouped.off = parser.off /\ Grouped.disc = parser.disc
        /\ Grouped.prevUri = parser.prevUri /\ Grouped.prevEnd = parser.prevEnd
    BY <1>1 DEF Grouped, Parsers
  <2>4. /\ parser' \in Parsers /\ parser'.sinceSeg = TRUE /\ parser'.identity = (parser.sinceSeg /\ parser.identity)
        /\ parser'.key = IF parser.sinceSeg /\ parser.identity THEN parser.key ELSE NoPlay
        /\ parser'.ranged = parser.ranged /\ parser'.off = parser.off /\ parser'.disc = parser.disc
        /\ parser'.prevUri = parser.prevUri /\ parser'.prevEnd = parser.prevEnd
    BY <2>1, <2>3 DEF DrmOffered, Parsers
  <2>5. lines \in Seq(Lines) /\ Known(lines, parser)
    BY <2>1, <2>2, <2>4, LineReads
  <2>6. l.is \notin {"uri", "range", "map"} \cup DiscKinds
    BY <2>2 DEF DiscKinds
  <2>7. Known(Append(lines, l), parser')
    BY <2>2, <2>4, <2>5, <2>6, KeyKnownNext, RangeKnownNext, DiscKnownNext, PartsKnownNext DEF Known
  <2> QED BY <2>1, <2>2, <2>4, <2>6, <2>7, TagKeeps
<1> QED BY <1>2, <1>3

LEMMA SegmentTagKeeps == ASSUME ParserInv, ReadRange \/ ReadDiscontinuity PROVE ParserInv'
<1>1. parser \in Parsers
  BY DEF ParserInv
<1>2. CASE ReadRange
  <2>1. PICK l \in RangeLines :
          Reads(l) /\ parser' = [parser EXCEPT !.ranged = TRUE, !.off = l.of] /\ UNCHANGED <<list, verdict>>
    BY <1>2 DEF ReadRange
  <2>2. l \in Lines /\ l.is = "range" /\ l.of \in Offsets \cup {Continues}
    BY DEF Lines, RangeLines
  <2>3. /\ parser' \in Parsers /\ parser'.ranged = TRUE /\ parser'.off = l.of /\ parser'.disc = parser.disc
        /\ parser'.key = parser.key /\ parser'.sinceSeg = parser.sinceSeg /\ parser'.identity = parser.identity
        /\ parser'.prevUri = parser.prevUri /\ parser'.prevEnd = parser.prevEnd
    BY <1>1, <2>1, <2>2 DEF Parsers
  <2>4. lines \in Seq(Lines) /\ Known(lines, parser)
    BY <2>1, <2>2, <2>3, LineReads
  <2>5. l.is \notin {"uri", "identity", "drm", "map"} \cup DiscKinds
    BY <2>2 DEF DiscKinds
  <2>6. Known(Append(lines, l), parser')
    BY <2>2, <2>3, <2>4, <2>5, KeyKnownNext, RangeKnownNext, DiscKnownNext, PartsKnownNext DEF Known
  <2> QED BY <2>1, <2>2, <2>3, <2>5, <2>6, TagKeeps
<1>3. CASE ReadDiscontinuity
  <2>1. PICK l \in DiscLines :
          Reads(l) /\ parser' = [parser EXCEPT !.disc = TRUE] /\ UNCHANGED <<list, verdict>>
    BY <1>3 DEF ReadDiscontinuity
  <2>2. l \in Lines /\ l.is \in DiscKinds
    BY DEF Lines, DiscLines, DiscKinds
  <2>3. /\ parser' \in Parsers /\ parser'.ranged = parser.ranged /\ parser'.off = parser.off /\ parser'.disc = TRUE
        /\ parser'.key = parser.key /\ parser'.sinceSeg = parser.sinceSeg /\ parser'.identity = parser.identity
        /\ parser'.prevUri = parser.prevUri /\ parser'.prevEnd = parser.prevEnd
    BY <1>1, <2>1, <2>2 DEF Parsers
  <2>4. lines \in Seq(Lines) /\ Known(lines, parser)
    BY <2>1, <2>2, <2>3, LineReads
  <2>5. l.is \notin {"uri", "identity", "drm", "range", "map"}
    BY <2>2 DEF DiscKinds
  <2>6. Known(Append(lines, l), parser')
    BY <2>2, <2>3, <2>4, <2>5, KeyKnownNext, RangeKnownNext, DiscKnownNext, PartsKnownNext DEF Known
  <2> QED BY <2>1, <2>2, <2>3, <2>5, <2>6, TagKeeps
<1> QED BY <1>2, <1>3

LEMMA UriKeeps == ASSUME ParserInv, ReadUri PROVE ParserInv'
<1>1. PICK l \in UriLines :
        /\ Reads(l)
        /\ IF parser.key = NoPlay THEN verdict' = -2 /\ parser' = [parser EXCEPT !.sinceSeg = FALSE] /\ UNCHANGED list
           ELSE /\ list' = [list EXCEPT !.segs =
                              Append(@, [uri |-> l.of, off |-> Offset(l.of), key |-> parser.key, disc |-> parser.disc])]
                /\ parser' = [Ranged(l.of) EXCEPT !.sinceSeg = FALSE, !.disc = FALSE]
                /\ UNCHANGED verdict
  BY DEF ReadUri
<1>2. l \in Lines /\ l.is = "uri" /\ l.of \in Uris
  BY DEF Lines, UriLines
<1>3. parser \in Parsers /\ Offset(l.of) \in Int /\ (parser.ranged => Offset(l.of) \in Nat)
  BY PlaylistAssumption DEF ParserInv, Parsers, Offset, Continues
<1>4. l.is \notin {"identity", "drm", "range", "map"} \cup DiscKinds
  BY <1>2 DEF DiscKinds
<1>5. CASE parser.key = NoPlay
  <2>1. parser' \in Parsers /\ verdict' = -2 /\ list' = list
    BY <1>1, <1>3, <1>5 DEF Parsers
  <2>2. /\ lines \in Seq(Lines) /\ lines' = Append(lines, l) /\ lines' \in Seq(Lines)
        /\ Rejected(lines') /\ KeyOf(lines, NextPlace(lines)) = NoPlay
    BY <1>1, <1>2, <1>5, <2>1, LineReads
  <2>3. SegsRead(lines', list'.segs)
    BY <1>2, <2>1, <2>2, SegsReadSame DEF ParserInv
  <2>4. InitRead(lines', list'.init)
    BY <1>2, <1>4, <2>1, <2>2, InitReadNext DEF ParserInv
  <2> QED BY <2>1, <2>2, <2>3, <2>4 DEF ParserInv
<1>6. CASE parser.key # NoPlay
  <2> DEFINE s == [uri |-> l.of, off |-> Offset(l.of), key |-> parser.key, disc |-> parser.disc]
  <2>1. /\ parser' \in Parsers /\ ~parser'.sinceSeg /\ ~parser'.disc /\ ~parser'.ranged /\ parser'.off = Continues
        /\ parser'.key = parser.key
    <3>1. /\ Ranged(l.of) \in Parsers /\ ~Ranged(l.of).ranged /\ Ranged(l.of).off = Continues
          /\ Ranged(l.of).key = parser.key
      <4>1. CASE parser.ranged
        <5>1. Offset(l.of) + 1 \in Nat
          BY <1>3, <4>1
        <5> QED BY <1>2, <1>3, <4>1, <5>1 DEF Parsers, Ranged
      <4>2. CASE ~parser.ranged
        <5>1. parser.off = Continues
          BY <1>1, <4>2 DEF ParserInv, Known, RangeKnown, Reads
        <5> QED BY <1>3, <4>2, <5>1 DEF Parsers, Ranged
      <4> QED BY <4>1, <4>2
    <3> QED BY <1>1, <1>6, <3>1 DEF Parsers
  <2>2. /\ parser.ranged => parser'.prevUri = l.of /\ parser'.prevEnd = Offset(l.of) + 1
        /\ ~parser.ranged => parser'.prevUri = parser.prevUri /\ parser'.prevEnd = parser.prevEnd
    BY <1>1, <1>3, <1>6 DEF Parsers, Ranged
  <2>3. list'.segs = Append(list.segs, s) /\ list'.init = list.init /\ list' = [segs |-> list'.segs, init |-> list'.init]
        /\ verdict' = verdict
    BY <1>1, <1>6 DEF ParserInv
  <2>4. /\ lines \in Seq(Lines) /\ lines' = Append(lines, l) /\ lines' \in Seq(Lines)
        /\ verdict = 0 /\ Known(lines, parser) /\ ~Rejected(lines')
        /\ parser.key = KeyOf(lines, NextPlace(lines))
    BY <1>1, <1>2, <1>6, <2>1, LineReads
  <2>5. PICK n \in Nat : n = Len(lines) + 1 /\ n = NextPlace(lines) /\ n \in 1 .. Len(lines) + 1
    BY <2>4, Reading DEF NextPlace
  <2>6. OffsetOf(Append(lines, l), NextPlace(lines)) = Offset(l.of)
    <3>1. OffsetOf(Append(lines, l), NextPlace(lines))
           = IF ~parser.ranged THEN Continues
             ELSE IF parser.off # Continues THEN parser.off
             ELSE IF parser.prevUri = l.of THEN parser.prevEnd ELSE 0
      BY <1>2, <1>3, <2>4, OffsetRead DEF Known
    <3> QED BY <3>1 DEF Offset
  <2>7. s = SegmentOf(Append(lines, l), NextPlace(lines))
    <3>1. Append(lines, l)[n] = l
      BY <2>4, <2>5, Reading
    <3>2. KeyOf(Append(lines, l), n) = KeyOf(lines, n)
      BY <1>2, <2>4, <2>5, KeyStays
    <3>3. Own(Append(lines, l), n, DiscKinds) = Own(lines, n, DiscKinds)
      BY <1>2, <2>4, <2>5, OwnStays
    <3>4. parser.disc <=> Own(lines, n, DiscKinds) # {}
      BY <2>4, <2>5 DEF Known, DiscKnown
    <3>5. parser.disc = (Own(Append(lines, l), n, DiscKinds) # {})
      BY <1>3, <3>3, <3>4 DEF Parsers
    <3> QED BY <2>4, <2>5, <2>6, <3>1, <3>2, <3>5 DEF SegmentOf
  <2>8. s \in Segs
    BY <1>2, <1>3, <1>6 DEF Segs, Parsers
  <2> HIDE DEF s
  <2>9. SegsRead(lines', list'.segs) /\ list'.segs \in Seq(Segs)
    <3>1. list.segs \in Seq(Segs) /\ SegsRead(lines, list.segs)
      BY DEF ParserInv, Segs
    <3>2. KeyOf(lines, NextPlace(lines)) # NoPlay
      BY <1>6, <2>4
    <3>3. SegsRead(Append(lines, l), Append(list.segs, s))
      BY <1>2, <2>4, <2>7, <2>8, <3>1, <3>2, SegsReadMore
    <3> QED BY <2>3, <2>4, <2>8, <3>1, <3>3
  <2>10. InitRead(lines', list'.init)
    BY <1>2, <1>4, <2>3, <2>4, InitReadNext DEF ParserInv
  <2>11. Known(lines', parser')
    <3>1. KeyKnown(Append(lines, l), parser')
      BY <1>2, <2>1, <2>4, KeyKnownNext DEF Known
    <3>2. RangeKnown(Append(lines, l), parser')
      BY <1>2, <2>1, <2>4, RangeKnownNext DEF Known
    <3>3. DiscKnown(Append(lines, l), parser')
      BY <1>2, <2>1, <2>4, DiscKnownNext DEF Known
    <3>4. PartsKnown(Append(lines, l), parser')
      BY <1>2, <1>3, <2>2, <2>4, <2>6, PartsKnownNext DEF Known, Parsers
    <3> QED BY <2>4, <3>1, <3>2, <3>3, <3>4 DEF Known
  <2> QED BY <2>1, <2>3, <2>4, <2>9, <2>10, <2>11 DEF ParserInv, Segs
<1> QED BY <1>5, <1>6

LEMMA NothingRead ==
  ASSUME lines = <<>>, list = NoList, parser = Start, verdict = 0
  PROVE  ParserInv
<1>1. \A kinds : Between(<<>>, 0, 1, kinds) = {}
  BY DEF Between
<1>2. NextPlace(<<>>) = 1 /\ Len(<<>>) = 0 /\ Cardinality({}) = 0
  BY FS_EmptySet DEF NextPlace
<1>3. \A kinds : Own(<<>>, 1, kinds) = {}
  BY <1>1 DEF Own
<1>4. Parts(<<>>, 1) = {} /\ Playable(<<>>) = {}
  BY <1>1, <1>2 DEF Parts, Playable
<1>5. KeyOf(<<>>, 1) = Clear
  BY <1>1 DEF KeyOf
<1>6. parser \in Parsers /\ Known(<<>>, parser)
  BY <1>2, <1>3, <1>4, <1>5 DEF Parsers, Start, Known, KeyKnown, RangeKnown, DiscKnown, PartsKnown
<1>7. SegsRead(<<>>, list.segs) /\ InitRead(<<>>, list.init)
  BY <1>1, <1>2, <1>4 DEF SegsRead, InitRead, NoList
<1>8. ~Rejected(<<>>)
  BY <1>2 DEF Rejected
<1> QED BY <1>6, <1>7, <1>8 DEF ParserInv, NoList

\* The parser, line by line.
THEOREM ParserInvariant == PlaylistSpec => []ParserInv
<1>1. PlaylistInit => ParserInv
  BY NothingRead DEF PlaylistInit
<1>2. ParserInv /\ [PlaylistNext]_playlistVars => ParserInv'
  <2> SUFFICES ASSUME ParserInv, [PlaylistNext]_playlistVars PROVE ParserInv'
    OBVIOUS
  <2>1. CASE UNCHANGED playlistVars
    BY <2>1 DEF playlistVars, ParserInv
  <2>2. CASE NextBody
    <3>1. lines' = <<>> /\ list' = NoList /\ parser' = Start /\ verdict' = 0
      BY <2>2 DEF NextBody
    <3>2. (lines = <<>> /\ list = NoList /\ parser = Start /\ verdict = 0 => ParserInv)'
      BY NothingRead, PTL
    <3> QED BY <3>1, <3>2
  <2> QED BY <2>1, <2>2, MapKeeps, KeyTagKeeps, SegmentTagKeeps, UriKeeps DEF PlaylistNext
<1> QED BY <1>1, <1>2, PTL DEF PlaylistSpec

\* Where no tag numbers the discontinuities, the parser's rule is the one the playlist is held to.
LEMMA SegmentsAgree ==
  ASSUME NEW s, NEW ls, NEW at, s = SegmentOf(ls, at)
  PROVE  IsSegment(s, ls, at)
<1>1. s.uri = ls[at].of /\ s.off = OffsetOf(ls, at) /\ s.key = KeyOf(ls, at)
  BY DEF SegmentOf
<1>2. s.disc <=> Own(ls, at, DiscKinds) # {}
  BY DEF SegmentOf
<1>3. Own(ls, at, DiscKinds)
        = Own(ls, at, {"discontinuity"}) \cup Own(ls, at, {"discontinuity-sequence"})
  BY DEF Own, Between, DiscKinds
<1> QED BY <1>1, <1>2, <1>3 DEF IsSegment

\* What is read of a playlist is what its lines say, of every playlist.
THEOREM PlaylistsAreRead == PlaylistSpec => []PlaylistIsRead
<1>1. ParserInv => PlaylistIsRead
  <2> SUFFICES ASSUME ParserInv PROVE PlaylistIsRead
    OBVIOUS
  <2>1. SegsRead(lines, list.segs) /\ InitRead(lines, list.init) /\ (verdict = -2 <=> Rejected(lines))
    BY DEF ParserInv
  <2>2. \A at \in Playable(lines) :
          IsSegment(list.segs[Cardinality({x \in Playable(lines) : x <= at})], lines, at)
    <3> TAKE at \in Playable(lines)
    <3>1. list.segs[Cardinality({x \in Playable(lines) : x <= at})] = SegmentOf(lines, at)
      BY <2>1 DEF SegsRead
    <3> QED BY <3>1, SegmentsAgree
  <2> QED BY <2>1, <2>2 DEF PlaylistIsRead, SegsRead, InitRead, Rejected, NextPlace
<1> QED BY <1>1, ParserInvariant, PTL
=============================================================================
