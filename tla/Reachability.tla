---------------------------- MODULE Reachability ----------------------------
\* How the receiver stays findable while the console's network comes and goes:
\* netwatch.c decides from one poll to the next what the address is, netmon.c
\* publishes it and starts or moves discovery (ssdp.c, a thread of its own), the main
\* loop shows it on the screen.
EXTENDS Integers, Sequences

CONSTANTS Addresses, NoAddress,
          Confirm, Loss,      \* NETWATCH_CONFIRM, NETWATCH_LOSS
          MaxFlaps            \* bound: how often the network changes its mind

ASSUME ReachabilityAssumption ==
  NoAddress \notin Addresses /\ Confirm \in Nat \ {0} /\ Loss \in Nat \ {0} /\ MaxFlaps \in Nat

VARIABLES
  address,   \* what the console reports at the moment
  watch,     \* the NetWatch: ip, cand, candSeen, missing
  monitor,   \* poll_once: where it is, the event it acts on
  shared,    \* g_ip and g_gen of netmon.c
  served,    \* g_httpUp: the web server listens
  screen,    \* the main loop: where it is, the generation and address it knows
  ssdp,      \* g_ssdpUp; g_pendIp and g_ipDirty; the thread, the g_ip it announces
  recent,    \* history: the last observations, newest first
  before,    \* history: the adopted address before the last observation
  flaps
reachVars == <<address, watch, monitor, shared, served, screen, ssdp, recent, before, flaps>>
watched == <<watch, recent, before>>

Memory == IF Confirm < Loss THEN Loss ELSE Confirm

ReachInit ==
  /\ address \in Addresses \cup {NoAddress}
  /\ watch = [ip |-> NoAddress, cand |-> NoAddress, candSeen |-> 0, missing |-> 0]
  /\ monitor = [at |-> "poll", event |-> "none"] /\ shared = [ip |-> NoAddress, gen |-> 0]
  /\ served = FALSE /\ screen = [at |-> "frame", gen |-> -1, ip |-> NoAddress]
  /\ ssdp = [up |-> FALSE, pend |-> NoAddress, dirty |-> FALSE, at |-> "wait", ip |-> NoAddress,
             says |-> NoAddress]
  /\ recent = <<>> /\ before = NoAddress /\ flaps = 0

Flap ==
  /\ flaps < MaxFlaps /\ flaps' = flaps + 1
  /\ address' \in (Addresses \cup {NoAddress}) \ {address}
  /\ UNCHANGED <<watched, monitor, shared, served, screen, ssdp>>

-----------------------------------------------------------------------------
\* netwatch_feed: the next NetWatch and the event.

NoCandidate(w) == [w EXCEPT !.cand = NoAddress, !.candSeen = 0]
Missing(w) ==
  LET v == NoCandidate(w)
  IN  IF v.ip = NoAddress THEN [w |-> v, event |-> "none"]
      ELSE IF v.missing + 1 < Loss
      THEN [w |-> [v EXCEPT !.missing = @ + 1], event |-> "none"]
      ELSE [w |-> [v EXCEPT !.ip = NoAddress, !.missing = 0], event |-> "down"]

Different(w, seen) ==
  LET v == IF seen = w.cand THEN [w EXCEPT !.candSeen = @ + 1]
           ELSE [w EXCEPT !.cand = seen, !.candSeen = 1]
  IN  IF v.candSeen < Confirm THEN [w |-> v, event |-> "none"]
      ELSE [w |-> NoCandidate([v EXCEPT !.ip = seen]), event |-> "changed"]

Feed(w, seen) ==
  IF seen = NoAddress THEN Missing(w)
  ELSE LET v == [w EXCEPT !.missing = 0]
       IN  IF v.ip = NoAddress
           THEN [w |-> NoCandidate([v EXCEPT !.ip = seen]), event |-> "up"]
           ELSE IF seen = v.ip THEN [w |-> NoCandidate(v), event |-> "none"]
           ELSE Different(v, seen)

-----------------------------------------------------------------------------
\* netmon.c. publish() stores the address under its lock, then counts.

MonitorGoes(stage) == monitor' = [monitor EXCEPT !.at = stage]

Poll ==
  /\ monitor.at = "poll" /\ served' \in {served, TRUE}
  /\ LET fed == Feed(watch, address)
     IN  /\ watch' = fed.w
         /\ monitor' = [at |-> IF fed.event = "none" THEN "poll" ELSE "publish", event |-> fed.event]
  /\ recent' = SubSeq(<<address>> \o recent, 1, IF Len(recent) < Memory THEN Len(recent) + 1
                                                ELSE Memory)
  /\ before' = watch.ip
  /\ UNCHANGED <<address, shared, screen, ssdp, flaps>>

Publish ==
  /\ monitor.at = "publish" /\ shared' = [shared EXCEPT !.ip = watch.ip] /\ MonitorGoes("count")
  /\ UNCHANGED <<address, watched, served, screen, ssdp, flaps>>
Count ==
  /\ monitor.at = "count" /\ shared' = [shared EXCEPT !.gen = @ + 1]
  /\ MonitorGoes(IF monitor.event = "down" THEN "poll" ELSE "tell")
  /\ UNCHANGED <<address, watched, served, screen, ssdp, flaps>>

\* Discovery is started with the first address and moved with every later one. A
\* start that fails is tried again only when the address changes once more.
MovedQuietly(s) == [s EXCEPT !.pend = watch.ip]                    \* Mutant
Moved(s) == [s EXCEPT !.pend = watch.ip, !.dirty = TRUE]
TellDiscovery ==
  /\ monitor.at = "tell" /\ MonitorGoes("poll")
  /\ \/ ssdp.up /\ ssdp' = Moved(ssdp)
     \/ ~ssdp.up /\ ssdp' \in {ssdp, [ssdp EXCEPT !.up = TRUE, !.at = "say", !.ip = watch.ip]}
  /\ UNCHANGED <<address, watched, shared, served, screen, flaps>>

-----------------------------------------------------------------------------
\* ssdp_main: a new address is taken under the lock, the group is left and joined
\* again, and the receiver announced; it is announced now and then as well.

SsdpKeeps == UNCHANGED <<address, watched, monitor, shared, served, screen, flaps>>

Announced(s) == [s EXCEPT !.at = "wait", !.says = s.ip]

TakeAddress ==
  /\ ssdp.up /\ ssdp.at = "wait" /\ ssdp.dirty
  /\ ssdp' = [ssdp EXCEPT !.dirty = FALSE, !.at = "say", !.ip = ssdp.pend] /\ SsdpKeeps
Announce ==
  /\ ssdp.up /\ ssdp.at = "say" /\ ssdp' = Announced(ssdp) /\ SsdpKeeps

-----------------------------------------------------------------------------
\* The main loop looks at the counter first and at the address after it.

ScreenKeeps == UNCHANGED <<address, watched, monitor, shared, served, ssdp, flaps>>

SeesChange ==
  /\ screen.at = "frame" /\ screen.gen # shared.gen
  /\ screen' = [screen EXCEPT !.at = "read", !.gen = shared.gen] /\ ScreenKeeps
ReadsAddress ==
  /\ screen.at = "read" /\ screen' = [screen EXCEPT !.at = "frame", !.ip = shared.ip] /\ ScreenKeeps

-----------------------------------------------------------------------------
Monitoring == Poll \/ Publish \/ Count \/ TellDiscovery
Discovering == TakeAddress \/ Announce
Showing == SeesChange \/ ReadsAddress
ReachNext == Flap \/ Monitoring \/ Discovering \/ Showing
ReachSpec ==
  /\ ReachInit /\ [][ReachNext]_reachVars
  /\ WF_reachVars(Monitoring) /\ WF_reachVars(Discovering) /\ WF_reachVars(Showing)

ReachTypeOK ==
  /\ address \in Addresses \cup {NoAddress} /\ watch.ip \in Addresses \cup {NoAddress}
  /\ watch.candSeen \in 0 .. Confirm - 1 /\ watch.missing \in 0 .. Loss - 1
  /\ monitor.at \in {"poll", "publish", "count", "tell"} /\ screen.at \in {"frame", "read"}
  /\ ssdp.at \in {"wait", "say"} /\ flaps \in 0 .. MaxFlaps

\* The last n observations were all x.
Held(n, x) == Len(recent) >= n /\ \A i \in 1 .. n : recent[i] = x

\* "A first address is adopted at once. A different address must persist for
\* NETWATCH_CONFIRM polls and a missing one for NETWATCH_LOSS polls before they
\* count" -- and then they do: no change is premature and none is forgotten.
Debounced ==
  /\ watch.ip # before => \/ before = NoAddress /\ Held(1, watch.ip)
                          \/ watch.ip = NoAddress /\ Held(Loss, NoAddress)
                          \/ watch.ip # NoAddress /\ before # NoAddress /\ Held(Confirm, watch.ip)
  /\ watch.ip # NoAddress => ~Held(Loss, NoAddress)
  /\ \A x \in Addresses \ {watch.ip} :
       ~Held(IF watch.ip = NoAddress THEN 1 ELSE Confirm, x)

\* "A new DHCP lease left the TV, QR code and SSDP LOCATION pointing at a dead address":
\* once the network has settled, screen and announcements say where the receiver is.
Found ==
  /\ watch.ip = address /\ screen.ip = address
  /\ ssdp.up /\ address # NoAddress => ssdp.says = address

\* Both: what the console says of its address is confirmed, and in the end right.
ReceiverIsFound == []Debounced /\ <>[]Found
=============================================================================
