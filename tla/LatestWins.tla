----------------------------- MODULE LatestWins -----------------------------
(***************************************************************************)
(* What the player promises whoever asks it to play or stop, with no       *)
(* sequence numbers and no threads: only the newest request counts.  A     *)
(* newer request replaces one that has not begun; one that has begun turns *)
(* stale and its outcome is never told to anyone; the newest request       *)
(* begins only when nothing stale is still executing; and the outcome of a *)
(* play request is reported at most once, a stop's never.                  *)
(*                                                                         *)
(* OpenQueue (src/app/src/openq.c) implements this specification.          *)
(***************************************************************************)
CONSTANTS Specs,      \* what a request can ask for: URL, options, resume point
          NoSpec,     \* nothing asked for
          Outcomes,   \* return codes of an executed request
          NoOutcome   \* the newest request has no outcome yet

VARIABLES kind,       \* of the newest request: "play", "stop", or "none"
          spec,       \* what it asks for, until it has been carried out
          phase,      \* how far the newest request has got
          stale,      \* an older request is still executing
          outcome     \* what the newest request came to

vars == <<kind, spec, phase, stale, outcome>>

Phases == {"idle", "queued", "running", "done", "reported"}

Init ==
  /\ kind = "none"
  /\ spec = NoSpec
  /\ phase = "idle"
  /\ stale = FALSE
  /\ outcome = NoOutcome

Ask(k, s) ==
  /\ kind' = k
  /\ spec' = s
  /\ phase' = "queued"
  /\ stale' = (stale \/ phase = "running")
  /\ outcome' = NoOutcome

Begin ==
  /\ phase = "queued"
  /\ ~stale
  /\ phase' = "running"
  /\ UNCHANGED <<kind, spec, stale, outcome>>

Complete(rc) ==
  /\ phase = "running"
  /\ phase' = "done"
  /\ spec' = NoSpec
  /\ outcome' = rc
  /\ UNCHANGED <<kind, stale>>

Abandon ==
  /\ stale
  /\ stale' = FALSE
  /\ UNCHANGED <<kind, spec, phase, outcome>>

Report ==
  /\ phase = "done"
  /\ kind = "play"
  /\ phase' = "reported"
  /\ UNCHANGED <<kind, spec, stale, outcome>>

Next ==
  \/ \E s \in Specs : Ask("play", s)
  \/ Ask("stop", NoSpec)
  \/ Begin
  \/ \E rc \in Outcomes : Complete(rc)
  \/ Abandon
  \/ Report

Spec == Init /\ [][Next]_vars
=============================================================================
