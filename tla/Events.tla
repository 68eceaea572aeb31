------------------------------- MODULE Events -------------------------------
\* The UPnP events of httpd.c: control points subscribe to the state of the
\* AVTransport and the event thread tells each of them when it changes. The thread
\* looks at the state four times a second; it copies the table of subscriptions under
\* the lock and sends without it.
EXTENDS Integers, FiniteSets

CONSTANTS Slots,          \* AVT_SUBS places in the table
          Sids,           \* subscriptions ever made, as numbers 1 .. n
          MaxChanges      \* bound: changes of the state, and wake-ups for nothing

ASSUME EventsAssumption ==
  /\ IsFiniteSet(Sids) /\ Sids = 1 .. Cardinality(Sids)
  /\ Slots \subseteq Nat /\ IsFiniteSet(Slots) /\ MaxChanges \in Nat

Nobody == 0
Untold == <<-1, -1>>
Free == [sid |-> Nobody, seq |-> 0, expired |-> FALSE]

VARIABLES
  shows,     \* what the player and g_dlna_uri say: a pair of numbers
  subs,      \* subs[i]: g_avt_subs[i]; "expired" once its time is over
  dirty,     \* g_avt_event_dirty
  ev,        \* event_main: where it is, what it has looked at and told last
  copied,    \* its copy of the table: the subscriptions still to be told
  told,      \* told[s]: the state subscriber s heard last
  missed,    \* missed[s]: its last event could not be delivered
  numbers,   \* numbers[s]: how many events were sent to s, delivered or not
  made,      \* subscriptions made so far
  changes
eventsVars == <<shows, subs, dirty, ev, copied, told, missed, numbers, made, changes>>
heard == <<told, missed, numbers>>

EventsInit ==
  /\ shows = <<0, 0>> /\ subs = [i \in Slots |-> Free] /\ dirty = TRUE
  /\ ev = [at |-> "look", saw |-> Untold, last |-> Untold] /\ copied = {}
  /\ told = [s \in Sids |-> Untold] /\ missed = [s \in Sids |-> FALSE]
  /\ numbers = [s \in Sids |-> 0] /\ made = 0 /\ changes = 0

-----------------------------------------------------------------------------
\* Player and control points.

\* The player starts, stops, pauses; or another URI is set. The commands that set one
\* also raise the flag; the state may be back at what it was when the thread looks.
Change ==
  /\ changes < MaxChanges /\ changes' = changes + 1
  /\ \E i \in {1, 2} : shows' = [shows EXCEPT ![i] = 1 - @]
  /\ dirty' \in {dirty, TRUE}
  /\ UNCHANGED <<subs, ev, copied, heard, made>>

Purged(table) == [i \in Slots |-> IF table[i].expired THEN Free ELSE table[i]]
Vacant(table) == {i \in Slots : table[i].sid = Nobody}

FirstOf(places) == CHOOSE i \in places : \A j \in places : i <= j

\* The first place that is free; the event thread is asked for a first event, with
\* the number 0. A full table is answered 503.
SubscribeWakes == TRUE

Subscribe ==
  /\ made < Cardinality(Sids)
  /\ LET table == Purged(subs)
     IN  \/ /\ Vacant(table) # {} /\ made' = made + 1
            /\ subs' = [table EXCEPT ![FirstOf(Vacant(table))] = [Free EXCEPT !.sid = made + 1]]
            /\ dirty' = SubscribeWakes
         \/ /\ Vacant(table) = {} /\ subs' = table /\ UNCHANGED <<made, dirty>>
  /\ UNCHANGED <<shows, ev, copied, heard, changes>>

\* Renewing works until somebody has purged the subscription.
Renew ==
  \E i \in Slots :
    /\ subs[i].expired /\ subs' = [subs EXCEPT ![i].expired = FALSE]
    /\ UNCHANGED <<shows, dirty, ev, copied, heard, made, changes>>

Unsubscribe ==
  \E i \in Slots :
    /\ subs[i].sid # Nobody /\ subs' = [subs EXCEPT ![i] = Free]
    /\ UNCHANGED <<shows, dirty, ev, copied, heard, made, changes>>

Expire ==
  \E i \in Slots :
    /\ subs[i].sid # Nobody /\ ~subs[i].expired /\ subs' = [subs EXCEPT ![i].expired = TRUE]
    /\ UNCHANGED <<shows, dirty, ev, copied, heard, made, changes>>

-----------------------------------------------------------------------------
\* event_main.

EventsKeep == UNCHANGED <<shows, subs, made, changes>>

\* The player is asked first, the URI under the lock after it: the pair may never have
\* been true.
Look ==
  /\ ev.at = "look" /\ ev' = [ev EXCEPT !.at = "look2", !.saw = <<shows[1], @[2]>>]
  /\ UNCHANGED <<dirty, copied, heard>> /\ EventsKeep
LookAgain ==
  /\ ev.at = "look2"
  /\ LET saw == <<ev.saw[1], shows[2]>>
     IN  /\ ev' = [ev EXCEPT !.at = "decide", !.saw = saw]
         /\ dirty' = (dirty \/ saw # ev.last)
  /\ UNCHANGED <<copied, heard>> /\ EventsKeep

Decide ==
  /\ ev.at = "decide" /\ ev' = [ev EXCEPT !.at = IF dirty THEN "copy" ELSE "look"]
  /\ UNCHANGED <<dirty, copied, heard>> /\ EventsKeep

\* One critical section: the flag is cleared, the table purged and copied, and every
\* subscription's number advanced. The histories of those gone from the table end here.
CopyClears == FALSE
AfterTellingCleared == FALSE                                       \* Mutant
AfterTelling == dirty
Numbered(sub) == [sid |-> sub.sid, seq |-> sub.seq]
InTable(table, s) == \E i \in Slots : table[i].sid = s

Copy ==
  /\ ev.at = "copy" /\ ev' = [ev EXCEPT !.at = "tell"]
  /\ LET table == Purged(subs)
     IN  /\ copied' = {Numbered(table[i]) : i \in {j \in Slots : table[j].sid # Nobody}}
         /\ subs' = [i \in Slots |-> IF table[i].sid = Nobody THEN Free
                                     ELSE [table[i] EXCEPT !.seq = @ + 1]]
         /\ told' = [s \in Sids |-> IF InTable(table, s) THEN told[s] ELSE Untold]
         /\ missed' = [s \in Sids |-> missed[s] /\ InTable(table, s)]
         /\ numbers' = [s \in Sids |-> IF InTable(table, s) THEN numbers[s] ELSE 0]
  /\ dirty' = CopyClears /\ UNCHANGED <<shows, made, changes>>

\* notify_avt: one connection per event. One that fails is not tried again.
Tell ==
  /\ ev.at = "tell"
  /\ \E c \in copied :
       /\ copied' = copied \ {c} /\ numbers' = [numbers EXCEPT ![c.sid] = @ + 1]
       /\ \/ told' = [told EXCEPT ![c.sid] = ev.saw] /\ missed' = [missed EXCEPT ![c.sid] = FALSE]
          \/ missed' = [missed EXCEPT ![c.sid] = TRUE] /\ told' = told
  /\ UNCHANGED <<dirty, ev>> /\ EventsKeep

Remember ==
  /\ ev.at = "tell" /\ copied = {} /\ ev' = [ev EXCEPT !.at = "look", !.last = ev.saw]
  /\ dirty' = AfterTelling /\ UNCHANGED <<copied, heard>> /\ EventsKeep

-----------------------------------------------------------------------------
EventStep == Look \/ LookAgain \/ Decide \/ Copy \/ Tell \/ Remember
EventsNext == Change \/ Subscribe \/ Renew \/ Unsubscribe \/ Expire \/ EventStep
EventsSpec == EventsInit /\ [][EventsNext]_eventsVars /\ WF_eventsVars(EventStep)

EventsTypeOK ==
  /\ shows \in {0, 1} \X {0, 1} /\ dirty \in BOOLEAN /\ made \in 0 .. Cardinality(Sids)
  /\ \A i \in Slots : subs[i].sid \in Sids \cup {Nobody} /\ subs[i].seq \in Nat
  /\ ev.at \in {"look", "look2", "decide", "copy", "tell"} /\ changes \in 0 .. MaxChanges

\* The events of one subscription are numbered 0, 1, 2, ... in the order in which they
\* go out, whoever else comes, goes or takes over its place in the table.
NumberedInTurn ==
  /\ \A c \in copied : c.seq = numbers[c.sid]
  /\ \A i \in Slots : subs[i].sid # Nobody =>
       subs[i].seq = numbers[subs[i].sid] + Cardinality({c \in copied : c.sid = subs[i].sid})

\* When the state has come to rest, every subscriber whose last event was delivered has
\* heard that state, the one that came while the thread was telling the others included.
Informed ==
  \A i \in Slots : subs[i].sid # Nobody /\ ~subs[i].expired =>
    missed[subs[i].sid] \/ told[subs[i].sid] = shows

\* Both: no subscriber misses an event without its number telling, and none is left with
\* a state that has passed.
SubscribersAreInformed == []NumberedInTurn /\ <>[]Informed
=============================================================================
