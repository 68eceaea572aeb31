------------------------------ MODULE Channels ------------------------------
\* httpd_channels.c: the list of channels, shared by the pad (main loop), the HTTP
\* thread and the list worker. Every change of the list is made under one lock, the
\* filter the screen shows is rebuilt with it, and the whole list is then written to
\* /data -- from a copy, without the lock. Channels are known by their index.
EXTENDS Integers, Sequences, FiniteSets

CONSTANTS Urls, Groups, NoGroup,
          MaxChan,        \* MAX_CHAN
          MaxEdits        \* bound: changes of the list, choices of the pad, restarts

ASSUME ChannelsAssumption ==
  NoGroup \notin Groups /\ MaxChan \in Nat \ {0} /\ MaxEdits \in Nat

Writers == {"main", "server", "worker"}
NoCur == 0                             \* indices start at 1 here, at 0 in the code

VARIABLES
  chans,     \* g_ch: the channels; "key" (history) tells two of them apart
  index,     \* g_groups, g_railRow and g_filt: what was built from the list
  current,   \* g_chanCur
  onDisk,    \* CHAN_PATH
  saver,     \* httpd_channels_save in each thread: where it is, and its copy
  hand,      \* the pad in main.c: the index it looked up, the channel it then got
  tuned,     \* history: the key of the channel last tuned
  drifted,   \* history: the pad has marked another channel than the one it plays
  unsaved,   \* history: the last save failed or ran into another one
  edits
channelsVars == <<chans, index, current, onDisk, saver, hand, tuned, drifted, unsaved, edits>>
stored == <<chans, index, current, tuned, drifted>>

NotSaving == [at |-> "idle", copy |-> <<>>]
NoHand == [at |-> "idle", n |-> NoCur, key |-> 0]

-----------------------------------------------------------------------------
\* index_rebuild: the groups in the order of the list, the row of the bouquet rail
\* (0 all, 1 favourites, from 2 on a group each), and the channels of that row.

InTurn(named) ==
  LET firsts == {i \in DOMAIN named : named[i] # NoGroup /\ \A j \in 1 .. i - 1 : named[j] # named[i]}
      Nth(k) == CHOOSE i \in firsts : Cardinality({j \in firsts : j <= i}) = k
  IN  [k \in 1 .. Cardinality(firsts) |-> named[Nth(k)]]
GroupsOf(l) == InTurn([i \in 1 .. Len(l) |-> l[i].group])

OnRow(c, groups, row) ==
  CASE row = 0 -> TRUE
    [] row = 1 -> c.fav
    [] OTHER   -> c.group = groups[row - 1]
Filtered(l, groups, row) ==
  SelectSeq([i \in 1 .. Len(l) |-> i], LAMBDA i : OnRow(l[i], groups, row))

RailRow(row, groups) == IF row >= 2 + Len(groups) THEN 0 ELSE row
Rebuilt(l) ==
  LET groups == GroupsOf(l)
      row    == RailRow(index.row, groups)
  IN  [groups |-> groups, row |-> row, filt |-> Filtered(l, groups, row)]
\* filter_rebuild alone: no channel has changed its group.
Refiltered(l) == [index EXCEPT !.filt = Filtered(l, index.groups, index.row)]

\* chan_load_file builds both, with the whole list on the rail.
Loaded(l) == [groups |-> GroupsOf(l), row |-> 0, filt |-> Filtered(l, GroupsOf(l), 0)]

Channel(url, group, key) == [url |-> url, group |-> group, fav |-> FALSE, key |-> key]

\* What can be fetched: bound to two entries, at most one of them in a group.
Playlists == {<<<<u, g>>, <<v, NoGroup>>>> : u \in Urls, v \in Urls, g \in Groups}

\* m3u_add and m3u_append: until the store is full; the second skips what is there.
Put(l, e, skip, key) ==
  IF Len(l) >= MaxChan \/ (skip /\ \E i \in 1 .. Len(l) : l[i].url = e[1]) THEN l
  ELSE Append(l, Channel(e[1], e[2], key + Len(l)))
Extended(l, p, skip, key) == Put(Put(l, p[1], skip, key), p[2], skip, key)

NextKey(n) == (n + 1) * (MaxChan + 1)

ChannelsInit ==
  /\ chans = <<>> /\ index = Loaded(<<>>) /\ current = NoCur
  /\ onDisk = <<>> /\ saver = [t \in Writers |-> NotSaving] /\ hand = NoHand
  /\ tuned = 0 /\ drifted = FALSE /\ unsaved = FALSE /\ edits = 0

-----------------------------------------------------------------------------
\* Changes of the list. Each is followed by a save on the same thread, also one that
\* found nothing to do.

Edits == edits < MaxEdits /\ edits' = edits + 1
Saves(t) == saver[t].at = "idle" /\ saver' = [saver EXCEPT ![t].at = "copy"]
InList(n) == n \in 1 .. Len(chans)
Becomes(l) == chans' = l /\ index' = Rebuilt(l)
HttpKeeps == UNCHANGED <<onDisk, hand, unsaved>>

AddChannel ==
  /\ Edits /\ Saves("server")
  /\ \E url \in Urls, g \in Groups \cup {NoGroup} :
       Becomes(IF Len(chans) >= MaxChan THEN chans ELSE Append(chans, Channel(url, g, NextKey(edits))))
  /\ UNCHANGED <<current, tuned, drifted>> /\ HttpKeeps

EditChannel ==
  /\ Edits /\ Saves("server")
  /\ \E n \in 1 .. MaxChan, url \in Urls, g \in Groups \cup {NoGroup} :
       IF InList(n) THEN Becomes([chans EXCEPT ![n].url = url, ![n].group = g])
       ELSE UNCHANGED <<chans, index>>
  /\ UNCHANGED <<current, tuned, drifted>> /\ HttpKeeps

CurStays(n) == current                                                 \* Mutant
CurAfterDelete(n) == IF current = n THEN NoCur ELSE IF current > n THEN current - 1 ELSE current

DeleteChannel ==
  /\ Edits /\ Saves("server")
  /\ \E n \in 1 .. MaxChan :
       /\ Becomes(IF InList(n) THEN SubSeq(chans, 1, n - 1) \o SubSeq(chans, n + 1, Len(chans)) ELSE chans)
       /\ current' = IF InList(n) THEN CurAfterDelete(n) ELSE current
  /\ UNCHANGED <<tuned, drifted>> /\ HttpKeeps

ClearChannels ==
  /\ Edits /\ Saves("server") /\ Becomes(<<>>) /\ current' = NoCur
  /\ UNCHANGED <<tuned, drifted>> /\ HttpKeeps

Toggled(n) == IF InList(n) THEN [chans EXCEPT ![n].fav = ~@] ELSE chans
ToggleFav(t, n) ==
  /\ Saves(t) /\ chans' = Toggled(n)
  /\ index' = IF InList(n) THEN Refiltered(chans') ELSE index
  /\ UNCHANGED <<current, tuned, drifted, onDisk, unsaved>>
FavByPhone == Edits /\ (\E n \in 1 .. MaxChan : ToggleFav("server", n)) /\ UNCHANGED hand

\* httpd_channels_load_playlist and httpd_channels_add_playlist, on the list worker,
\* one job at a time. What adds nothing is not saved.
LoadPlaylist ==
  /\ Edits /\ Saves("worker") /\ current' = NoCur
  /\ \E p \in Playlists : Becomes(Extended(<<>>, p, FALSE, NextKey(edits)))
  /\ UNCHANGED <<tuned, drifted>> /\ HttpKeeps
AddPlaylist ==
  /\ Edits
  /\ \E p \in Playlists :
       LET l == Extended(chans, p, TRUE, NextKey(edits))
       IN  l # chans /\ Becomes(l) /\ Saves("worker")
  /\ UNCHANGED <<current, tuned, drifted>> /\ HttpKeeps

-----------------------------------------------------------------------------
\* httpd_channels_save: copy under the lock, if there is memory for it, then truncate and
\* write without it. A write that fails or is short leaves the first lines of the copy. Two
\* files of different length written over each other leave the end of the longer one;
\* a line cut in two is dropped or read as it was.

OthersSave(t) == \E u \in Writers \ {t} : saver[u].at \in {"open", "write"}

CopyList(t) ==
  /\ saver[t].at = "copy"
  /\ \/ saver' = [saver EXCEPT ![t] = [at |-> "open", copy |-> chans]] /\ unsaved' = OthersSave(t)
     \/ saver' = [saver EXCEPT ![t] = NotSaving] /\ unsaved' = TRUE
  /\ UNCHANGED <<stored, onDisk, hand, edits>>
Truncate(t) ==
  /\ saver[t].at = "open"
  /\ \/ onDisk' = <<>> /\ saver' = [saver EXCEPT ![t].at = "write"] /\ unsaved' = unsaved
     \/ onDisk' = onDisk /\ saver' = [saver EXCEPT ![t] = NotSaving] /\ unsaved' = TRUE
  /\ UNCHANGED <<stored, hand, edits>>
Over(copy, old, cut) == copy \o SubSeq(old, Len(copy) + 1 + cut, Len(old))
Write(t) ==
  /\ saver[t].at = "write" /\ saver' = [saver EXCEPT ![t] = NotSaving]
  /\ \E n \in 0 .. Len(saver[t].copy), cut \in {0, 1} :
       /\ onDisk' = Over(SubSeq(saver[t].copy, 1, n), onDisk, cut)
       /\ unsaved' = (unsaved \/ n < Len(saver[t].copy))
  /\ UNCHANGED <<stored, hand, edits>>

-----------------------------------------------------------------------------
\* Tuning. /chan looks and marks under one lock; the pad looks up the index, gets the
\* channel, and marks the index, each on its own.

Tune ==
  /\ Edits /\ \E n \in 1 .. Len(chans) : current' = n /\ tuned' = chans[n].key /\ drifted' = FALSE
  /\ UNCHANGED <<chans, index, saver>> /\ HttpKeeps

CastClears ==
  /\ current # NoCur /\ current' = NoCur
  /\ UNCHANGED <<chans, index, tuned, drifted, onDisk, saver, hand, unsaved, edits>>

PadSelectsRow ==
  /\ hand.at = "idle" /\ Edits
  /\ \E row \in 0 .. 1 + Len(index.groups) :
       index' = [index EXCEPT !.row = row, !.filt = Filtered(chans, index.groups, row)]
  /\ UNCHANGED <<chans, current, tuned, drifted, saver>> /\ HttpKeeps

PadLooks ==
  /\ hand.at = "idle" /\ Edits
  /\ \E p \in 1 .. Len(index.filt) : hand' = [NoHand EXCEPT !.at = "looked", !.n = index.filt[p]]
  /\ UNCHANGED <<stored, onDisk, saver, unsaved>>

PadToggles == hand.at = "looked" /\ hand' = NoHand /\ ToggleFav("main", hand.n) /\ UNCHANGED edits
PadGets ==
  /\ hand.at = "looked"
  /\ hand' = IF InList(hand.n) THEN [hand EXCEPT !.at = "got", !.key = chans[hand.n].key] ELSE NoHand
  /\ UNCHANGED <<stored, onDisk, saver, unsaved, edits>>
PadMarks ==
  /\ hand.at = "got" /\ hand' = NoHand
  /\ \/ /\ InList(hand.n) /\ current' = hand.n /\ tuned' = hand.key
        /\ drifted' = (chans[hand.n].key # hand.key)
     \/ ~InList(hand.n) /\ UNCHANGED <<current, tuned, drifted>>
  /\ UNCHANGED <<chans, index, onDisk, saver, unsaved, edits>>

\* The process ends and starts again: chan_load_file.
Restart ==
  /\ Edits /\ chans' = onDisk /\ current' = NoCur
  /\ index' = Loaded(onDisk)
  /\ saver' = [t \in Writers |-> NotSaving] /\ hand' = NoHand
  /\ drifted' = FALSE /\ unsaved' = FALSE /\ UNCHANGED <<onDisk, tuned>>

-----------------------------------------------------------------------------
Listing ==
  AddChannel \/ EditChannel \/ DeleteChannel \/ ClearChannels \/ FavByPhone \/ LoadPlaylist \/ AddPlaylist
Saving == \E t \in Writers : CopyList(t) \/ Truncate(t) \/ Write(t)
Choosing == Tune \/ CastClears \/ PadSelectsRow \/ PadLooks \/ PadToggles \/ PadGets \/ PadMarks
ChannelsNext == Listing \/ Saving \/ Choosing \/ Restart
ChannelsSpec == ChannelsInit /\ [][ChannelsNext]_channelsVars

ChannelsTypeOK ==
  /\ \A i \in 1 .. Len(chans) : chans[i].url \in Urls /\ chans[i].group \in Groups \cup {NoGroup}
  /\ Len(chans) <= MaxChan /\ current \in 0 .. Len(chans) /\ index.row \in 0 .. 1 + Len(index.groups)
  /\ \A t \in Writers : saver[t].at \in {"idle", "copy", "open", "write"}
  /\ hand.at \in {"idle", "looked", "got"} /\ edits \in 0 .. MaxEdits

\* "Answered from indexes rebuilt on change": whatever changed the list, the rail has
\* its groups and the filter exactly the channels of the row that is selected.
ShownIsListed ==
  /\ index.groups = GroupsOf(chans)
  /\ index.row < 2 + Len(index.groups) /\ index.filt = Filtered(chans, index.groups, index.row)

\* The mark is at a channel the list has, however often the list was shortened under it
\* (httpd_channels.c, what g_chanCur is set to).
CurrentIsListed == current # NoCur => InList(current)

\* The channel marked as playing is the one that was tuned, however the list has moved
\* since; except when it moved while the pad was between getting and marking it.
CurrentIsTuned == current # NoCur => drifted \/ chans[current].key = tuned

\* When nobody is saving, the file holds the list, so that a restart brings it back;
\* unless the last save failed or two threads were writing it at once.
FileFollows ==
  (\A t \in Writers : saver[t].at = "idle") => unsaved \/ onDisk = chans

\* All together: screen, mark and file are those of the list as it is.
ChannelsAreSound == ShownIsListed /\ CurrentIsListed /\ CurrentIsTuned /\ FileFollows
=============================================================================
