------------------------------ MODULE Playlists ------------------------------
\* How a media playlist is read, hlspl_parse_media: line by line, each tag applying to
\* what follows it. The result says of every segment where it is, which part of its
\* resource it is, which key decrypts it and whether the stream breaks off before it.
EXTENDS Integers, Sequences, FiniteSets

CONSTANTS Uris,      \* of segments
          KeyUris,   \* of keys
          Offsets,   \* of sub-ranges, where a tag gives one
          MaxSegs,   \* HLS_MAX_SEGMENTS
          MaxLines   \* bound: lines of a playlist

ASSUME PlaylistAssumption == Offsets \subseteq Nat /\ MaxSegs \in Nat \ {0} /\ MaxLines \in Nat

VARIABLES
  lines,     \* what has been read
  list,      \* HlsPlaylist: the segments and the key of the init segment
  parser,    \* the locals of the parser
  verdict    \* 0, or -2: "encryption we cannot play"
playlistVars == <<lines, list, parser, verdict>>

Clear == [uri |-> "clear", iv |-> FALSE]             \* KEY_CLEAR
NoPlay == [uri |-> "noplay", iv |-> FALSE]           \* KEY_NOPLAY
AesKeys == [uri : KeyUris, iv : BOOLEAN]             \* with an IV of its own, or that of its segment
NoUri == "none"
Continues == -1                                      \* EXT-X-BYTERANGE without an offset

\* Lines: the URI of a segment; keys in the format "identity" or another one; sub-ranges, all
\* of one length; both tags whose name begins with EXT-X-DISCONTINUITY; EXT-X-MAP.
UriLines == [is : {"uri"}, of : Uris]
IdentityLines == [is : {"identity"}, of : AesKeys \cup {Clear, NoPlay}]
DrmLine == [is |-> "drm", of |-> NoPlay]
RangeLines == [is : {"range"}, of : Offsets \cup {Continues}]
DiscLines == [is : {"discontinuity", "discontinuity-sequence"}, of : {0}]
MapLine == [is |-> "map", of |-> 0]

NoList == [segs |-> <<>>, init |-> NoUri]
Start == [key |-> Clear, identity |-> FALSE, sinceSeg |-> FALSE,
          ranged |-> FALSE, off |-> Continues, prevUri |-> NoUri, prevEnd |-> 0, disc |-> FALSE]
PlaylistInit == lines = <<>> /\ list = NoList /\ parser = Start /\ verdict = 0

Reads(l) == verdict = 0 /\ Len(lines) < MaxLines /\ lines' = Append(lines, l)
InRoom == Len(list.segs) < MaxSegs

\* EXT-X-KEY. The first tag after a segment begins a group; the identity format counts,
\* wherever in the group it is.
Grouped == IF parser.sinceSeg THEN parser ELSE [parser EXCEPT !.identity = FALSE, !.sinceSeg = TRUE]
DrmWins(g) == [g EXCEPT !.key = NoPlay]                                 \* Mutant
DrmOffered(g) == IF g.identity THEN g ELSE [g EXCEPT !.key = NoPlay]
ReadIdentity ==
  \E l \in IdentityLines :
    Reads(l) /\ parser' = [Grouped EXCEPT !.identity = TRUE, !.key = l.of] /\ UNCHANGED <<list, verdict>>
ReadDrm == Reads(DrmLine) /\ parser' = DrmOffered(Grouped) /\ UNCHANGED <<list, verdict>>

\* "Pending sub-range for the next URI": a later one replaces it.
ReadRange ==
  \E l \in RangeLines :
    Reads(l) /\ parser' = [parser EXCEPT !.ranged = TRUE, !.off = l.of] /\ UNCHANGED <<list, verdict>>

\* The name of the tag is searched for, so that of its sibling matches too.
ReadDiscontinuity ==
  \E l \in DiscLines : Reads(l) /\ parser' = [parser EXCEPT !.disc = TRUE] /\ UNCHANGED <<list, verdict>>

\* EXT-X-MAP: "encrypted with the key in effect here".
ReadMap ==
  /\ Reads(MapLine) /\ list' = [list EXCEPT !.init = parser.key.uri]
  /\ verdict' = (IF parser.key = NoPlay THEN -2 ELSE 0) /\ UNCHANGED parser

\* "Without @o it continues right after the previous sub-range of the same resource".
Offset(uri) ==
  IF ~parser.ranged THEN Continues
  ELSE IF parser.off # Continues THEN parser.off
  ELSE IF parser.prevUri = uri THEN parser.prevEnd ELSE 0
Ranged(uri) ==
  IF parser.ranged THEN [parser EXCEPT !.prevUri = uri, !.prevEnd = Offset(uri) + 1,
                                       !.ranged = FALSE, !.off = Continues]
  ELSE parser

ReadUri ==
  /\ InRoom
  /\ \E l \in UriLines :
       /\ Reads(l)
       /\ IF parser.key = NoPlay THEN verdict' = -2 /\ parser' = [parser EXCEPT !.sinceSeg = FALSE] /\ UNCHANGED list
          ELSE /\ list' = [list EXCEPT !.segs =
                             Append(@, [uri |-> l.of, off |-> Offset(l.of), key |-> parser.key, disc |-> parser.disc])]
               /\ parser' = [Ranged(l.of) EXCEPT !.sinceSeg = FALSE, !.disc = FALSE]
               /\ UNCHANGED verdict

\* The next playlist, or the same one again in a live refresh: nothing is carried over.
NextBody ==
  /\ lines # <<>>
  /\ lines' = <<>> /\ list' = NoList /\ parser' = Start /\ verdict' = 0

PlaylistNext ==
  \/ ReadIdentity \/ ReadDrm \/ ReadRange \/ ReadDiscontinuity \/ ReadMap \/ ReadUri
  \/ NextBody
PlaylistSpec == PlaylistInit /\ [][PlaylistNext]_playlistVars

PlaylistTypeOK ==
  /\ \A k \in 1 .. Len(list.segs) : list.segs[k].uri \in Uris /\ list.segs[k].key \in AesKeys \cup {Clear}
  /\ verdict \in {0, -2} /\ Len(lines) \in 0 .. MaxLines /\ Len(list.segs) \in 0 .. MaxSegs

-----------------------------------------------------------------------------
\* The same, said of the whole playlist ls (RFC 8216 4.3.2, as the comments of the code put it).

Between(ls, i, j, kinds) == {k \in i + 1 .. j - 1 : ls[k].is \in kinds}
LastOf(S) == CHOOSE k \in S : \A j \in S : j <= k

\* The tags between line "at" and the URI before it.
Own(ls, at, kinds) == {k \in Between(ls, 0, at, kinds) : Between(ls, k, at, {"uri"}) = {}}

\* "Consecutive EXT-X-KEY tags offer the SAME segments under different KEYFORMATs": of
\* the last such group before a line the last playable format counts.
KeyKinds == {"identity", "drm"}
KeyOf(ls, at) ==
  LET tags     == Between(ls, 0, at, KeyKinds)
      group    == {k \in tags : Between(ls, k, LastOf(tags), {"uri"}) = {}}
      identity == {k \in group : ls[k].is = "identity"}
  IN  IF tags = {} THEN Clear ELSE IF identity = {} THEN NoPlay ELSE ls[LastOf(identity)].of

\* Sub-ranges follow each other from the last one that gave an offset, or was the first of
\* its resource after one of another.
Parts(ls, at) == {k \in Between(ls, 0, at, {"uri"}) : Own(ls, k, {"range"}) # {}}
Given(ls, at) == ls[LastOf(Own(ls, at, {"range"}))].of
Begins(ls, at) ==
  \/ Given(ls, at) # Continues
  \/ Parts(ls, at) = {}
  \/ ls[LastOf(Parts(ls, at))].of # ls[at].of
OffsetOf(ls, at) ==
  LET parts == Parts(ls, at + 1)
      first == LastOf({k \in parts : Begins(ls, k)})
      start == IF Given(ls, first) = Continues THEN 0 ELSE Given(ls, first)
  IN  IF at \notin parts THEN Continues ELSE start + Cardinality({k \in parts : k > first})

\* A segment is flagged where a tag says that it breaks off. (The tag that numbers the
\* discontinuities is taken for that one: what it stands before is left open.)
IsSegment(s, ls, at) ==
  /\ s.uri = ls[at].of /\ s.off = OffsetOf(ls, at) /\ s.key = KeyOf(ls, at)
  /\ Own(ls, at, {"discontinuity-sequence"}) = {} => (s.disc <=> Own(ls, at, {"discontinuity"}) # {})
Playable(ls) == {at \in Between(ls, 0, Len(ls) + 1, {"uri"}) : KeyOf(ls, at) # NoPlay}

\* Every segment is there, in its place, and is what the tags before it say, "until the next
\* EXT-X-KEY"; the playlist is refused for encryption exactly when something in it cannot
\* be decrypted.
PlaylistIsRead ==
  LET maps == Between(lines, 0, Len(lines) + 1, {"map"})
  IN  /\ Len(list.segs) = Cardinality(Playable(lines))
      /\ \A at \in Playable(lines) :
           IsSegment(list.segs[Cardinality({k \in Playable(lines) : k <= at})], lines, at)
      /\ list.init = IF maps = {} THEN NoUri ELSE KeyOf(lines, LastOf(maps)).uri
      /\ verdict = -2 <=> \E at \in 1 .. Len(lines) : lines[at].is \in {"uri", "map"} /\ KeyOf(lines, at) = NoPlay
=============================================================================
