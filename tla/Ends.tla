-------------------------------- MODULE Ends --------------------------------
\* The two ends of the player: where its bytes come in, the fetcher and the playlists it
\* fetches, and where its pictures go out, the reorder buffer and the screen. The four share
\* no state, so one run takes one of them: "end" says which, and the others stay as they start.
EXTENDS Fetcher, Playlists, Reorder, Screen

VARIABLE end
endsVars == <<end, fetcherVars, playlistVars, reorderVars, screenVars>>

EndsInit ==
  /\ end \in {"fetcher", "playlist", "reorder", "screen"}
  /\ FetcherInit /\ PlaylistInit /\ ReorderInit /\ ScreenInit
  /\ end # "fetcher" => ~page
  /\ end # "reorder" => opened = 0

Fetching(A) == end = "fetcher" /\ A /\ UNCHANGED <<end, playlistVars, reorderVars, screenVars>>
Parsing(A) == end = "playlist" /\ A /\ UNCHANGED <<end, fetcherVars, reorderVars, screenVars>>
Ordering(A) == end = "reorder" /\ A /\ UNCHANGED <<end, fetcherVars, playlistVars, screenVars>>
Showing(A) == end = "screen" /\ A /\ UNCHANGED <<end, fetcherVars, playlistVars, reorderVars>>

EndsNext ==
  \/ Fetching(FetcherNext) \/ Parsing(PlaylistNext)
  \/ Ordering(ReorderNext) \/ Showing(ScreenNext)
EndsSpec == EndsInit /\ [][EndsNext]_endsVars
=============================================================================
